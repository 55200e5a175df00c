# Knowledge Commons in TLA+

Knowledge Commons (`src/`) is one Go binary: an HTTP server that keeps
multilingual documents, an embedded SQLite store or an optional PostgreSQL store
behind it, and a command-line client that imports a Git working tree.  A document
changes in one of two ways.  Either a client *proposes* a text and somebody else
*reviews* it, or a *source repository* imports it.  This directory models what
the program must never get wrong about those changes, checks it with TLC on small
instances and proves, except for liveness, all of it with TLAPS for all instances.

## 1. The system

| Part | Source | State | Operations |
|---|---|---|---|
| SQLite store | `internal/storage/sqlite` | tables `knowledge_pages`, `knowledge_revisions`, `knowledge_proposals`, `knowledge_events`, `knowledge_chunks_fts`, `schema_migrations` | `CreateProposal`, `ReviewProposal`, `UpsertSource`, `GetPublishedVisible`, `SearchVisible`, `Migrate` |
| PostgreSQL store | `internal/storage/postgres` | the same tables without sources and chunks | `CreateProposal`, `ReviewProposal`, `GetPublished`, `Search`, `Migrate` |
| Service | `internal/knowledge/service.go` | none | normalises and validates, then calls the store |
| Chunker | `internal/knowledge/chunks.go` | none | `SplitMarkdown` |
| HTTP API | `internal/httpapi/server.go` | access policy | resolve identity, check the policy, decode, call the service, map errors to statuses |
| Identity | `internal/identity/http.go` | none | `Resolve`: disabled, header, remote |
| Process | `cmd/knowledge-commons/main.go`, `internal/config` | configuration | open, migrate, serve, shut down on a signal |
| Sync client | `cmd/knowledge-commons/source_sync.go` | position in the file list, attempt number | one PUT per file, up to five attempts each |
| Identifiers | `internal/identifier/uuid.go` | none | random UUIDs |

How they interact.  Handlers run on one goroutine per request and share only the
store.  A handler resolves the principal (for the remote provider, by a call to
another service), calls one operation of the service, which calls one operation
of the store, which is one database transaction.  The SQLite store opens its pool
with one connection, so transactions take turns.  The PostgreSQL store has a pool
of up to `KC_DATABASE_MAX_CONNECTIONS`, so transactions interleave statement by
statement and are kept apart by `SELECT ... FOR UPDATE`, by the unique key of
a page and by the unique revision number.  The sync client is another process and
talks to the server over a network that can delay, lose and repeat.

What is hard, and what therefore has to be stated:

- *Reviews of stale proposals.*  A proposal is written against a base revision,
  waits, and is accepted later.  Other proposals and imports move the document in
  between.  Correct means: accepted on top of exactly what its author saw, or a
  conflict.
- *Concurrent reviewers* (PostgreSQL).  The checks of a review are statements
  before its writes.  Correct means: what was checked is still so at the commit,
  losing a race is a conflict and not an internal error, and nobody waits for
  ever.
- *Several languages, one page.*  Translations share a page row (kind,
  visibility, source) but each has its own history.
- *Derived facts.*  "Published" is a status on revision rows, the next number is
  computed from the published row, search results come from another table with
  superseded rows in it, and the event log repeats what the tables say.  Nothing
  in the schema keeps these consistent; the transactions do.
- *Failures.*  A transaction can be refused half way, cancelled, or committed
  without its client hearing of it.
- *Imports.*  They are retried, overlap, and say who owns a key.  Attributes of a
  page (visibility, source) belong to the last import of any of its languages.
- *Two names per request.*  An actor acts for a subject; what is logged is the
  actor, what the policy asks about is the subject, and each has a spelling.
- *Several processes, one database.*  They may start at once, in two versions, be
  killed between two migrations, or be told to stop while requests run.

PROJECT.json lists these as hazards, at their lines, with the properties that
would fail if the code got them wrong.

## 2. The modules

| Module | Models | Extends |
|---|---|---|
| `Commons` | the contract: one append-only history of contents per key and language | |
| `SqliteStore` | the SQLite store, one action per transaction outcome | |
| `MCSqliteStore` | symmetry sets for TLC | `SqliteStore` |
| `SqliteStoreProofs` | theorems: types, single publication, single winner, append only | `SqliteStore`, TLAPS |
| `SqliteHistoryProofs` | theorems: numbering, lineage, kinds, event log, search | `SqliteStoreProofs` |
| `SqliteContractProofs` | the theorem that the SQLite store implements `Commons` | `SqliteHistoryProofs` |
| `PostgresStore` | the PostgreSQL review workflow, one action per statement | |
| `PostgresStoreProofs` | theorems about concurrent reviewers, `Commons` among them | `PostgresStore`, TLAPS |
| `MCPostgresStore` | symmetry set for TLC | `PostgresStore` |
| `SourceSync` | clients that import working trees, the network, and the SQLite store | instance of `SqliteStore` |
| `SourceSyncProofs` | theorems about imports | `SourceSync`, instance of `SqliteContractProofs` |
| `MCSourceSync` | two small repositories | `SourceSync` |
| `Access` | the HTTP API: identity, policy, validation, and the SQLite store | instance of `SqliteStore` |
| `AccessProofs` | theorems about the policy and the store behind it | `Access`, instance of `SqliteContractProofs` |
| `MCAccess` | the people and the lists of subjects | `Access` |
| `Process` | the processes on one database: migrations, service, shutdown, crashes | |
| `ProcessProofs` | theorems about `Process` | `Process`, TLAPS |
| `MCProcess` | the versions | `Process` |
| `Chunks` | the splitter of Markdown, line by line | |
| `ChunksProofs` | the theorem about the splitter | `Chunks`, TLAPS |
| `MCChunks` | nothing of its own | `Chunks` |

### Commons

The promise of `knowledge.Repository` and `knowledge.SourceRepository`, with no
rows, statuses or numbers.  `history` maps a key and a language to a sequence of
contents; readers get the last.  `owner` says which workflow published the key
first.  `requests` are the proposals.  `Approve` extends a history only when the
proposal was written against the version that is current at that moment, and when
the reviewer is not the proposer; `Import` extends one only with a content that
differs from the current one; `Submit` and `Decline` change no history.  Both
stores implement it (`RefinesCommons` of SQLite, `CommitsRefineCommons` of
PostgreSQL).

### SqliteStore

A table is a partial function from primary keys to rows; a row inserted in a
transaction appears in the domain.

| Action | Code |
|---|---|
| `CreateProposal` | `Store.CreateProposal`; the foreign key of `base_revision_id` is its only check |
| `RejectProposal` | `ReviewProposal` with decision `reject` |
| `AcceptProposal` | `ReviewProposal` with decision `accept`, including all of `publishProposal` |
| `UpsertUnchangedSource` | `UpsertSource` when the content hash is that of the published revision |
| `UpsertChangedSource` | `UpsertSource` otherwise |

Queries (`Latest`, `GetPublishedVisible`, `SearchVisible`) are state functions.
An operation that returns an error has rolled back and is a stutter, so it has no
action.  A crash is a rollback as well: everything in this state is on disk, and a
restart has nothing to recover beyond what SQLite recovers itself.

What is abstracted, and why it is safe:

- A page is known by its key (`UNIQUE`), so page identifiers do not appear.
  `knowledge_pages.status` does not appear either: the insert of a page sets it to
  `published`, reviews set it to that again, and nothing reads it.  Lookups and
  searches filter on the status of the revision.
- Title and body are one value, and the content hash is that value (SHA-256 taken
  as injective).  Only equality of contents matters to the code.
- A commit stands for source revision, source URL and source path of a revision:
  the code writes the three together.
- Evidence, reasons, timestamps, ranking, snippets and the result limit are left
  out.  `indexed` holds the revisions with chunks; `SearchVisible` is the set a
  query could return when its terms occur in every text.
- `knowledge_revisions_fts` is written together with the chunks and never read.
- The inputs are those that pass `Service`: valid keys and languages, a
  proposer, a reviewer and so on.
- One process uses the database file.  `SetMaxOpenConns(1)` serialises the
  transactions of a process, not those of two processes.

### PostgresStore

`request[w]` is the review that worker `w` serves and the statement it executes
next: wait for a connection, lock and check the proposal, then for a rejection
update it, for an acceptance insert the page, lock it, read the current revision,
write, and commit.  A transaction's writes are pending in `request[w]` (the
revision it inserted, whether it inserted the page) and reach the tables in
`Commit`; other transactions do not see them but do wait for them:
`ProposalFree` and `PageFree` are the row locks, `PageBeingInserted` is the wait
of `ON CONFLICT DO NOTHING` for an uncommitted duplicate, and `DuplicatePending`
is the same wait on the unique revision number.  `Abort` is a cancelled request or
a lost connection before the commit.  `Commit` is a commit whose client may or may
not hear of it: the answer is not kept, so a property about decisions has to hold
for those nobody was told of.  `GetPublished` and `Search` read committed rows, at
any moment between two statements of others.

A statement sees what was committed when it started (READ COMMITTED, the default
that `BeginTx` leaves in place).  The statements between `ReadLatest` and
`Commit` touch only rows this transaction has locked or created, so they are one
action, `Write`; the only one of them that another transaction can disturb is the
insert of the revision, which is where the unique constraint is modelled.  The
PostgreSQL store has no source ingestion (it does not implement
`SourceRepository`), so every page is a reviewed one and has one attribute, its
canonical language.

### SourceSync

Clients, network and store together.  `client[s]` is the position of an invocation
of `source sync` in its list of files, the number of the attempt, the count of
changes it will print, and the answer on its way to it; `inflight` are the requests
that may still take effect; the store's variables are those of an instance of
`SqliteStore`, whose `UpsertChangedSource` and `UpsertUnchangedSource` are what an
arriving request does.

| Action | Code |
|---|---|
| `Start` | `syncSource` up to its loop |
| `Put` | an attempt of `putSource` is sent |
| `GiveUp` | `client.Do` fails or the status is 502, 503 or 504: next attempt, or the end after the last |
| `Receive` | status 200: next file; any other status: the end |
| `Abandon` | an unreadable file or answer, or the process is killed |
| `ApplyChanged`, `ApplyUnchanged` | the handler of `PUT /v1/source-documents` answers 200 |
| `Refuse` | it answers with an error that is not worth a retry |
| `Lose` | the request never arrives, or is cancelled before the commit |

A client that gives up does not take its request back: it may wait in a proxy or
for the store's only connection and be applied later.  `GiveUp` may also happen
when an answer is already on its way, which is a lost answer.  Files are a
sequence per invocation, in the order the client sorts them; the paths are
already normalised (`normalizeKnowledgeKey`), and `DocumentSlug` makes the key.

### Access

`request[r]` is how far a request of any kind is: arrived, resolved to a principal,
answered.  Resolving is a step of its own because the remote provider is another
service that may answer late or never; from then on a handler touches shared state
in its one call of the store, which is an action of `SqliteStore`, so the handler is
one action.  What a request asks for is chosen when it is handled.  `answer` is the
last answer sent: its status, the revisions it carries (lookups, searches, accepted
reviews and imports carry some) and the document that the request had sent to be
imported.

| Action | Code |
|---|---|
| `ResolveLocally`, `IdentityAnswers`, `IdentityTimesOut` | `Resolve` of the three resolvers |
| `ShowPrincipal` | `GET /v1/principal` |
| `Propose`, `Review` | `POST /v1/proposals`, `POST /v1/proposals/{proposalID}/review` |
| `GetPage`, `Search` | `GET /v1/pages`, `GET /v1/search` |
| `PutSource` | `PUT /v1/source-documents` |
| `RefuseInvalid`, `StoreFails` | the answers 400 and 500 of every handler |

Keys, languages and names are a text and a set of traits: spaces around it, slashes
around it, capital letters, something no rule accepts, nothing but spaces.  A
spelling may have several at once.  `TrimSpace`, `ToLower` and `TrimSlashes` remove
the trait that the functions of `strings` remove (slashes inside spaces stay);
`NormalKey`, `NormalCanonical`, `NormalLanguage` and `LookedUp` apply those that the
service applies, in its order; `ValidKey` and `ValidLanguage` say which traits pass
the validation, and `Listed` is `splitList`.  A proposal and an import name two
languages, the canonical one of the document and their own, and spell each apart
from the other: a client may send a translation, in any spelling of both.
`SentKeys`, `SentLanguages` and `SentNames` are the spellings clients use in an
instance; the theorems hold for all of them.

### Process

`process[p]` is the position of a process in `run`, the migration it is at, the
number of its starts and its last exit.  `schema` are the migrations in force,
`recorded` the rows of `schema_migrations`; a transaction that has executed a
migration shows in neither until `Commit`.

| Action | Code |
|---|---|
| `Start` | `config.Load`, `openStore` |
| `Prepare`, `FinishMigrating` | `Migrate` around its loop: the advisory lock (PostgreSQL), the table |
| `SkipApplied`, `FindMissing` | the question of `applyMigration`, outside its transaction |
| `Execute`, `ExecuteFails`, `Commit`, `CommitUnheard` | its transaction |
| `StartupFails` | any other error before the server listens, and a signal, which cancels the context |
| `SessionEnds` | PostgreSQL notices that the client of a session is gone, and drops its locks |
| `Listen`, `Arrive`, `Borrow`, `Finish` | the server, a handler, and the connection it takes from the pool |
| `Signal`, `Drain`, `Deadline` | `server.Shutdown` with its deadline |
| `ListenerFails` | `ListenAndServe` returns an error, and `run` returns it without `Shutdown` |
| `Exit` | the deferred `store.Close`, and the exit status |
| `Crash` | a kill at any point |

`pgxpool.Close` waits for the connections it lent, `sql.DB.Close` does not; `Exit`
differs accordingly.  Between `ListenerFails` and `Exit` the handlers go on, and
requests may come over the connections the server has already accepted; the pool is
being closed and lends nothing.  `signal.NotifyContext` keeps catching signals until `run`
returns, so a second one does nothing and has no action.

### Chunks

One action per line of a body: a fence, a heading that starts a chunk, anything
else; `Finish` is the last flush.  A line is its kind, a chunk refers to lines by
their number.

## 3. What is checked

Every property below has a seeded fault (`PROJECT.json`, "mutants"): a plausible
slip in the code, written as an operator next to the one it replaces, under which
TLC finds the property violated with the same configuration.

| Run | Instance | States | Properties |
|---|---|---|---|
| `sqlite_reviews` | 1 document, 1 language, 2 subjects, 2 contents, 1 source, 3 revisions, 3 proposals | 66,312 | `TypeOK`, `GaplessHistory`, `FirstReviewWins`, `ReviewedLineage`, `AuditTrail`, `HistoryAppendOnly` |
| `sqlite_translations` | 1 document, 2 languages, 2 subjects, 2 contents, 1 source, 3 revisions, 1 proposal | 8,011 | `KindSeparation`, `SearchAgreesWithGet`, `TranslationsIndependent`, `RefinesCommons` |
| `postgres_languages` | 3 reviewers, 2 connections, 2 languages, 2 proposals, 2 revisions | 135,347 | `CommittedLineage`, `AcceptancesLookAtomic`, `SomebodyProceeds`, `CommitsRefineCommons` |
| `postgres_contention` | 2 reviewers, 1 language, 3 proposals, 3 revisions | 33,365 | `TypeOK`, `ChecksStillHold`, `NoInternalError`, `DecisionsStand` |
| `postgres_liveness` | 3 reviewers, 2 connections, 1 language, 2 proposals by one subject, 2 revisions, fair | 170,171 | `ReviewsFinish` |
| `sync_retries` | 2 revisions of a document in 2 languages, the second from a fork and restricted, 2 attempts, fair | 80,241 | `TypeOK`, `CitationIsTruthful`, `PageIsOneImport`, `RepeatsPublishOnce`, `ReportIsHonest`, `QuietSyncPublishesTree`, `SyncsAdvance`, `SyncEnds` |
| `access` | 3 requests, 1 key in 4 spellings, 2 languages in 5, 2 people and 5 identities | 142,628 | `NormalisedTypeOK`, `ChangesAreAccountedFor`, `RestrictedOnlyToListed`, `ImportsOnlyByListed` |
| `process` | 2 processes of 2 versions, 2 starts each, 3 migrations, 2 requests, 1 connection, fair | 222,480 | `RecordIsTruthful`, `ServesMigratedOnly`, `PostgresStartsDoNotCollide`, `HoldersGoOn`, `NoRequestCutShort`, `StartEnds`, `ShutdownEnds` |
| `chunks` | every body of up to 6 lines | 23,556 | `SectionsAsWritten` |
| `sqlite_provenance` | 2 sources, 2 commits, 2 languages, 3 revisions | | `ProvenanceImmutable`, violated |
| `sync_twice` | 2 imports of one tree with `_index.md` and `index.md`, 1 attempt | | `ResyncPublishesNothing`, violated |
| `listed_subjects` | 1 request by a subject with a capital letter | | `ListedSubjectsAreAllowed`, violated |

What the runs ask:

- `sqlite_reviews`.  Three proposals compete for one document while a source may
  import the same key.  `GaplessHistory` says that a reader gets one revision, the
  last, and that citations (`...&revision=3`) are unambiguous;
  `FirstReviewWins` and `ReviewedLineage` say that each revision of a reviewed page
  was written by exactly one accepted proposal whose author had seen the one
  before it and whom somebody else reviewed; `AuditTrail` says that the event log
  alone tells who did what; `HistoryAppendOnly` says what no transaction may undo.
- `sqlite_translations`.  Two languages of one page, each reached by a review or by
  imports.  `TranslationsIndependent`: an operation moves one language, to the
  successor of what it had.  `SearchAgreesWithGet`: search and lookup, which read
  different tables under separately written filters, serve the same revision to
  the same readers.  `KindSeparation`: the first publication decides for good
  which workflow a key belongs to, and refused publications leave no empty page.
  `RefinesCommons`: all of it together is the contract.
- `postgres_*`.  The same promises when reviewers interleave statement by
  statement, are cancelled, and lose the answers to their commits.
  `ChecksStillHold` is the reason the locks exist; `NoInternalError` says that the
  unique constraint, which the code does not translate into `ErrConflict`, never
  has anything to refuse; `DecisionsStand` says that a committed decision stands,
  heard of or not; `CommittedLineage` says of every committed revision that one
  accepted proposal wrote it, on the base its author saw, and somebody else decided
  that; `AcceptancesLookAtomic` says that search and lookup, asked between any two
  statements of others, return the same revision; `SomebodyProceeds` says that of no
  set of reviewers, with more of them than connections, each waits for another of
  the set, and `ReviewsFinish` that each gets an answer, with three reviewers over
  two connections too.
  `postgres_contention` has a third proposal because the page lock is not needed
  while the page does not exist: the unique key serialises its creators.  Only two
  updates of an existing page contend for its lock.
- `sync_retries`.  `CitationIsTruthful`: the content of each revision is what its
  provenance says it is, although one import may move the provenance of a revision
  that another created.  `RepeatsPublishOnce`: repeats and delays add nothing to a
  document that all syncs agree on.  `PageIsOneImport`: visibility and source of a
  page are those of one and the same import, never a mixture, whichever language
  came last.  `QuietSyncPublishesTree`: a sync that starts
  when the others have ended and drained, and reports success, has its whole tree
  published.  (Without "drained" this is false: a request given up on can be
  applied after a later sync and bring the older content back, with its true
  provenance.)  `ReportIsHonest`: the printed number of changes never exceeds the
  revisions created.  `SyncsAdvance`: no step takes a client back to an earlier file
  or attempt, or lets it hear a second answer in one; `SyncEnds`: so it ends.
- `access`.  `ChangesAreAccountedFor`: the store changes only in the step that tells
  one authenticated request 200 or 201, under the name of its actor.
  `RestrictedOnlyToListed` and `ImportsOnlyByListed`: whatever names the identity
  service returns for whom, and whatever imports, of any language, do to the
  visibility of a page while a request is being resolved, restricted texts go to, and
  imports come from, listed subjects only.  The first is about every answer, also to
  reviews and imports; it leaves an importer, who need not be a reader, the very
  document it has sent (section 4).  `NormalisedTypeOK` includes the types of the
  store, which admits one spelling of each key and language, and of canonical
  languages: no document exists twice under two spellings.
- `process`.  `RecordIsTruthful`: after any crash, conflict, lost commit answer or
  restart, the recorded migrations are a prefix and exactly those are in force.
  `ServesMigratedOnly`: requests meet a database their process knows.
  `PostgresStartsDoNotCollide`: what a process was told about a migration still
  holds when it applies it, also after another was killed in the middle (with SQLite
  this fails, harmlessly: the later process ends and must be started again).
  `HoldersGoOn`: who has the migration lock is gone or migrates on, with no writer in
  its way, and a lent connection is with a handler that runs at a process not yet
  drained.  `StartEnds`: so the lock of a killed process does not stop the others for
  ever.
  `NoRequestCutShort`: a kill, the deadline or a failed listener takes a request its
  answer, nothing else; the exit status tells of the last two, and with PostgreSQL
  they never take it from a request that holds a connection.  `ShutdownEnds`: a
  stopped process ends, and so does one whose listener has failed.
- `chunks`.  `SectionsAsWritten` compares the result with a definition that does not
  mention the loop: the sections between the headings outside code, trimmed, in
  order and numbered from 0.

Bounds.  The instance sizes are the only bounds; identifier sets are finite, so a
history ends when they are used up, which is why the runs say `CHECK_DEADLOCK
FALSE` (a server without requests, or a client that has ended, stops anyway).  One document is
enough for most of the properties because no operation reads or writes two keys;
two languages are needed where the page row is shared.  Three proposals and three
revisions give a winner, a loser with the same base and a proposal on top of the
winner; three reviewers over two connections give a reviewer who waits for
a connection while another who holds one waits for a lock.  Two attempts per file
instead of five give one request given up on and one that is answered;
`MaxRevisions` is the largest number of revisions the requests of the run can
create, so that no import is held up by it.  Three requests are an import or a
proposal, what changes it, and who reads it; or two imports in two languages, one of
which restricts the page of the other.  Each key and each language is sent in any
combination of a few spellings, one of which needs all that normalisation does.
Two processes with two
starts each let one be killed, restarted and overtaken by another version; the
older version knows two migrations of three, so that they collide on the first two
and disagree on the last.  One connection and two requests make a handler wait for
another.  Six lines hold two fences with a heading between and one after.  `Permutations`
are used as symmetry where identifiers, contents, subjects, languages, workers and
requests are compared for equality only; `Sources` and `Commits` are not permuted,
and the runs with liveness properties use no symmetry.  To stay small without it,
`postgres_liveness` restricts its clients: both proposals are by one subject
(`OneProposerSpec`), who may still try to review them.  No statement of a worker is
restricted, so the fairness below is that of the workers alone.

Fairness.  `FairSpec` assumes strong fairness of each worker's statements:
PostgreSQL queues lock requests, pgxpool queues acquisitions, and both hand over
in order, so a statement that is possible again and again is executed in the end.
It is strong because a lock may be taken and released by others while a request
waits.  Nothing obliges clients to send requests or connections to break: the
review and abort actions are not fair, so `ReviewsFinish` does not rely on aborts
to resolve a deadlock.  The runs have as many revision identifiers as proposals, so
`Write` never lacks one.  In `SourceSync` only the clients are fair, and weakly: a
running client sends what it has to send, and the timeout of its HTTP client (30
seconds) ends every wait.  The network and the server may do nothing for ever.
In `Process` the steps of a process are weakly
fair, handlers return, and PostgreSQL notices closed connections; nobody has to
start, stop or kill anything, and requests need not come.  Weak fairness is enough
for a process that waits for the advisory lock because `MaxStarts` bounds how often
others take it.

## 4. What the code and the docs disagree about

- `sqlite_provenance`.  The README promises "Immutable source URL, revision, path,
  and content hash on every imported revision".  `UpsertSource` overwrites the
  first three on the published revision when a later commit imports the same
  content (`source.go`, the branch `hasCurrent && current.ContentHash ==
  draft.ContentHash`), and records no event.  A revision cited yesterday points to
  another commit today.
- `sync_twice`.  The README promises "Idempotent Git/Markdown synchronization".
  `documentSlug` gives `index.md` and `_index.md` of a root, or `foo.md` and
  `foo/_index.md`, one knowledge key, and nothing notices: every sync publishes one
  over the other, so importing an unchanged tree creates two revisions each time.
- `listed_subjects`.  The README calls `KC_INGEST_SUBJECTS` "Subjects allowed to
  import source documents" (and likewise `KC_RESTRICTED_SUBJECTS`).  `splitList`
  lower-cases the list, `AccessPolicy` compares the resolved subject as it is: a
  subject with a capital letter cannot be listed.

Observations that contradict no sentence of the repository, and that the models
contain:

- A second source repository that maps a file to the same key takes the page over,
  with its visibility, in every language (`SourceSync`, the fork).
- Lookups trim but do not lower-case what they look up: a key that was accepted in
  capitals is stored, and not found in capitals (`Access`, `LookedUp`).
- Reviewers are compared with proposers by actor, so an agent's proposal may be
  reviewed by the subject it acts for; and `is_agent` is read by nothing, so
  "Human-reviewed" is what the operators of the identity service make of it.
- The answer to `PUT /v1/source-documents` carries the stored revision, and the
  policy on reading is not asked: a subject of `KC_INGEST_SUBJECTS` alone gets a
  restricted document back.  It is the one it has sent (`RestrictedOnlyToListed`); but
  if another had already imported the same content, what comes with it (identifier,
  number, author, time) is of that earlier import.
- When the listener fails, `run` returns at once: there is no `Shutdown`, and with
  SQLite the handlers that run lose their database.  The status is 1
  (`Process`, `ListenerFails`).
- With PostgreSQL a process may outlive `KC_SHUTDOWN_TIMEOUT`: after the deadline
  `pgxpool.Close` waits for the handlers that hold a connection.  `ShutdownEnds`
  holds because handlers return, and would not without (`Process`, `Exit`).

## 5. What is proved

Every safety property that a run checks is also a theorem, for every value of the
constants.  The theorem modules state nothing of their own about the program: a
theorem names a definition that a run checks, or brings one to a composition, or
says what such a definition rests on.  (`GaplessHistory`
implies `OnePublished`, so no run checks that as well; the types of `Process` and
`Chunks` are only proved.)  The assumptions are those of the modules, and TLC
evaluates them on each instance.

### The SQLite store, one operation at a time: `SqliteStoreProofs`

For all sets of keys, languages, subjects, contents, sources, commits and
identifiers, from the single assumption that NULL is none of them
(`NoneAssumption`):

- `TypeCorrect`: `Spec => []TypeOK`
- `PublishedOnce`: `Spec => []OnePublished`
- `BaseUsedOnce`: `Spec => []FirstReviewWins`
- `AppendOnlyForever`: `Spec => HistoryAppendOnly`

`OnePublished` is preserved because a new revision supersedes `Latest`, and `Latest`
is, when the invariant holds before, *the* published revision of the slot.
`FirstReviewWins` is not inductive: nothing in it says why a second proposal with
the same base must be refused.  The missing fact is `AcceptedLeavesTrace`: an
accepted proposal has left its base superseded, or, if it had none, has left
something published in its slot; in each case `Latest` can never equal that base
again, because superseded revisions are never republished and a slot, once
published, stays so.  `IInv` is the conjunction of `TypeOK`, `OnePublished`,
`AcceptedLeavesTrace` and `FirstReviewWins`; `InitIInv` and `NextIInv` show it
inductive, with one lemma per action, and lemmas about the shared writes
(`WriteRevisionEffect`, `AcceptEffect`, `ImportEffect`) that say once what a
publication does to the table.

### The SQLite store's past: `SqliteHistoryProofs`

- `GaplessForever`: `Spec => []GaplessHistory`
- `LineageReviewed`: `Spec => []ReviewedLineage`
- `KindsSeparate`: `Spec => []KindSeparation`
- `TrailComplete`: `Spec => []AuditTrail`
- `ReadersAgree`: `Spec => []SearchAgreesWithGet`
- `OneDocumentAtATime`: `Spec => TranslationsIndependent`

The code computes a number from the published row alone, so `GaplessHistory` holds
only if that row carries the largest number.  `HistoryOK` says it does
(`PublishedIsLast`), that no number is used twice (`NumbersUnique`) and that each
smaller one is used (`NumbersDense`).  `GaplessHistory` and `AuditTrail` count rows;
their inductive forms do not: numbers are a bijection onto an interval, and
`Audited` says that the actors of a kind of event about a row are the singleton of
the subject the row names.  `HistoryInv` is the conjunction of `IInv`, `HistoryOK`,
`AllIndexed` (no revision without chunks), `KindSeparation`, `ReviewedLineage` and
`Audited`.  Every action does one of two things to the revisions, leave all but
provenance alone (`RevisionsRest`) or publish one row over the current one
(`Publishes`), and most lemmas are about these two instead of about the actions.

### The SQLite store and the contract: `SqliteContractProofs`

- `ImplementsContract`: `Spec => RefinesCommons`

By `HistoryInv` the history the store shows holds, at each number, the content of
the revision of that number (`HistoryIs`).  So `AcceptProposal` is `Approve`,
`RejectProposal` is `Decline`, `UpsertChangedSource` is `Import`, and
`UpsertUnchangedSource`, which rewrites provenance and page attributes, is a stutter.

### Concurrent reviewers: `PostgresStoreProofs`

For any number of workers, connections, keys, languages and identifiers
(`NoneAssumption`, `ConnectionsAssumption`):

- `TypeCorrect`: `Spec => []TypeOK`
- `LocksCoverChecks`: `Spec => []ChecksStillHold`
- `ConflictsAreTranslated`: `Spec => []NoInternalError`
- `ReviewersDoNotDeadlock`: `Spec => []SomebodyProceeds`
- `SomebodyIsGranted`: while a review is under way, the guard of the next statement
  of one holds
- `ReadersAgree`: `Spec => []AcceptancesLookAtomic`
- `LineageReviewed`: `Spec => []CommittedLineage`
- `AppendOnlyForever`: `Spec => DecisionsStand`
- `ImplementsContract`: `Spec => CommitsRefineCommons`

`ChecksStillHold` is about one request and not inductive: what another request will
commit can falsify it.  The invariant therefore has a part for each request and one
for each pair.  `Sound(r)` is what `r` has learned from the statements it has
executed: its proposal is pending and reviewable, its page exists or is its own
insert, its base is current, its revision identifier is unused.  `Compatible(a, b)` is
what the locks keep two requests from having in common: the proposal from its lock
to the commit, the page from its lock to the commit, an uncommitted page, a revision
identifier.  A commit changes the tables only under its own proposal and page, so by
`Compatible` the `Sound` of the others survives it; a statement of one request
establishes `Compatible` because it waits for the others' locks.  `IInv` adds
`HistoryOK`, as above, and `CommittedLineage`, whose reviewer is not the proposer because the
proposal stays `Reviewable` from its lock to the commit.

Reviewers do not deadlock because all of them take what they need in one order: a
connection, the proposal, the insert of the page, the page.  Whoever is waited for
has taken what the other still lacks, so it is further on (`WaitersAreBehind`), and
of any set of reviewers one who is furthest on waits for none of the others.  At
the insert of a revision, the last step, nobody waits at all: `NumbersAreFree`,
from which `NoInternalError` follows too.  `SomebodyProceeds` speaks of waits as
`WaitsFor` defines them; `WaitsForIsComplete` shows that a request that waits for
nobody finds its guard true, which gives `SomebodyIsGranted`, the part of `ENABLED`
that matters, without `ENABLED`.

For the refinement, `Commit` is the
only step that is not a stutter: everything before it is invisible.

### Imports: `SourceSyncProofs`

For any finite set of invocations over any trees (`InvocationAssumption`: a tree is
not empty, a commit of a source has one tree) and any number of attempts and
revisions:

- `TypeCorrect`: `Spec => []TypeOK`
- `CitationsTruthful`: `Spec => []CitationIsTruthful`
- `PagesAreOneImport`: `Spec => []PageIsOneImport`
- `RepeatsAreOne`: `Spec => []RepeatsPublishOnce`
- `ReportsAreHonest`: `Spec => []ReportIsHonest`
- `QuietSyncsPublish`: `Spec => QuietSyncPublishesTree`
- `SyncsOnlyAdvance`: `Spec => SyncsAdvance`
- `HistoryBehindSyncs`: `Spec => [](GaplessHistory /\ AuditTrail /\ SearchAgreesWithGet)` of
  the store
- `ContractBehindSyncs`: `Spec => RefinesCommons` of the store

A request takes effect in one of two ways, in place or as a new revision; after both
its document is current with its content and cites it (`Imports`).  The invariant
adds to that of the store (`Proved!IInv`) that only started syncs have requests
under way and are cited (`RequestsStarted`, `CitesStarted`), that a key once
published stays so, that a page agrees with a published revision of it
(`PageOfImport`), that a document all syncs agree on has at most one revision
(`AgreedOnce`), that what has not started has done nothing (`IdleIsFresh`), and that
what a client has counted, with the answer on its way, never exceeds the revisions
of its subject (`CountsHonest`).  `QuietSyncPublishesTree` is not an
invariant but "from any quiet state on": `QuietInv` holds in a quiet state and is
kept by every later step, because the only requests left are the sync's own and
repeating one of them changes nothing.  The proof uses `Quiet`; without it the
statement is false (section 3).  `SyncsOnlyAdvance` has to show that an answer comes
to a client that waits for it and has none yet, although requests outlive their
attempts: a request under way is behind its client, or the one it waits for and has
no answer to (`RequestsBehind`), only who waits has an answer (`AnswersAwaited`), and
an attempt is sent once.

### The policy: `AccessProofs`

For any finite set of requests, any people, texts, spellings, lists and identity
service (`RequestsAssumption`, `SpellingAssumption`, `NoneAssumption`):

- `TypeCorrect`: `Spec => []NormalisedTypeOK`
- `EveryChangeHasARequest`: `Spec => ChangesAreAccountedFor`
- `RestrictedStaysRestricted`: `Spec => RestrictedOnlyToListed`
- `ImportersAreListed`: `Spec => ImportsOnlyByListed`
- `StoreIsDriven`: `Spec => Store!Spec`
- `ReviewsStayExclusive`: `Spec => [](Store!OnePublished /\ Store!FirstReviewWins)`
- `HistoryBehindApi`: `Spec => [](GaplessHistory /\ ReviewedLineage /\ KindSeparation /\
  AuditTrail /\ SearchAgreesWithGet)` of the store
- `ChangesBehindApi`: `Spec => HistoryAppendOnly /\ TranslationsIndependent` of the store
- `ContractBehindApi`: `Spec => RefinesCommons` of the store

`HandlerEffect` is the core: whatever a request is, its handler is a `ReadStep`,
which leaves the store alone and shows a requester what the policy grants, or a
`WriteStep`, which is one operation of the store under the name of the resolved
actor.  `NormalisedTypeOK` includes that of the store, and with it that only
normalised keys, canonical languages, languages and names reach it; a proposal and
an import are quantified over the spellings of both languages, so what follows is
about translations too.  `IInv` adds that a handled request has a principal
(`Authenticated`), that identifiers suffice, one per request (`IdentifiersLeft`), so
that the finite supply of the model holds no request up, and that pages of the
review workflow are shared (`ReviewedShared`): an accepted review shows its revision
to a reviewer, and the policy on restricted pages is not asked.  `MayShow` says what
an answer may carry; `RestrictedStaysRestricted` follows from it.

A step of the composition is one operation of the store or none (`StoreStep`, here and
in `SourceSyncProofs`); so the store runs as `SqliteStore` specifies it, and its
theorems, of the instance `Proved`, hold behind the API and behind the syncs
without another proof: `ReviewsStayExclusive`, `HistoryBehindApi`, `ChangesBehindApi`
and `ContractBehindApi` are those worth naming.

### Processes: `ProcessProofs`

For any number of processes, requests, versions, starts and connections
(`ProcessAssumption`):

- `ProcessTypes`: `Spec => []TypeOK`
- `MigrationsTruthful`: `Spec => []RecordIsTruthful`
- `MigratedBeforeServing`: `Spec => []ServesMigratedOnly`
- `StartsDoNotCollide`: `Spec => []PostgresStartsDoNotCollide`
- `NobodyWaitsInVain`: `Spec => []HoldersGoOn`
- `AnsweredBeforeExit`: `Spec => NoRequestCutShort`

A process at migration `n` has seen, or committed, all before `n`, and rows of
`schema_migrations` are never removed; so what it commits extends a prefix, and what
it serves is complete.  This is `Progress`.  `LockHeld` says that with PostgreSQL
whoever is between the question and the commit has the advisory lock under the
session of its current start; so nobody else changes `schema`, and the answer "not
applied" stays true until the process itself makes it false.  A crash leaves the
lock with a session that is no process's current one, which is why the sessions of
the model carry the number of the start.  `AnsweredBeforeExit` rests on `HandledOK`:
handlers run only at processes that serve, have lost their listener, drain or are
overdue, so a process that has drained and exits with status 0 cuts none short.  `NobodyWaitsInVain`
adds `LockUsed`, that the advisory lock is with a start that still migrates or is
gone.

### The splitter: `ChunksProofs`

- `TypeCorrect`: `Spec => []TypeOK`
- `SplitsAsWritten`: `Spec => []SectionsAsWritten`

for bodies of up to any number of lines (`LinesAssumption`).  `SectionsAsWritten` does
not know the loop, so the invariant says what each variable of the loop stands for:
`inFence` is the parity of the fences read (`FenceIsParity`), `section` the lines
since `heading` (`SectionIsRest`), `heading` the last start of a section read
(`HeadingIsLast`), and `chunks` the sections before it (`ChunksAreEarlier`).  The
danger is a flush that drops something; `NothingToFlushYet` shows that there is
nothing to flush only before the first line and in the empty body, because a body is
trimmed and `TrimSpace` loses no line that is not blank (`TrimSpaceKeeps`).

### Only model-checked

`ReviewsFinish`, `SyncEnds`, `StartEnds` and `ShutdownEnds` are liveness properties under
fairness: beyond the prover, they stay with TLC.  What could make three of them false
at some other size is proved: that reviewers wait in a circle
(`ReviewersDoNotDeadlock`, `SomebodyIsGranted`), that a sync returns to what it has
done (`SyncsOnlyAdvance`), that a process waits for one that does not go on
(`NobodyWaitsInVain`).  The three violations of section 4 are counterexamples,
found by TLC.

## 6. What is not modelled

- Ranking, snippets and the splitting of queries into terms: data that no property
  tells apart.
- The walk of a working tree, front matter, and `normalizeKnowledgeKey`: functions
  over strings and the file system that end in the list of files `SourceSync` starts
  from.  A file name the server refuses ends the sync (`Refuse`, `Receive`).
- `/livez`, `/v1/info` and `/readyz`, and the `healthcheck` subcommand that asks the
  last: they change nothing.  `/readyz` waits one second for a connection, so with
  SQLite a long import makes it answer 503.
- The HTTP API over PostgreSQL: `Access` composes the handlers with the SQLite store;
  without `SourceRepository` and `VisibleRepository` it has fewer routes and no
  restricted pages.
- That every request is answered, in `Access`: its one wait, for the identity service,
  is ended by the timeout of an HTTP client (`IdentityTimesOut`), which no other step
  can prolong.
- The parsing of the configuration: an invalid one ends the process before `Start`.
- What a migration does to existing rows.
- Benchmarks, the container build and the end-to-end tests: no behaviour of the
  running system.
- SQLite's and PostgreSQL's own durability.

## 7. Plan

In order of importance.

1. `Commons`, `SqliteStore`, proofs of its core invariants.  *Done.*
2. `PostgresStore`: interleaved reviewers, readers, liveness.  *Done.*
3. `SourceSync`, composed with the store.  *Done*; left: documents that the review
   workflow owns.
4. `Access`, composed with the store.  *Done* for SQLite.
5. `Process`: migrations, service and shutdown.  *Done*, with proofs.
6. `Chunks`.  *Done.*
7. Proofs.  *Done* for every safety property of the runs, and for the compositions
   through the store they drive.

## 8. Running

    tlc -workers 2 -config SqliteReviews.cfg MCSqliteStore.tla
    tlc -workers 2 -config PostgresContention.cfg MCPostgresStore.tla
    tlc -workers 2 -config SyncRetries.cfg MCSourceSync.tla
    tlc -workers 2 -config Access.cfg MCAccess.tla
    tlc -workers 2 -config Process.cfg MCProcess.tla
    tlc -workers 2 -config Chunks.cfg MCChunks.tla
    tlapm SqliteStoreProofs.tla
    tlapm SqliteHistoryProofs.tla
    tlapm SqliteContractProofs.tla
    tlapm PostgresStoreProofs.tla
    tlapm SourceSyncProofs.tla
    tlapm AccessProofs.tla
    tlapm ProcessProofs.tla
    tlapm ChunksProofs.tla
