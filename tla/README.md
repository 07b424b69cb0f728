# Verification of deep-memory

TLA+ specifications of deep-memory (`packages/`), checked with TLC on small
instances and, where marked, proved with TLAPS for every value of the constants.
Paths below are relative to the repository; `core/` stands for
`packages/core/src/`.

## 1. The system

deep-memory is a memory store for AI agents: typed entities and relationships in
repositories, each with a *vocabulary* that says which types exist and a
governance mode that says how the vocabulary may change. Processes share nothing
but the database; inside one process, calls interleave at every `await`.

| Component | State | Operations | Interacts with | Hard behaviour | Correct when |
|---|---|---|---|---|---|
| `VocabularyEngine`, `VocabularyGovernor`, `VocabularySchema`, `SemanticDeduplicator` (`core/core`, `core/vocabulary`) | the vocabulary, its version and its change log in the store; the configuration captured by each handle | `proposeChange` (add, edit, delete a type), validation of writes | reads, compare-and-set writes and deletions by type of the storage provider; the embedding provider | concurrent proposals, at most three attempts, deletion in two steps that can fail in between | no lost update; the log is the history; no duplicate types; a deletion's answer is final; data of a standing type is never deleted |
| Vocabulary cache of the SQL Server, CosmosDB and Neo4j providers | one entry and an invalidation count per process | cached and fresh reads, saves | the database; every validation reads through it | reads overlap saves of the same process and of others | own writes are read; staleness is below one TTL |
| `EntityManager`, `RelationshipManager`, `MemoryRepository` | entities, relationships, slugs, search index | create in batches, update, remove, re-embed | engine (validation), store, hooks and events | slug races, read-merge-write updates, batches that fail part-way | unique slugs; a batch reports what it stored; no update is lost |
| `DeepMemory` | repositories, their configuration | create, open, update, delete, list | store, global events | deletion interrupted and resumed; re-creation under the same id | a deleted repository leaves nothing behind; handles see the configuration they should |
| Storage providers | the database; connections | the `StorageProvider` contract | server, retries | writes that are not transactions (CosmosDB), lost acknowledgements, batches | compare-and-set is atomic; counts are exact or documented not to be |
| `GraphTraversal`, compilers, `FallbackTraversalExecutor` | none | exploration, paths, compiled queries | store | pruning, limits | same answer as the definition on every provider |
| Portability (`RepositoryExporter`, `RepositoryImporter`, `MigrationEngine`) | a chunk stream | export, import | store | chunks that fail part-way, id conflicts | what is imported is what was exported, or reported |
| Indexer (`packages/indexer`) | source list, registry, checkpoints and lock in files | convert, extract, consolidate, validate, import | LLM, embedding provider, files, concurrent workers | crash between a step and its record; workers that share a file | nothing extracted twice or lost; every source ends in a final status |
| `EventBus`, `ProvenanceTracker`, search, validation report, MCP servers, graph viewer | little or none | | | | |

`PROJECT.json` lists every component with its status and every hazard with the
line it bites at and the property that covers it, or why none does yet.

## 2. The modules

```
VocabularyGovernor                what governance makes of a proposal (pure)
  <- VocabularyRegister           what the vocabulary promises (abstract)
  <- VocabularyEngine             proposeChange, the data step, writers
       INSTANCE VocabularyRegister    (ImplementsRegister)
       <- MCVocabularyEngine
       <- VocabularyEngine_proofs
VocabularyCache                   the providers' cache
  <- MCVocabularyCache; VocabularyCache_proofs

SlugDirectory                     one slug to an entity (abstract)
MemoryStore                       the in-memory provider's maps
  INSTANCE SlugDirectory              (ImplementsDirectory)
  <- MemoryRepository             EntityManager, RelationshipManager and hooks over the store
       <- RepositoryImporter      imports and merges beside them
            <- MCMemoryRepository
            <- MemoryRepository_proofs

RepositoryLife                    what the providers keep, are asked for and promise
  <- CosmosRepository             ... CosmosDB, by request
       <- CosmosImporter          ... and its bulk import
  <- Neo4jRepository              ... Neo4j, by statement
       <- Neo4jImporter           ... and its bulk import
  <- SqlServerRepository          ... SQL Server, by request
  StorageProviders                all three behind the contract
       <- MCStorageProviders
       <- StorageProviders_proofs <- RepositoryData_proofs

StoredGraph                       a graph and a question about it
  <- PathSearch                   paths, breadth first (in-memory, SQL Server)
  <- NeighborhoodSearch           exploration, layer by layer
  <- Traversal                    traversals: fallback, compiled, pages
  GraphTraversal                  all three, with the compiled path query
       <- MCGraphTraversal
       <- GraphTraversal_proofs

IndexerState                      extraction: workers, source list, lock, stop
  <- MCIndexerState
       <- MCIndexer               ... and corrections
ExtractionNotes                   an extraction file and what a correction makes of it (pure)
  <- CorrectionApplier            the apply command <- MCIndexer
       <- Indexer_proofs          (and of IndexerState)
DataInduction                     induction over numbers and loops, for proofs
  INSTANCE                        in Indexer_proofs, GraphTraversal_proofs
```

`MC` modules hold instances for TLC and nothing else. A `_proofs` module holds the
theorems about the module or the part it is named after; `RepositoryData_proofs` goes on
from the one that it extends, and `DataInduction` has what proofs about loops and recursive functions rest on.

### VocabularyGovernor
`processProposal` and the checks `attemptProposal` runs before it, as operators on
a vocabulary `v`, a proposal `p` and a configuration `g`. The verdict is one of
`Refused` (bad name, locked, duplicate), `Queued`, `Absent` and `Approved`;
`Applied(v, p)` is the vocabulary to store and `Record(v, p)` its change record.
A type name is a member of `Names`, and what the code computes from its characters
is given by constants: `Snake` is `toScreamingSnakeCase`, `Fold` is `foldTypeName`,
`Similar` what the deduplicator calls a duplicate, `StoreKey` what a store cannot
tell apart. The model therefore covers every spelling rule that satisfies
`NamesAssumption`. Property lists and descriptions are counted (`revision`), not
kept, and property schemas are taken to be valid.
`Target` keeps the order of `findRelationshipType`: the exact name, else the
converted one. A list of definitions is a set here; the version that declared a
definition plays the part of `createdAt` and gives the list its order, so that "the
first of that name", which an edit revises, is still defined when a name is declared
twice.

### VocabularyRegister
The abstract specification: one vocabulary and its log, changed by one approved
proposal at a time.

### VocabularyEngine
`call[c]` is the state of the `proposeChange` of handle `c`. Its phases are the
places between the awaits of the code:

| Phase | In the code | Actions |
|---|---|---|
| `read` | before the fresh `getVocabulary` (`VocabularyEngine.ts:251`) | `ReadFresh` |
| `decide` | the vocabulary is read; deduplication may await, then `saveVocabulary` | `Decline`, `Save`, `SaveConflict`, `SaveUnacknowledged`, `ResumeTypeDeletion` |
| `cascade` | the write landed, `cascadeDeleteData` runs (`:330`) | `DeleteBatch`, `CascadeDone` |
| `resume` | the type is absent, the data step runs again (`:381`) | `DeleteBatch`, `CascadeDone` |
| `reread` | the version is read for the answer (`:392`) | `RereadVersion` |
| `answered` | the promise is settled | a new `ProposeChange` |

`Fail` ends a call in any of them. `SaveUnacknowledged` is a write that lands and
whose answer is lost. `DeleteBatch` removes any part of the type's data, in any
number of requests: CosmosDB and Neo4j delete in batches, SQL Server and memory at
once, which is `CascadeDone` alone. With `MayUndercount` a request may report none
of what it deleted, as the contract allows CosmosDB (`StorageProvider.ts:348`).
`ValidateWrite` and `StoreWrite` are `EntityManager.create` and
`RelationshipManager.create` as far as types go. Their distance in time is
unbounded, so that a validation served by a stale cache is one of their behaviours.
Four variables are history: `rivals`, `doomed`, `late`, `interrupted`. No action's
guard reads them; only the properties do.

### VocabularyCache
A vocabulary is the number of writes that led to it. A call of a process is a read
or a save: it starts (`AskDatabase`, `SaveVocabulary`), the database serves it
(`DatabaseAnswers`, `WriteLands`) and it returns (`ReadReturns`, `SaveReturns`, or
their failures), each a step. A save of another process is a save of a call that
another process owns. The three providers run the same protocol: the generation is
read when the read starts, the entry expires a TTL after that moment, and a save
drops the entry and moves the generation in its `finally`. The generation counts
per provider and not per repository in the code; here there is one repository, and
a change of another one would only keep an entry from being stored.

### SlugDirectory, MemoryStore
`SlugDirectory` is the abstract specification: each entity has a slug, entities come under
a free slug, move to one and go, and a lookup of a slug answers with the entity that has
it. One operation breaks the promise for a slug: `Claim`, which gives it to an entity while
another has it. From then on a lookup of that slug (`doubled`) answers with one of those at
most; every other slug is as before. `MemoryStore` is
`InMemoryStorageProvider` as far as entities and relationships go: three maps and the
slug index, which is kept beside the entity map and must be moved with it. Each of its
operations is one action, since the provider has no `await` in them. It is shown to
implement `SlugDirectory` by mapping the entity map to the directory and the slug
index to its lookups. `ImportEntity` is the row of a bulk import, which sets entity and
index without a look at the slugs in use: it is the directory's `Claim`.

### MemoryRepository
A client makes one call on a repository handle: `create` (a batch), `update`,
`delete`, `reembed`, `relate`, `unrelate`, `purge` (by type) or `clear`. The phases of
a call are the places between the awaits of `EntityManager`, `RelationshipManager` and
`MemoryRepository`: generate a slug (a lookup per candidate), embed, write, tell the
handlers of `entity:created`, update the search index, and again on a slug conflict,
at most `MAX_SLUG_CONFLICT_RETRIES` times. `update` reads, merges and writes back;
`reembedAll` pages through the entities and re-embeds each from what it read, the label and
those contents that its type embeds (`Embeddable`), until it has come through all pages
(`reembedded`), its failures reach the threshold it was given (`stopped`), or a signal or a
handler that throws ends it between two steps (`aborted`). A hook,
a handler, the search provider or the embedding provider may fail (`faults`). The
vocabulary accepts every input: a refusal precedes every write and changes nothing.
Requests have the types that the TypeScript interfaces give them (`Request`), lists
that are empty among them. `contended` and `unheard` are history.

### RepositoryImporter
`importRepository` into a new repository and `mergeInto` an existing one with its
three conflict policies (`skip`, `overwrite`, `rename`): rows in batches, an id map
for renamed entities, a slug that another entity has, endpoints that are missing, and
a report. Its actions run beside those of `MemoryRepository` on the same store.

### RepositoryLife, StorageProviders
The three persistent providers keep the same things in different ways: a repository
is a *marker* (a vertex, a node, a row), a vocabulary, and its data. `RepositoryLife`
has that state, the calls that can be made on it (`Operations`: create, delete, clear,
add an entity or a relationship, delete by id and by type, save the vocabulary,
import), the events that `DeepMemory.deleteRepository` sends around a deletion, what
may go wrong with a request, and every property. The properties are stated once and
hold of all three providers, or name the one they exempt. `Submitted` is a driver that
sends a request again although it may have had its effect (CosmosDB, and Neo4j's
managed transactions), `Answered` one that does not (SQL Server); `Fails` is a request
that fails for good, or a process that dies. A repository, an item and a vocabulary
bear the call that made them (`of`, `by`): the stores keep no `of`, and only Neo4j
keeps `by`, as its write token; CosmosDB compares whole vocabularies to the same end.
`alive`, `late` and `swept`, and the history fields of a call (`caught` among them), are
read by properties only. `StorageProviders` picks the provider of a behaviour and composes the steps.

### CosmosRepository, CosmosImporter
A partition with vertices, and an index vertex elsewhere that lists the repositories.
Nothing spans two requests, so everything rests on the order of writes: a create writes
the marker last, a delete drops it first and drains the partition in batches, every
other write looks for the marker first. **A step is a request**; a request that adds
something is two steps, since Gremlin looks and adds without a lock in between
(`CheckAndAdd`, `Land`; `MatchVersion`, `CompareAndSet`, `WriteRecord`; `EnsureRecord`,
`PutRecord`), and so is a request of a deletion that is guarded against a re-creation:
`UnlessRecreated` looks for the marker, and the batch (`DrainEntities`, `DrainVertices`) or
the index entry (`RemoveFromIndex`) goes later, whatever was created in between. The index is
read, changed and written back whole, as in the code. `CosmosImporter` is `importBulk`:
chunks one after the other behind a look at the marker, and in a chunk a pool that sends
one request per row. Its controller halves the rows under way at a throttle, raises them
after `IncreaseAfter` rows without one, later near a level that has been too high, and
stops the import after `MaxThrottlesAtMin` throttles in a row at one row. A row the store
is too busy for waits in a queue and runs again; no row looks at the marker. Cooldowns
only delay, and are left out; for how long a throttle keeps the level down is any time.

### Neo4jRepository, Neo4jImporter
**A step is a statement**, which is a transaction. A statement that creates something
locks the marker, so that it comes before a delete's first statement or fails. A delete
drops the marker, then drains relationships along a cursor over the entities
(`Page`, `Turned`: a batch at the cap is run again from the same place), then entities,
change records, whatever native queries wrote, and the vocabulary last and only while
there is no marker. Drains are not sent again and may be half done. Everything else is
sent again when the answer to its commit is lost: a create, an added item and a row of
an import carry a token by which the repetition knows its own first run
(`ByToken`, `ReadToken`, `CountCarrying`, `ReadTokens`), and `deleteByIds` carries what
earlier attempts found from one to the next. `Neo4jImporter` is `importBulk`: a pool of
chunks, entities before relationships, a chunk whole or, when a row is in the way, row
by row; the first failure stops the rest.

### SqlServerRepository
**A step is a request**; a deletion, a guarded deletion by ids or type, a save and an
import are one transaction each that locks the repository's row first. The others look
first and write later, and leave what changed in between to the foreign keys and the
primary key: `DeletesRows` refuses a deletion that would leave a relationship without an
end, `InsertRow` an item whose repository or endpoints are gone, and `ExplainForeignKey`
looks again to say which. `createRepository` inserts the repository and its vocabulary
in two statements.

### StoredGraph, PathSearch, NeighborhoodSearch, Traversal, GraphTraversal
A behaviour begins with a graph and a question about it (a path between two entities,
a neighbourhood, a traversal) with every option that bears on the answer, and runs one
provider's algorithm to an answer. `PathSearch` is the breadth-first search of the
in-memory and SQL Server providers with its pruning by depth and its limit;
`GraphTraversal` adds the query that the Gremlin and Cypher compilers build (every
simple path, from a pool of ten times the limit) and the filter the caller applies.
`NeighborhoodSearch` is the four providers' exploration, which differ in when an
entity counts as visited and in when they stop. `Traversal` is the fallback executor,
step by step with its request limit and its repeated steps, and what a compiled query
answers, both cut into pages by offset or cursor. The reference definitions are
independent of the algorithms: trails through the graph (`Trails`), distances by walks
(`WalkEnds`), matches of a list of steps (`Matches`), rounds of a repetition
(`Rounds`).

### IndexerState
Extraction by a pool of workers. `file` is the source list's file: every change of it
reads the file, changes the copy and writes the whole file back, three steps (`read`,
`write`, `land`) between which all others run; the file is truncated from `write` to
`land`, and of two writes that overlap the second may leave a tail of the first. `outputs`
are the files of the extraction outputs, one for each worker and *file name* (`NameOf`):
`extractionFilename` takes the document's name without folder and extension, so two documents
may have one file between them. They are rewritten in place like the list (`OutputBegins`,
`OutputLands`), and a crash meanwhile leaves a file that does not parse (`broken`). An
`extract` call checks the process lock, resets what an earlier process left, lists the
work and starts its loops; a loop takes a document from its worker's queue, marks it,
extracts, records the output, and on failure gives the document to a more capable
worker. A stop command writes a signal that the loops read; a crash ends the process,
with its calls, anywhere.

### ExtractionNotes, CorrectionApplier
`ExtractionNotes` is one extraction file and `applyCorrection`, as operators: entities
and relationships looked up by label, alias and case as `CorrectionApplier` does it,
creations, updates, deletions and retargets, and what is refused. `CorrectionApplier`
is the `apply` command: read the corrections, choose by approval, confidence and
explicit indices, then per file read, back up, write a temporary file, rename it, and
save the list of corrections last. Any file operation may fail, the process may die
anywhere and the command be sent again, a validation may replace the list meanwhile.
`MCIndexer` chooses for each behaviour whether documents are extracted or corrections
applied; the two commands share no file.

## 3. What the runs check

| Run | Instance | Checks |
|---|---|---|
| `entity_types` | 2 handles, 3 proposals out of 5 (add and delete by `Person` and `person`, edit), one initial entity, one writer, undercounting, a store that ignores case; 239 016 states | `VersionIdentifiesVocabulary`, `NoDuplicateTypes`, `ApprovedIsLogged`, `DeleteAnswerIsFinal`, `OrphansAccounted`, `ImplementsRegister`, `NoStandingDataLost` |
| `contended_relationship_types` | 2 handles, 4 proposals (edit and delete of `WORKS_ON` as `worksOn`), open and queued governance switched at will, exact store; 68 308 states | `ConflictMeansContention`, `EveryCallIsAnswered` |
| `cache` | 2 processes, 2 calls in the one and 1 in the other, 2 saves, TTL of one tick; 2 061 091 states, symmetry on the two calls | `ReadYourWrites`, `BoundedStaleness` |
| `memory` | 21 plans of one to three calls on two connected entities, 6 ids, two types that embed different contents, one failure; 140 907 states | `NoDanglingRelationship`, `IndexAgrees`, `SlugNamesEntity`, `ReportIsTruth`, `ReembedReachesAll`, `LoneMergeCompletes`, `ImplementsDirectory` |
| `providers` | 61 plans, each for one provider: two or three calls on one repository, or two and a neighbour's; batches of one, up to two requests that fail or are sent again; 254 963 states | `LiveHasVocabulary`, `NothingOutlives`, `LiveKeepsItsData`, `MissingIsReported`, `DeleteEventsInOrder`, `SaveIsTruth`, `AnswersAreTruth`, `CallsEnd` |
| `graph_search` | every graph of up to eight chosen relationships on four entities, depths to 3, all providers, directions, filters, limits and modes; 1 195 048 states | `PathsAreReal`, `SearchIsComplete`, `LayersAreDistances`, `PagesHoldTogether`, `ProvidersAgree`, `RepeatIsBreadthFirst` |
| `indexer` | 2 documents, of one file name or of two, 2 workers, 3 loops, 2 extract calls, one stop, failures, a crash; in other behaviours 8 cases of corrections and up to three overlapping commands; 131 601 states | `RecordedOutputsExist`, `ExtractedIsComplete`, `SerialRecordsStay`, `LockNotOrphaned`, `NotesStayWellFormed`, `GroupsAreWhole`, `ApprovedIsWritten`, `CallsEnd` |
| `resent_deletion` | 1 handle, 2 proposals to delete `HAS_A1B` | `DeleteAnswerIsFinal`, violated |
| `cache_fresh` | as `cache` | `FreshReadsAreSeenLater`, violated |
| `indexer_lost_record` | 1 document, 2 workers, no failure | `RecordsStay`, violated |
| `cosmos_no_vocabulary` | the plans for CosmosDB | `HasVocabulary`, violated |
| `cosmos_edges` | CosmosDB: a create, a delete, an import of two entities, a relationship; no failure | `EdgeBatchesNeedNoGuard`, violated |

What each property says, and of which code, is the comment above it.

**Bounds.** *Engine.* Three proposals are an add or delete that fails half-way, one
that interferes with it, and a third that meets what they left; four are the three
rivals a call must lose to, plus itself. One writer suffices because items do not
interact, and one initial item because a batch takes any part of the data. *Cache.* Two
saves let a read miss one and see the next; with a TTL of one tick and one tick of time
an entry can live, expire and be judged at the boundary. *Memory.* Two batches of two
that want one label need four ids and two suffixes; one retry is enough to use the last
one up; a page of one makes `reembedAll` turn a page between any two entities. One plan's archive
claims the slug of a stored entity, one re-embedding has a threshold of one failure, and one
runs beside an update that gives a type and nothing else. `Ids` bounds
the ids that are generated; no plan here needs more of them than six.
*Providers.* A delete, the create that follows it, and a third call that one of them must
not harm; two writers of one id, and a deletion of it; a type deleted while items are
deleted and added. Batches of one put every other request between two batches, and three
entities make a cursor turn; with `EdgeCap` 2 a batch is at the cap and below it. With
one fault any single request fails, is sent again, or is done by half; an import gets two,
for a chunk that is sent again and then row by row. Its chunks repeat an entity, miss
the end of a relationship, or hold a row that the store refuses, and `PoolSize` 2 lets
two of three run at a time. In CosmosDB two throttles at the lowest level stop an import
(`MaxThrottlesAtMin` 2) and one row without a throttle raises the level, two where it has
been too high, so that an import of three rows lowers it, raises it and is stopped. Plans without a fault are there for their interleavings. *Graphs.* Eight relationships
contain paths of one, two and three steps, parallel and opposed relationships, a loop,
and one that a filter hides; `RelationshipIds` are taken in every subset. The request
limit of the fallback is one that some of the traversals meet. *Indexer.* Two workers on
one document and one on each, two documents of one name, one loop more than workers, a stop and a second call that
overlap the first or follow it.

**Store comparison.** `entity_types` runs against a store that compares names
loosely although the shipped providers compare exactly (`exactTypeMatch` in the SQL
Server provider): the engine's guard `declaresNearMatch` is written for any
`StorageProvider`, and only a loose one can show that it is needed.

**Fairness.** `EveryCallIsAnswered` assumes weak fairness of `Proceed(c)`, the steps
of a call that are not failures: a promise the engine awaits settles, and the call
then goes on by itself. Nothing is assumed about failures, proposals, configuration
changes or writes. Termination rests on the attempt bound and on each retry reading
again; a retry that judged the old vocabulary would spin (the mutant of this property).
`CallsEnd` of `providers` assumes it per client and of its requests only, never of a
failure: a drain meets an end although creates, writes and other deletes go on beside
it, because it stands down before a new marker (CosmosDB) or because a repository that
still has a vocabulary cannot be made anew (Neo4j). `CallsEnd` of `indexer` assumes it of the system's steps without
crashes: a loop that finds its queue empty ends, and each failure moves a document to a
worker it has not been assigned to.

**Deadlock** is checked in the engine's and the cache's runs, where a handle can always
be opened again and the cache's calls can always start a read, and in `graph_search`,
where an answered question is let stand (`Finished`) and every other must go on.
Clients of `memory` and `providers` and the
commands of `indexer` make one call each, after which the system really stops:
`CHECK_DEADLOCK FALSE`, and `CallsEnd` says of the latter two that no call is stuck.

**Mutants.** Every property of a passing run has a mutant in `PROJECT.json`: an
operator kept beside the definition it replaces, named for the slip it stands for (a
retry that does not read again, a cache fill that ignores invalidations, a probe that is
left out, an index entry that is not moved, a layer that forgets the ones before), under
which TLC finds the property violated.

### What the violated runs show

* `DeleteAnswerIsFinal` on relationship types. A resent deletion is said to
  complete the data step (`VocabularyEngine.ts:217`). `toScreamingSnakeCase` is not
  idempotent: while `HAS_A1B` is declared, a proposal for it finds it; once it is
  not, the same proposal means `HAS_A1_B`, and answers "not found" with the data of
  `HAS_A1B` still stored.
* `FreshReadsAreSeenLater`. "The fresh result replaces the cache entry so later
  cached reads see it too" (`SqlServerStorageProvider.ts:1041`; likewise in the
  other providers). An older read that returns later replaces it again. The older
  entry still expires within a TTL of its read, so `BoundedStaleness` holds.
* `RecordsStay`. `StateManager.ts:112` says that `recordExtractionComplete` is atomic
  and re-reads the list "to avoid race conditions when multiple workers finish
  concurrently". Its read and its write are two awaits: a worker that has read the list
  to mark the document, before the other one's record is written, erases that record,
  and the document is extracted again. `SerialRecordsStay` holds: a record is lost only
  if two changes of the list overlapped.
* `HasVocabulary`. `StorageProvider.ts:170` promises a vocabulary "from the moment it
  exists". A delete that finds no marker between the two writes of a create takes the
  new vocabulary for what an interrupted delete left and drops it; the create then
  writes its marker. `LiveHasVocabulary` is the same property for every repository to
  which that did not happen.
* `EdgeBatchesNeedNoGuard`. `queries/repository.ts:452` says of the drain of a CosmosDB
  partition that "edge batches need no guard: they run while the old repository's
  vertices still occupy the partition, so no re-create can have started". The vertex that
  a delete finds may be the vocabulary of a create that is under way. The create goes on,
  entities and a relationship are stored in its repository, and the delete's next batch of
  relationships takes that one away; its batches of vertices would have stood down.
  `LiveKeepsItsData` is the same property for what the batches of vertices guard.

### Divergences seen while modelling, without a run of their own

*Traversal.* The in-memory and SQL Server providers' exploration ignores
`offsetPerType`, and SQL Server lists an entity under one relationship type only. Its
README says "Returns all paths up to the configured limit"; pruning drops a path through
an entity that was met at a smaller depth. The compiled path query inspects a pool of
ten times the limit, and matching paths beyond it are not seen. `findPaths` filters the
endpoints by `entityTypes`, which every provider exempts. Cypher's relationship filter
on a variable-length repetition reads a key of a list. A fallback traversal that starts
from a type and has steps takes only `limit` start entities, though `limit` is said to
apply to the final result set. Neo4j's `all` mode may say that nothing follows although
rows remain; CosmosDB says that something follows at an exact page boundary. A
repetition with `until` loses a matching entity in `terminal` mode while others go on,
and in `all` mode without intermediates omits the terminal ones. Both compilers ignore
`bidirectional`. An `all` mode filter prunes deeper steps in the fallback and not in
CosmosDB. Path mode of the fallback does not prevent cycles.

*Corrections.* The entry of a correction is the first whose path *contains* the source's
name, and may be another document's. A deletion takes edges by the exact label while
endpoints resolve by case and alias, so that edges can be left dangling. A chain of
retargets applied twice loses an edge although a second application is said to change
nothing. Two commands that overlap share one temporary file and write old lists back;
the command takes no lock. A crash between the rename and the list leaves a group of
retargets that can never be approved. `validateFull` is described as resumable and
starts anew.

*Memory.* `StorageProvider.ts:277` says "An entity's slug is unique within its repository".
The in-memory `importBulk` (`InMemoryStorageProvider.ts:1002`) sets entity and slug index
without a look: an imported entity may have the slug of a stored one and takes the index with
it, and deleting either leaves the other one without a lookup. `ImplementsDirectory` holds of
every slug to which that did not happen. An update that changes only the type keeps the
vector of the old type's properties (`EntityManager.ts:294`); a re-embedding that an error
threshold ended returns as one that came through, and `MemoryRepository.reembedAll` then
records the new model (`ReembedReachesAll` claims nothing of it).

*Outputs.* Documents of different folders that have one name, or differ in the extension
only, share one output file per worker (`StateManager.ts:855`): the later extraction replaces
the earlier one, and both entries of the list name the file. An output whose rewriting a
crash cut short does not parse, and its readers take it for absent (`readJsonFile`), while
the list goes on calling the document extracted.

*Engine.* `docs/architecture.md:113` says of `locked` "vocabulary cannot change". A handle
keeps the configuration stored when it was opened (`DeepMemory.ts:291`), so locking a
repository does not reach open handles.

*Providers.* SQL Server's create inserts the repository and then its vocabulary: a failure
between the two leaves a repository that every read of the vocabulary refuses, and a
create that stalls there, while its repository is deleted and made anew, may put its
vocabulary under the new one, whose own create then fails. The drains of a Neo4j deletion
look for no marker: of two deletions that overlap, the slower may drain a repository made
anew when the faster had ended, and a deletion that began without a repository drains the
one that was made meanwhile (`BlindDelete`; four clients show both). Of two CosmosDB creates
of one id, one may have found the partition empty before the other's repository came and
went, and adopts what lands late of it; a create that was sent again may make its repository
a second time after a deletion (`MadeAgain`). A guarded batch of a CosmosDB deletion looks for
the marker and drops in one request that is no transaction, as `queries/repository.ts:450`
says: a re-create that lands inside it loses what that one batch takes, its vocabulary
included (`caught`, `swept`). A Neo4j deletion
whose first statement is sent again counts nothing the second time, and may answer "not
found" of a repository that it deleted. A Neo4j or CosmosDB import that meets a deletion
and a creation between two chunks goes on in the new repository. A CosmosDB upsert of an
entity that comes twice in a chunk may refuse the second as a duplicate, where one of a
relationship looks again. A save in flight across them is
stored in the new repository if the versions agree, on every provider.

*Deletion.* The "approved" of a resumed deletion may stand for data of a type declared
again after it read the vocabulary.

## 4. What is proved

39 theorems, for every value of the constants. Assumptions on constants are named in
the module that declares them, and TLC evaluates each in a run: `NamesAssumption` (the
relations on names have the right types; a name is similar to itself; a store is no
looser than `Fold`), `EngineAssumption` (types of the parameters; an initial
vocabulary's definitions carry its version), `CacheAssumption`, the store's,
`QuestionAssumption` (questions are typed; a store has one relationship under an id), `RepositoryAssumption` (requests have the types that TypeScript declares for them;
entities found at the start have slugs that name them), `LifeAssumption` and `GraphAssumption` of the providers, and
`CasesAssumption` (files and proposed corrections have the types that TypeScript declares,
and proposals have ids of their own and are not yet approved).

`VocabularyEngine_proofs`:

* `TypeCorrect`: `Spec => []TypeOK`.
* `NewVersionAdvances`: an approved proposal moves the version strictly forward, so
  the check of `VocabularyEngine.ts:304` never fires.
* `VersionsIdentify`: `VersionIdentifiesVocabulary` is inductive together with the
  types. Compare-and-set compares *versions*, so it protects the vocabulary only if
  no two vocabularies share one. A write leaves every reader with an older version
  (`WritesOutdateEveryRead`), and nothing else moves the store.
* `EngineImplementsRegister`: `Spec => ImplementsRegister`. Only `Save` and
  `SaveUnacknowledged` change the vocabulary or the log
  (`OnlyWritesChangeTheStore`); by the invariant the vocabulary a passing write
  replaces is the very one its proposal was judged against
  (`WritesReplaceWhatTheyRead`), so the step is the register's `Change`. Every other
  step is a stutter.
* `ChangeLogIsTheHistory`: `Spec => []VersionChain`, from the same two facts. It has no
  run of its own: TLC checks that the log and the store change together as
  `ImplementsRegister`.

Of whole calls, in the same module:

* `ConflictsMeanContention`: a conflict is answered only after `rivals` reached the
  number of attempts. Inductive with a lemma per attempt: a save that finds another
  version was overtaken since its read (`LosesAreOvertaken`).
* `DuplicatesAreNeverStored`: `NoDuplicateTypes`, by the invariant that every
  definition is dated and no two similar ones stand. **Premises** on the constants:
  every configuration has deduplication on, and similarity is closed under the
  conversion of relationship names. The code enforces neither: deduplication can be
  switched off, and a similarity over embeddings need not be closed.
* `StandingDataIsKept`: no step deletes data of a declared type unless it was declared
  anew after the deletion saw it gone. By the invariant (`KeysDistinct`, `CallsSpare`) a
  type that a data step can hit is newer than the version the deletion started from.
  **Premises**: deduplication is on and tells a proposed name from every declared one
  that the store takes for it, and no two initial types look the same to the store.
  With deduplication off, nothing in the code separates two such names.
* `OrphansAreAccountedFor`: data of an undeclared type belongs to a deletion in
  progress or interrupted, or to a write validated before it. The invariant
  (`Accounted`) follows each item from the step that left its type undeclared.
* `ApprovalsAreLogged`: `ApprovedIsLogged`, from `LogIsPast`, `DataIsExplained` and
  `CallsAnswer`: the log never runs ahead of the store, and every call in its data step
  stands on a record in it.

The last two have no premises: deduplication may be off, and any two names may be similar.
Then a type may be declared twice under one name; the look-ups meet the first definition,
and a deletion removes them all. `NamesHaveFirsts` says that a declared name has a first
definition, because an approved proposal dates its definition by the version it makes
(`ApprovalsDate`); so no step but a deletion of a name undeclares it
(`OnlyItsDeletionUndeclares`).

`VocabularyCache_proofs`:

* `TypeCorrect`.
* `OwnWritesAreRead`: `Spec => []ReadYourWrites`. The property is not inductive: a
  read in flight may yet store an old vocabulary. The invariant adds that an
  answered read *whose generation is current* is as new as every save its process
  was told of (`AnswersAreNew`), and that nobody was told of a write that has not
  landed (`Landed`).
* `StalenessIsBounded`: `Spec => []BoundedStaleness`. The invariant says that a
  read in flight began no later than its answer was replaced (`ReadsBeganInTime`),
  which holds only because `readAt` is taken before the request.

`MemoryRepository_proofs`, for any clients, requests, archives, page sizes, retries and
failures. First the store by itself:

* `StoreTypeCorrect`, `NoRelationshipDangles` and `StoreImplementsDirectory`: the slug index
  leads from the slug of every stored entity to that entity, so two cannot share one, but
  for the slugs that an import has doubled (`StoreInv`). Every operation of the maps is one
  of the directory's.

Then the calls over it, those of the importer included (`ImportSpec`). Two ideas carry all
of these proofs. `Shaped` says of each kind of call where it may stand and what its record
holds there (`CreateShaped`: as many members stored as precede the current one;
`UpdateShaped`: a slug to write exactly if it renames what it read; `ImportShaped`); one lemma
per action shows that it is kept. And `Writes` classifies what a step may do to the entities,
in six ways (`StepWrites`), so that what follows argues about these and not about the
twenty-three actions.

* `CallsLeaveNothingDangling` and `CallsImplementDirectory`: `NoDanglingRelationship` and
  `ImplementsDirectory` under calls that race, refuse and retry.
* `BatchReportsTruth`: `ReportIsTruth`, from `CreateShaped`.
* `SlugsNameEntities`: `SlugNamesEntity`. Not inductive: an update writes a slug made of the
  type and label it *read*. The invariant (`NamesInv`) adds `ReadIsStored`, that what an
  update has read is what is stored unless its entity is contended or imported, and
  `ContentionNoted`, that two calls that work on one entity are in `contended`, which is why
  nobody else can have written it meanwhile (`OthersKeepIt`).
* `IndexFollowsEntities`: `IndexAgrees`. The invariant (`IndexInv`): a document that waits in
  a call's queue is the entity's current text, and an entity in no queue has its document.
  Every write puts its entity in the queue of its call, or in `unheard` (`WriteIsTold`).
* `ReembedReachesEveryEntity`: `ReembedReachesAll`, of a re-embedding that comes through all
  its pages. While nothing is deleted the order of the entity map only grows (`OrderInv`, `OrderGrows`), so the entities counted are a fixed prefix
  of it. Of this prefix, what is before the offset is `Settled`: right, excepted
  (an entity to which an update gave a type and nothing else is), or among
  the vectors still to write, which are right themselves (`VectorsToWrite`). And no update
  that works alone spoils a right vector (`VectorInv`: it carries the embedding of what it
  makes of what it read).
* `LoneMergesComplete`: `LoneMergeCompletes`. The invariant (`MergingAlone`): rows gone by are
  accounted for, and what was looked up for the current row still holds, as nothing else runs.

`Indexer_proofs`, first for any documents, workers, loops, calls, stops and scenarios, and any
number of failures and crashes. `IndexerAssumption` was extended for them: there are finitely
many documents, the actor that a call itself is differs from its loops, and no stop is a call.

* `IndexerTypes`: by `TypeInv`, which adds to the types where each actor may stand
  (`Staged`: an actor holds a copy of the list exactly while it changes it) and that a
  call that reassigns knows to whom every document was assigned.
* `OutputsExist`: `Spec => []RecordedOutputsExist`. The list on disk says too little: a
  worker that has read the list will write its copy over it. The invariant (`Backed`)
  says the same of every list that is *held*, on disk or in the copy of an actor, and of
  the records that are about to be made; each step of the list writes one that was held, or
  one that `Update` makes of such (`UpdateKeeps`, `ListStepRecords`). And a file that
  has been written once `Stands`: each rewriting that truncates it lands, dies or overlaps
  another.
* `CompleteWhenExtracted`: `Spec => []ExtractedIsComplete`, by the same argument
  (`Complete`), whatever overlaps: `Update` gives the status "extracted" only with all
  outputs, and no update takes an output from an entry.
* `SerialChangesKeepRecords`: `Spec => []SerialRecordsStay`. By the invariant (`Serial`)
  while no two changes have overlapped at most one actor holds a copy, and everything
  recorded is in it and in the file.
* `LockIsReleased`: `Spec => []LockNotOrphaned`. A lock in the name of the process that
  runs is held by a call at a step from which it still comes to unlock (`LockHeld`),
  although calls do not check that the lock that they remove is their own.

The same module, of corrections, for any files, lists, commands and numbers of failures:

* `CorrectionsKeepFilesInOrder`: `ApplySpec => []NotesStayWellFormed`. One correction never makes
  a file worse (`ApplyOneIsBetter`, a lemma per operation: the cascade of a deletion, the
  look-ups of a creation, the edge that a move would double). A pass is a loop over the list
  with a loop inside for each group, so `PassIs` is by induction over both, from
  `DataInduction`. The invariant (`ApplyTyped`) then says that *every* content there is - in
  a file, in the temporary copy, in the memory of a command - is no worse than the file at
  the start, whichever command wrote it and whatever it wrote over; and (`Alone`) that while
  commands do not overlap, the temporary file that one renames is the one it wrote.
* `ApprovedCorrectionsWereWritten`: `ApplySpec => []ApprovedIsWritten`. The invariant (`Counted`):
  what the stored list or a command's copy marks approved was carried out in what is stored,
  and the changes in memory come on top of what is stored (`Accounts`). Both need that
  commands do not overlap: `crossed` marks behaviours in which they did.

`DataInduction`: `Induction` over the numbers, `RecursionExists` for a function defined from
its value before, and the lemma `FoldLeftKeeps` for a loop over a list. The library's
induction theorems take the predicate as a parameter, which the installed provers cannot
instantiate. Here the predicate and the loop's body are constants of a module, which a proof
instantiates with `INSTANCE ... WITH`; the two theorems rest on the well-foundedness of the
proper subsets of finite sets, and on the recursive function behind `FoldLeft`, which
`IterationExists` shows to exist.

`StorageProviders_proofs`, for any clients, requests, repositories and sizes of batches, and
any number of failures, each on all three providers:

* `MissingReported`, `EventsInOrder` and `SaveTellsTruth`: `MissingIsReported`,
  `DeleteEventsInOrder` and `SaveIsTruth`. They share an invariant (`Base`), of three kinds.
  `Local` says of each call what it knows where it stands: the points its operation can come
  to, that it has met a marker once it is past its look for one (`Looked`, `ImportFits`), how
  far its events have come (`EventsFit`), and what a save has stored on its way to each
  answer (`SaveFits`). `Owned` says who wrote a stored vocabulary, so that a save
  that finds its own version and name has stored it; `Rooted`, for SQL Server's keys, that
  there are no rows without a repository. One lemma per operation and provider shows that
  a call's own steps keep `Local` (`CosmosDeletesGood`, `Neo4jChunksGood`, ...), and one
  per provider that the steps of others cannot take it away (`StepIs`).
* `VocabularyLivesAsLong`: `LiveHasVocabulary`. The invariant (`Kept`) is a different one for
  each provider: for CosmosDB a repository *has its own* vocabulary, and a creation between
  its two writes does so as well, unless it was swept between these or by a batch that had
  looked for the marker before it was written; for Neo4j marker and vocabulary come in
  one statement, and the vocabulary goes only without a marker; for SQL Server the creation
  that wrote the marker has answered only with a vocabulary under it.

`RepositoryData_proofs`, which goes on from there:

* `NothingOutlivesItsRepository`: `NothingOutlives`. First, where things come from
  (`WellMade`): whatever carries the name of a repository - a marker, data, what a deletion
  found, what a request of CosmosDB met - was written under a marker that was there
  (`Sources`), and the data form a graph, so that a partition without vertices is empty. Then
  four facts that need each other (`Owns`). `DroppedForGood`: once a deletion has dropped the
  marker, no repository that it found when it began has one again, because a creation writes
  its marker once unless it was sent again. `Drained`: a deletion that stands where only an
  empty partition leads, or that stood down, leaves nothing that it found; standing down is
  right because a new marker is, by `DroppedForGood`, another repository's and, by
  `CosmosOwns`, so are the data. `CosmosOwns`: a creation that has found the partition empty
  has it to itself until it answers. `Neo4jOwns`: without a marker and a vocabulary there are
  no data, for the vocabulary goes last. The two exceptions in `NothingOutlives` are where the
  facts fail: several creations in CosmosDB, of which one has looked before another's
  repository came and went, and several deletions in Neo4j, of which one, left at its last
  statement, takes the vocabulary of a later repository whose marker the other has dropped and
  whose data it has yet to drain. `GraphAssumption` (the initial data are a graph,
  relationships are asked for with ends, chunks are not empty) is what the stores and the
  providers' checks ensure.
* `LiveDataStay`: `LiveKeepsItsData`. The invariant (`Lasts`) says what a call that answered
  `created` has stored (`Held`) and, for each provider, why a deletion under way cannot take
  it. CosmosDB's batches of vertices look for a marker before they drain (`LooksBehind`: a call
  stands at a batch only if there was none), and what one takes after a marker was written
  is in `caught`; its batches of relationships
  do not look, but until they are done the vocabulary of what the deletion found is still
  there, so that no creation writes a marker that the deletion has not found
  (`CosmosWaits`), and what it found has by then, by `DroppedForGood`, no marker. Neo4j's
  drains are in the way of a creation for as long as the vocabulary is there, which the last
  statement takes (`Neo4jWaits`); SQL Server's deletion is one statement. In Neo4j an answer
  may rest on an item found under the call's own token: `Signed` says that only that call
  stores under it. The exceptions in `LiveKeepsItsData` are where this fails: a deletion that
  found nothing has no vocabulary to wait behind, and of two that overlap one may take the
  vocabulary while the other drains.

`GraphTraversal_proofs`, for any graph, question and options, on all four providers:

* `LayersHoldDistances`: `Spec => []LayersAreDistances`. What n steps lead to is a recursive
  function, which `RecursionExists` gives (`ReachIs`); the sets at a distance n but no less
  are then one step from those at n - 1 (`NearestIs`), and empty from the first that is
  (`NothingBeyond`), where the loops stop. The invariant (`Exploring`) says that the frontier
  is the set at the distance of the round, the visited the union of those before, and each
  layer the rows from one to the next. A compiled query returns the relationships of whole
  trails, of exactly so many steps in Neo4j, and the client keeps those that lead on from the
  frontier. None is missing: to each entity of the frontier there is a trail through nearer
  and nearer entities (`NearestHasTrail`), which cannot have used the relationship that leads
  on to a farther one.
* `FindPathsIsSound`: `Spec => []PathsAreReal`. In the breadth-first providers, what is in the
  queue is the beginning of a path within the options (`Partial`); in the compiled ones, a
  row the client keeps is a trail (`TrailShape`) that is simple and fits.
* `FindPathsIsComplete`: `Spec => []SearchIsComplete`. Pruning by the length at which an
  entity was last queued is right because `seenAt` never understates (`Noticed`): an entity
  is reached by that many steps a path can make, and on a shortest path it is reached by no
  fewer (`ShortestIs`, from a path at each distance, `TargetHasPath`). So the row by which a
  shortest path goes on is never passed over (`RowTaken`), and the path is found, or a
  beginning of it is pending or in hand with its row to come (`NoneLost`). That it is found
  once (`OnceEach`) needs, in SQL Server, that what reads a row twice never uses it
  twice: both its ends are then in the level, and the pruning rejects it (`InLevels`,
  `MadeAnew`). Paths come in order of length as the queue is (`InOrder`), so a full page that
  leaves a shortest path pending has none but shortest ones. For the compiled query, the
  rows that match are the paths (`MatchingAre`), and the page has them all when the pool
  was not smaller than the rows (`PoolIsRead`, by counting).

`TypeOK` of the engine, the cache, the store and the indexer is proved and not run. Those of
`MemoryRepository` and `RepositoryLife` are there for the reader; they hold as additional
invariants of their runs.

**Model-checked only.** Liveness (`EveryCallIsAnswered`, both `CallsEnd`) is beyond the
prover. `DeleteAnswerIsFinal` is false in general, as `resent_deletion` shows. Of the
graph modules, the properties of traversals (`PagesHoldTogether`, `ProvidersAgree` and
`RepeatIsBreadthFirst`) stay with TLC, and so does the providers' `AnswersAreTruth`. Of the
corrections, `GroupsAreWhole` stays there as well: it is not so for every list, as a
group whose members contradict one another (a creation and a deletion of the same label)
succeeds without a trace of its first member.

## 5. Not modelled, and why

* *Engine.* A repository deleted and re-created during a call. The edges that go with a
  deleted entity: `NoStandingDataLost` speaks of an item's own type, and an edge of a
  standing type is rightly deleted with its endpoint. Configurations without
  deduplication are allowed by the model and enabled in no run. Events and
  `validation:failed`, usage tracking, descriptions and property schemas.
* *Providers.* Updates of entities and repositories, slugs, deletion of relationships by
  id, exports, and the set-up and migration of schemas, in all three; in Neo4j
  an upsert that repeats the id of a relationship. A deletion by ids or by type in
  CosmosDB that is guarded by the marker is one step: it takes what it was asked to take,
  whichever repository has the id by then; a transaction of SQL Server that holds the repository's
  row is one step, and a deadlock's victim is a request that fails.
* *Graphs.* The text of the compiled queries; per-type pages and the limit of 10 000 rows
  of an exploration; projections, aggregations and relationship summaries; results that
  are not deduplicated; repetition in compiled queries, where what a database makes of
  `until` beside `times` is its own; a graph that changes between two pages.
* *Indexer.* Analysis, conversion and its checkpoints, consolidation, cost accounting;
  the batches in which a model validates an extraction, and its review reports: they
  decide what is proposed, and the model takes any list of proposals.
* *Memory.* The search providers' ranking; `RepositoryExporter` and the readers of its
  format; provenance beyond the author of a change.
* Pure functions whose tests enumerate their cases (vocabulary validation and diff,
  property validation), clients of external services (embeddings, LLM adapters, MCP
  servers), the graph viewer, scripts and starter kits.

## 6. Plan

1. Updates of entities, and slugs, in `RepositoryLife`.
2. `FullValidationOrchestrator`'s worker pool; consolidation.
3. `RepositoryExporter` with `RepositoryImporter`: a chunk stream that fails part-way.
4. Proofs of `AnswersAreTruth`, for the providers, and of the properties of traversals.

## 7. Running

```
tlc -workers 2 -config VocabularyEngine_entity.cfg MCVocabularyEngine.tla
tlc -workers 2 -config VocabularyEngine_contended.cfg MCVocabularyEngine.tla
tlc -workers 2 -config VocabularyCache.cfg MCVocabularyCache.tla
tlc -workers 2 -config MemoryRepository.cfg MCMemoryRepository.tla
tlc -workers 2 -config StorageProviders.cfg MCStorageProviders.tla
tlc -workers 2 -config GraphTraversal.cfg MCGraphTraversal.tla
tlc -workers 2 -config Indexer.cfg MCIndexer.tla

tlapm VocabularyEngine_proofs.tla        # and the other _proofs modules
```

The violated ones: `VocabularyEngine_resend.cfg`, `VocabularyCache_fresh.cfg`,
`IndexerState_lost.cfg` (of `MCIndexerState.tla`), and `StorageProviders_vocabulary.cfg` and
`StorageProviders_edges.cfg` (of `MCStorageProviders.tla`). Each run takes at most a few minutes.
