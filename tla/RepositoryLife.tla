---------------------------- MODULE RepositoryLife ----------------------------
(***************************************************************************)
(* What the storage providers have in common in the life of a repository:   *)
(* the state they keep, the calls that are made on it, DeepMemory's events  *)
(* around a deletion, and what is promised to the caller.  CosmosRepository, *)
(* Neo4jRepository with Neo4jImporter, and SqlServerRepository give each    *)
(* provider's requests, StorageProviders puts them together.                *)
(*                                                                          *)
(* A repository is a marker (a vertex, a node or a row), a vocabulary, and  *)
(* its data: entities, relationships, change records, and what native       *)
(* queries have put in.                                                     *)
(***************************************************************************)
EXTENDS Naturals, SequencesExt

CONSTANTS
  Repositories,
  Clients,      \* one call each; a repository is named after the call that made it
  Order,        \* the ids of entities, as the stores sort them
  Plans,        \* what may be asked for, see the assumption
  BatchSize,    \* what one request of a drain deletes
  EdgeCap,      \* the relationships that one statement of Neo4j takes
  PoolSize      \* the chunks of an import that are under way at a time

None == "none"

First == "first"    \* made the repository that the run starts with

Operations == {"create", "delete", "clear", "entity", "edge", "remove", "erase", "purge", "cut",
               "save", "import"}

ASSUME LifeAssumption ==
  /\ {None, First} \cap Clients = {}
  /\ {BatchSize, EdgeCap, PoolSize} \subseteq Nat \ {0}
  /\ IsInjective(Order)
  /\ \A plan \in Plans :
       /\ plan.provider \in {"cosmosdb", "neo4j", "sqlserver"}
       /\ DOMAIN plan.asked \subseteq Clients
       /\ \A c \in DOMAIN plan.asked : /\ plan.asked[c].op \in Operations
                                       /\ plan.asked[c].repository \in Repositories
       /\ \A d \in plan.data : d.of = First /\ d.by[1] = First
       /\ plan.faults \in Nat   \* bound on failures and repetitions

VARIABLES
  provider,     \* the store
  marker,       \* which repository an id stands for, None without a marker
  vocabulary,   \* the stored vocabulary, in a set of at most one
  data,         \* entities, relationships, change records and other things, by repository
  index,        \* CosmosDB: the ids that the index vertex lists
  request,      \* what each client asks for
  call,         \* what its call keeps
  faults,       \* failures still to come
  alive,        \* history: calls during which their repository had a marker
  late,         \* history: data that landed after its repository's marker had gone
  swept         \* history: creates that lost their vocabulary before their marker was written,
                \* or to a batch that had looked for it before

store == <<marker, vocabulary, data, index>>

history == <<alive, late, swept>>

vars == <<provider, store, request, call, faults, history>>

-----------------------------------------------------------------------------
Op(c) == IF c \in DOMAIN request THEN request[c].op ELSE None

Repo(c) == request[c].repository

NoCall == [
  pc       |-> "idle",
  reply    |-> None,
  gate     |-> None,   \* the repository that the request found
  seen     |-> {},     \* the index, the ids of a batch, or the vocabulary as it was read
  todo     |-> {},     \* ids still to delete
  empties  |-> 0,      \* batches in a row that deleted nothing
  after    |-> 0,      \* where the cursor of a drain stands in Order
  raw      |-> FALSE,  \* delete: something was deleted
  version  |-> 0,      \* save: the version that it expects
  events   |-> <<>>,   \* delete: the events so far
  chunks   |-> <<>>,   \* import: what became of each chunk
  control  |-> None,   \* import: the controller of its pool (CosmosDB)
  stopped  |-> None,   \* import: why it stopped
  told     |-> {},     \* what the answer says was written or deleted
  stood    |-> {},     \* history, delete: the repositories it found data of when it began
  wrote    |-> {},     \* history: what its requests wrote
  took     |-> {},     \* history: the ids that its requests deleted
  caught   |-> {},     \* history, delete: what its batches took of a repository whose marker
                       \* was written after they had looked for one (CosmosDB)
  resent   |-> FALSE,  \* history: a request of the call was repeated
  stored   |-> FALSE,  \* history, save: its vocabulary was stored
  recorded |-> FALSE]  \* history, save: ... and its change record, all of it

Running(c) == call[c].pc \notin {"idle", "done"}

Becomes(c, cl) == call' = [call EXCEPT ![c] = cl]

Goes(c, pc) == [call[c] EXCEPT !.pc = pc]

Replies(c, reply) == [call[c] EXCEPT !.pc = "done", !.reply = reply]

\* The reply to a call whose repository has no marker.
Missing(c) == Replies(c, "missing")

Fault == faults > 0 /\ faults' = faults - 1

\* A driver that sends again: the request is answered, or sent again from where it
\* started although it had its effect.
Submitted(c, cl, pc) ==
  \/ Becomes(c, cl) /\ UNCHANGED faults
  \/ Fault /\ Becomes(c, [Goes(c, pc) EXCEPT !.resent = TRUE, !.stored = cl.stored,
                            !.recorded = cl.recorded, !.wrote = cl.wrote, !.took = cl.took,
                            !.caught = cl.caught])

\* A driver that does not: the request is answered, or fails although it had its effect.
Answered(c, cl) ==
  \/ Becomes(c, cl) /\ UNCHANGED faults
  \/ Fault /\ Becomes(c, [Replies(c, "failed") EXCEPT !.stored = cl.stored, !.recorded = cl.recorded])

-----------------------------------------------------------------------------
\* by: which write of which call stored it, what the stores keep as a write token.
Token(c, chunk, row) == <<c, chunk, row>>

Item(id, kind, of, ends, by) == [id |-> id, kind |-> kind, of |-> of, ends |-> ends, by |-> by]

Vertices(r) == {d \in data[r] : d.kind # "edge"}
Entities(r) == {d \in data[r] : d.kind = "entity"}
Edges(r)    == {d \in data[r] : d.kind = "edge"}

IdsOf(items) == {d.id : d \in items}

Linked(r, ids) == {d \in Edges(r) : ToSet(d.ends) \cap ids # {}}

\* Relationships have ends, which are entities that are there.
IsGraph(items) ==
  \A d \in items : d.kind = "edge" =>
    ToSet(d.ends) # {} /\ ToSet(d.ends) \subseteq IdsOf({e \in items : e.kind = "entity"})

\* Rows come in chunks that are not empty, those of entities apart from those of edges.
IsChunk(rows) ==
  /\ DOMAIN rows = 1..Len(rows) /\ Len(rows) \in Nat \ {0}
  /\ \E kind \in {"entity", "edge"} : \A j \in DOMAIN rows :
       rows[j].kind = kind /\ (kind = "edge" => ToSet(rows[j].ends) # {})

IsAskedWell(asked) ==
  /\ asked.op = "entity" => ToSet(asked.ends) = {}
  /\ asked.op = "edge" => ToSet(asked.ends) # {}
  /\ asked.op = "import" => /\ DOMAIN asked.chunks \subseteq Nat \ {0}
                            /\ \A k \in DOMAIN asked.chunks : IsChunk(asked.chunks[k])

ASSUME GraphAssumption ==
  \A plan \in Plans : IsGraph(plan.data) /\ \A c \in DOMAIN plan.asked : IsAskedWell(plan.asked[c])

\* Entities go with their edges.
Without(r, gone) == (data[r] \ gone) \ Linked(r, IdsOf({d \in gone : d.kind = "entity"}))

Some(n, items) == kSubset(IF Cardinality(items) < n THEN Cardinality(items) ELSE n, items)

Batches(items) == Some(BatchSize, items)

ChangesData(r, items) == data' = [data EXCEPT ![r] = items]

\* A call adds one entity or relationship: its only row.
Row == <<0, 0>>

NewItem(c, of) == Item(request[c].id, Op(c), of, request[c].ends, Token(c, 0, 0))

Endpoints(c) == ToSet(request[c].ends)

Created(c, of) == [Replies(c, "created") EXCEPT !.gate = of, !.told = {Row}, !.wrote = {Row}]

\* An import comes in chunks of rows, those of entities first.  For Neo4j and SQL Server the
\* ids of its relationships differ; an entity may come twice; the store takes no bad row.
RowsOf(c, k) == {<<k, j>> : j \in DOMAIN request[c].chunks[k]}
Rows(c) == UNION {RowsOf(c, k) : k \in DOMAIN request[c].chunks}

RowOf(c, row) == request[c].chunks[row[1]][row[2]]

StoredUnder(c, row) == {d \in data[Repo(c)] : d.id = RowOf(c, row).id}

ChangeRecord(c, kind, of) == Item(c, kind, of, <<>>, Token(c, 0, 0))

-----------------------------------------------------------------------------
\* DeepMemory.deleteRepository: the event goes out when there is a record, or else
\* with the first progress report, or before the completion.
StartsAgain(cl) == Append(cl.events, "started")
Starts(cl) == IF "started" \in ToSet(cl.events) THEN cl.events ELSE Append(cl.events, "started")
Progressed(cl) == IF Last(Starts(cl)) = "progress" THEN Starts(cl) ELSE Append(Starts(cl), "progress")
Completed(cl) == [cl EXCEPT !.pc = "done", !.reply = "deleted", !.events = Append(Starts(cl), "completed")]

Standing(r) == ({marker[r]} \ {None}) \cup {d.of : d \in data[r]}

BeginDelete(c) ==
  LET r == Repo(c) IN
  /\ Op(c) = "delete" /\ call[c].pc = "idle"
  /\ Becomes(c, [Goes(c, "drop") EXCEPT !.stood = Standing(r),
                   !.events = IF marker[r] # None THEN <<"started">> ELSE <<>>])
  /\ UNCHANGED <<store, faults, late, swept>>

\* A save begins with a read; CosmosDB and Neo4j take a vocabulary that is not there for
\* the empty one.
ReadVersion(c) ==
  LET r == Repo(c) IN
  /\ Op(c) = "save" /\ call[c].pc = "idle"
  /\ \/ /\ marker[r] = None
        /\ Becomes(c, Missing(c))
     \/ /\ marker[r] # None
        /\ \E v \in vocabulary[r] : Becomes(c, [Goes(c, "match") EXCEPT !.version = v.version])
     \/ /\ marker[r] # None /\ vocabulary[r] = {}
        /\ Becomes(c, IF provider = "sqlserver" THEN Replies(c, "failed") ELSE Goes(c, "match"))
  /\ UNCHANGED <<store, faults, late, swept>>

\* A request fails for good, or the process dies.
Fails(c) ==
  /\ c \in DOMAIN request /\ call[c].pc # "done" /\ Fault
  /\ Becomes(c, Replies(c, "failed"))
  /\ UNCHANGED <<store, late, swept>>

Init ==
  /\ \E plan \in Plans :
       /\ provider = plan.provider
       /\ request = plan.asked
       /\ faults = plan.faults
       /\ marker = [r \in Repositories |-> IF r \in plan.live THEN First ELSE None]
       /\ data = [r \in Repositories |-> IF r \in plan.live THEN plan.data ELSE {}]
       /\ index = plan.live
  /\ vocabulary = [r \in Repositories |->
       IF marker[r] = None THEN {} ELSE {[of |-> First, by |-> First, version |-> 0]}]
  /\ call = [c \in Clients |-> NoCall]
  /\ alive = {} /\ late = {} /\ swept = {}

Observed ==
  /\ alive' = alive \cup {c \in DOMAIN request : /\ call[c].pc # "done" /\ call'[c].pc # "idle"
                                                 /\ {marker[Repo(c)], marker'[Repo(c)]} # {None}}
  /\ UNCHANGED <<provider, request>>

-----------------------------------------------------------------------------
Makers == Clients \cup {First}

TypeOK ==
  /\ marker \in [Repositories -> Makers \cup {None}]
  /\ \A r \in Repositories : /\ Cardinality(vocabulary[r]) <= 1
                             /\ \A v \in vocabulary[r] : {v.of, v.by} \subseteq Makers
                             /\ \A d, e \in data[r] : d.id = e.id => d = e
                             /\ \A d \in data[r] : d.of \in Makers
  /\ index \subseteq Repositories
  /\ \A c \in Clients : /\ call[c].stood \subseteq Makers
                        /\ call[c].after \in 0..Len(Order)
                        /\ Len(call[c].events) <= 3

\* "Every repository has exactly one stored vocabulary from the moment it exists"
\* (StorageProvider.createRepository).
HasVocabulary == \A r \in Repositories : marker[r] # None => vocabulary[r] # {}

\* SQL Server inserts the vocabulary after the repository, in a statement of its own.
Seeded(m) == provider = "sqlserver" /\ m \in Clients => call[m].reply = "created"

\* The same, for every repository whose vocabulary was not drained between the two
\* writes of its create, or by a batch inside which its marker was written (CosmosDB),
\* and whose create has answered (SQL Server): for the order of the writes of a create and
\* a delete, and the check before each batch (createRepository, deleteRepository).
LiveHasVocabulary ==
  \A r \in Repositories :
    marker[r] \notin swept \cup {None} /\ Seeded(marker[r]) => vocabulary[r] # {}

Several(op) == \E c, d \in DOMAIN request : c # d /\ {Op(c), Op(d)} = {op}

\* A delete that found nothing when it began, or one of several that overlap, may go on
\* draining when the repository is made, or when another has finished and it is made
\* anew: the drains of Neo4j look for no marker, nor do CosmosDB's batches of relationships.
BlindDelete ==
  Several("delete") \/ (\E d \in Clients : Op(d) = "delete" /\ call[d].pc # "idle" /\ call[d].stood = {})

\* A create that was sent again may have made its repository twice.
MadeAgain(m) == m \in Clients /\ call[m].resent

\* Nothing outlives its repository but what was being written when the marker went: a
\* delete that answers leaves nothing of what it found, even if it was interrupted and
\* run again, and a repository made anew under an id does not come with data of the one
\* before (createRepository's probe, deleteRepository's drain).  Only CosmosDB has no
\* lock that a write could take on the marker; and of several creates one may have found
\* the partition empty before another's repository came and went.
NothingOutlives ==
  /\ ~(provider = "cosmosdb" /\ Several("create")) =>
       /\ ~(provider = "neo4j" /\ Several("delete")) =>
            \A r \in Repositories : marker[r] # None => \A d \in data[r] : d.of = marker[r] \/ d \in late
       /\ \A c \in Clients : call[c].reply \in {"deleted", "not_found"} /\ Op(c) = "delete" =>
            \A d \in data[Repo(c)] : d.of \in call[c].stood => d \in late \/ MadeAgain(d.of)
  /\ late # {} => provider = "cosmosdb"

\* What a batch took although a re-create landed inside it.
Caught == UNION {call[c].caught : c \in Clients}

\* What a call stored in a repository that lives, with an answer, is in it unless a call
\* was made to remove it or the repository was made inside the batch that took it.
IsKept(c) ==
  /\ call[c].reply = "created" /\ Op(c) \in {"entity", "edge"}
  /\ marker[Repo(c)] = call[c].gate /\ call[c].gate # None /\ ~MadeAgain(call[c].gate)
  /\ \A d \in DOMAIN request : request[d].op \notin {"remove", "erase", "purge", "cut", "clear"}
  => NewItem(c, call[c].gate) \in data[Repo(c)] \cup Caught

\* A delete of an earlier repository with the id, still draining, takes nothing of what was
\* stored in the one that lives (deleteRepository's re-create guard), but for the batch of
\* vertices that the re-create landed in.
LiveKeepsItsData ==
  \A c \in Clients :
    \/ BlindDelete /\ (provider = "neo4j" \/ (provider = "cosmosdb" /\ Op(c) = "edge"))
    \/ IsKept(c)

\* "Edge batches need no guard: they run while the old repository's vertices still occupy
\* the partition, so no re-create can have started" (deleteRepository, CosmosDB).
EdgeBatchesNeedNoGuard == \A c \in Clients : provider = "cosmosdb" /\ Op(c) = "edge" => IsKept(c)

\* A call made after the marker has gone says so and leaves what the delete has yet to
\* drain alone: no other answer comes of a call that met no marker ("Deleted
\* repositories" in StorageProvider).
MissingIsReported ==
  \A c \in Clients : call[c].pc = "done" /\ Op(c) \notin {"create", "delete"} =>
    call[c].reply \in {"missing", "failed"} \/ c \in alive

\* A delete is announced once, before its progress and its completion, and completed
\* when it answers so; nothing is announced of a repository that did not exist
\* (DeepMemory.deleteRepository).
DeleteEventsInOrder ==
  \A c \in Clients : LET events == call[c].events IN Op(c) = "delete" =>
    /\ \A k \in DOMAIN events : events[k] = "started" <=> k = 1
    /\ \A k \in DOMAIN events : events[k] = "completed" => k = Len(events)
    /\ call[c].reply = "deleted" => Last(events) = "completed"
    /\ call[c].reply = "not_found" => events = <<>> \/ c \in alive

\* A save answers "saved" if and only if its vocabulary was stored and its change record
\* with it, whatever was repeated or overtaken; a save none of whose requests was
\* repeated and that answers with a conflict has stored nothing (saveVocabulary).
SaveIsTruth ==
  \A c \in Clients : Op(c) = "save" /\ call[c].pc = "done" =>
    /\ call[c].reply = "saved" => call[c].stored /\ call[c].recorded
    /\ call[c].reply \in {"conflict", "missing"} /\ ~call[c].resent => ~call[c].stored

IdToldOf(c, row) == IF row = Row THEN request[c].id ELSE RowOf(c, row).id

\* A call that adds says of nothing that it wrote it if it did not, and keeps quiet about
\* nothing that it wrote and that is there; a deletion by ids names every id that it
\* deleted: although the driver sends a statement again whose answer was lost, and the
\* repetition meets what the first run did (write tokens, deleteByIds).  CosmosDB keeps no
\* tokens: what a request that was sent again did the first time may go unreported.  An
\* import that stops throws and reports nothing, although it may have written some chunks:
\* in Neo4j even after another has met no marker, when the repository is made anew while
\* they are under way (runBounded).
AnswersAreTruth ==
  \A c \in Clients : call[c].pc = "done" =>
    /\ Op(c) \in {"entity", "edge", "import"} =>
         /\ call[c].told \subseteq call[c].wrote
         /\ /\ call[c].reply # "failed" /\ call[c].stopped = None
            /\ ~(provider = "cosmosdb" /\ call[c].resent)
            => \A d \in data[Repo(c)] : d.by[1] = c /\ d.of = marker[Repo(c)] =>
                 \E row \in call[c].told : IdToldOf(c, row) = d.id
    /\ Op(c) \in {"remove", "erase"} /\ call[c].reply \in {"removed", "not_found"} =>
         /\ ~call[c].resent => call[c].told = call[c].took
         /\ provider # "cosmosdb" => call[c].took \subseteq call[c].told

\* Every call answers: drains meet an end although creates, deletes and writes go on
\* beside them.
CallsEnd == \A c \in Clients : c \in DOMAIN request ~> call[c].pc = "done"

=============================================================================
