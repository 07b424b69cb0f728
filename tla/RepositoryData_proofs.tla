------------------------ MODULE RepositoryData_proofs ------------------------
(***************************************************************************)
(* Proofs about the data of repositories in the persistent providers: whose *)
(* they are, that nothing outlives its repository, and that one that lives  *)
(* keeps what was stored in it, for any clients, requests, repositories and *)
(* sizes of batches, and any number of failures.                            *)
(***************************************************************************)
EXTENDS StorageProviders_proofs

-----------------------------------------------------------------------------
(* What a step does to the data.                                           *)

\* The calls of CosmosDB that write under the repository they have found.
Landing == {"entity", "edge", "save", "import"}

\* It has found one.
Lands(cl) ==
  \/ cl.pc \in {"land", "write", "record", "complete"}
  \/ cl.pc = "importing" /\ \E k \in DOMAIN cl.chunks :
       \/ cl.chunks[k].pc # "waiting"
       \/ \E j \in DOMAIN cl.chunks[k].rows : cl.chunks[k].rows[j].at # "new"

GateFits(c, cl) == provider = "cosmosdb" /\ Op(c) \in Landing /\ Lands(cl) => cl.gate # None

Gated == \A c \in Clients : GateFits(c, call[c])

\* The rows of an import are those that were asked for.
ShapeOf(c, cl) ==
  cl.pc = "importing" /\ provider # "sqlserver" =>
    /\ DOMAIN cl.chunks \subseteq DOMAIN request[c].chunks
    /\ provider = "cosmosdb" => \A k \in DOMAIN cl.chunks :
         "rows" \in DOMAIN cl.chunks[k] /\ DOMAIN cl.chunks[k].rows \subseteq DOMAIN request[c].chunks[k]
    /\ provider = "neo4j" => \A k \in DOMAIN cl.chunks : RowFits(c, k, cl.chunks[k])

Shaped == \A c \in Clients : ShapeOf(c, call[c])

\* What is asked for is well formed.
Asked == \A c \in DOMAIN request : IsAskedWell(request[c])

\* What is new carries the call's token or none, and belongs to the repository that lives or
\* landed too late for its own.
Fresh(c, d) ==
  /\ d.of # None /\ d.by[1] \in {c, None}
  /\ d.of = marker[Repo(c)] \/ (provider = "cosmosdb" /\ Op(c) \in Landing /\ d.of = call[c].gate /\ d \in late')

Puts(c) ==
  /\ late \subseteq late'
  /\ \A r \in Repositories :
       /\ \A d \in data'[r] : d \in data[r] \/ (r = Repo(c) /\ Fresh(c, d))
       /\ provider # "sqlserver" /\ IsGraph(data[r]) => IsGraph(data'[r])

LEMMA PutsNothing ==
  ASSUME NEW c, UNCHANGED data, late \subseteq late'
  PROVE  Puts(c)
BY DEF Puts

LEMMA PutsItems ==
  ASSUME Keeps, NEW c, NEW items, ChangesData(Repo(c), items), late \subseteq late',
         \A d \in items : d \in data[Repo(c)] \/ Fresh(c, d),
         provider # "sqlserver" /\ IsGraph(data[Repo(c)]) => IsGraph(items)
  PROVE  Puts(c)
<1>1. \A r \in Repositories : data'[r] = data[r] \/ (r = Repo(c) /\ data'[r] = items)
  BY DEF ChangesData, Keeps
<1>2. ASSUME NEW r \in Repositories
      PROVE  /\ \A d \in data'[r] : d \in data[r] \/ (r = Repo(c) /\ Fresh(c, d))
             /\ provider # "sqlserver" /\ IsGraph(data[r]) => IsGraph(data'[r])
  BY <1>1
<1> QED
  BY <1>2 DEF Puts

LEMMA WithoutGraph ==
  ASSUME NEW r, NEW gone, IsGraph(data[r])
  PROVE  IsGraph(Without(r, gone))
<1> DEFINE ids == IdsOf({d \in gone : d.kind = "entity"})
<1> SUFFICES ASSUME NEW d \in Without(r, gone), d.kind = "edge"
             PROVE  /\ ToSet(d.ends) # {}
                    /\ ToSet(d.ends) \subseteq IdsOf({e \in Without(r, gone) : e.kind = "entity"})
  BY DEF IsGraph
<1>1. d \in data[r] /\ d \notin Linked(r, ids)
  BY DEF Without
<1>2. ToSet(d.ends) # {} /\ ToSet(d.ends) \subseteq IdsOf({e \in data[r] : e.kind = "entity"})
  BY <1>1 DEF IsGraph
<1>3. ToSet(d.ends) \cap ids = {}
  BY <1>1 DEF Linked, Edges
<1>4. ASSUME NEW i \in ToSet(d.ends) PROVE i \in IdsOf({e \in Without(r, gone) : e.kind = "entity"})
  <2>1. PICK e \in data[r] : e.kind = "entity" /\ e.id = i
    BY <1>2, <1>4 DEF IdsOf
  <2>2. e \notin gone
    BY <1>3, <1>4, <2>1 DEF IdsOf
  <2>3. e \in Without(r, gone)
    BY <2>1, <2>2 DEF Without, Linked, Edges
  <2> QED
    BY <2>1, <2>3 DEF IdsOf
<1> QED
  BY <1>2, <1>4

LEMMA AddedGraph ==
  ASSUME NEW items, IsGraph(items), NEW added,
         \A d \in added : d.kind = "edge" =>
           ToSet(d.ends) # {} /\ ToSet(d.ends) \subseteq IdsOf({e \in items : e.kind = "entity"})
  PROVE  IsGraph(items \cup added)
<1>1. IdsOf({e \in items : e.kind = "entity"}) \subseteq IdsOf({e \in items \cup added : e.kind = "entity"})
  BY DEF IdsOf
<1> QED
  BY <1>1 DEF IsGraph

LEMMA WithoutPuts ==
  ASSUME Keeps, NEW c, NEW gone, ChangesData(Repo(c), Without(Repo(c), gone)), UNCHANGED late
  PROVE  Puts(c)
<1>1. \A d \in Without(Repo(c), gone) : d \in data[Repo(c)]
  BY DEF Without
<1>2. IsGraph(data[Repo(c)]) => IsGraph(Without(Repo(c), gone))
  BY WithoutGraph
<1> QED
  BY <1>1, <1>2, PutsItems

LEMMA AddedPuts ==
  ASSUME Keeps, NEW c, NEW added, ChangesData(Repo(c), data[Repo(c)] \cup added), late \subseteq late',
         \A d \in added : Fresh(c, d),
         \A d \in added : d.kind = "edge" =>
           ToSet(d.ends) # {} /\ ToSet(d.ends) \subseteq IdsOf(Entities(Repo(c)))
  PROVE  Puts(c)
<1>1. IsGraph(data[Repo(c)]) => IsGraph(data[Repo(c)] \cup added)
  BY AddedGraph DEF Entities
<1> DEFINE items == data[Repo(c)] \cup added
<1>2. \A d \in items : d \in data[Repo(c)] \/ Fresh(c, d)
  OBVIOUS
<1> HIDE DEF items
<1>3. ChangesData(Repo(c), items) /\ (IsGraph(data[Repo(c)]) => IsGraph(items))
  BY <1>1 DEF items
<1> QED
  BY <1>2, <1>3, PutsItems

LEMMA OnePuts ==
  ASSUME Keeps, NEW c, NEW d, ChangesData(Repo(c), data[Repo(c)] \cup {d}), late \subseteq late',
         Fresh(c, d),
         d.kind = "edge" => ToSet(d.ends) # {} /\ ToSet(d.ends) \subseteq IdsOf(Entities(Repo(c)))
  PROVE  Puts(c)
<1> DEFINE added == {d}
<1>1. ChangesData(Repo(c), data[Repo(c)] \cup added)
  OBVIOUS
<1>2. \A e \in added : Fresh(c, e)
  OBVIOUS
<1>3. \A e \in added : e.kind = "edge" =>
        ToSet(e.ends) # {} /\ ToSet(e.ends) \subseteq IdsOf(Entities(Repo(c)))
  OBVIOUS
<1> HIDE DEF added
<1> QED
  BY <1>1, <1>2, <1>3, AddedPuts

LEMMA RequestOf ==
  ASSUME Requests, NEW c, Op(c) # None
  PROVE  c \in DOMAIN request /\ Op(c) = request[c].op /\ Repo(c) \in Repositories /\ c \in Clients
BY DEF Requests, Op, Repo

LEMMA CommonPuts ==
  ASSUME NEW c, BeginDelete(c) \/ ReadVersion(c) \/ Fails(c)
  PROVE  Puts(c)
BY PutsNothing DEF BeginDelete, ReadVersion, Fails, store

LEMMA CosmosDrainsPut ==
  ASSUME Keeps, NEW c,
         \/ DrainEdges(c) \/ DrainEntities(c) \/ DrainVertices(c) \/ RemoveChunk(c) \/ DropBatch(c)
         \/ DropEdgeBatch(c) \/ ClearEntities(c)
  PROVE  Puts(c)
<1>1. UNCHANGED late
  BY DEF DrainEdges, DrainEntities, DrainVertices, RemoveChunk, DropBatch, DropEdgeBatch, ClearEntities
<1>2. UNCHANGED data \/ \E gone : ChangesData(Repo(c), Without(Repo(c), gone))
  <2>1. CASE DrainEdges(c)
    BY <2>1 DEF DrainEdges
  <2>2. CASE DrainEntities(c)
    BY <2>2 DEF DrainEntities
  <2>3. CASE DrainVertices(c)
    BY <2>3 DEF DrainVertices
  <2>4. CASE RemoveChunk(c)
    BY <2>4 DEF RemoveChunk
  <2>5. CASE DropBatch(c)
    BY <2>5 DEF DropBatch
  <2>6. CASE DropEdgeBatch(c)
    BY <2>6 DEF DropEdgeBatch
  <2>7. CASE ClearEntities(c)
    BY <2>7 DEF ClearEntities
  <2> QED
    BY <2>1, <2>2, <2>3, <2>4, <2>5, <2>6, <2>7
<1> QED
  BY <1>1, <1>2, PutsNothing, WithoutPuts

\* The relationship that a call adds.
LEMMA NewItemIs ==
  ASSUME NEW c, NEW of
  PROVE  /\ NewItem(c, of).of = of /\ NewItem(c, of).kind = Op(c) /\ NewItem(c, of).ends = request[c].ends
         /\ NewItem(c, of).id = request[c].id /\ NewItem(c, of).by = <<c, 0, 0>>
BY DEF NewItem, Item, Token

LEMMA LandPuts ==
  ASSUME Requests, Keeps, Gated, Asked, NEW c \in Clients, Land(c), provider = "cosmosdb",
         Op(c) \in {"entity", "edge"}
  PROVE  Puts(c)
<1> DEFINE d == NewItem(c, call[c].gate)
<1>1. d.of = call[c].gate /\ d.kind = Op(c) /\ d.ends = request[c].ends /\ d.by[1] = c
  BY NewItemIs
<1>2. call[c].gate # None
  BY DEF Land, Gated, GateFits, Lands, Landing
<1>3. Op(c) = "edge" => ToSet(d.ends) # {}
  BY <1>1, RequestOf DEF Asked, IsAskedWell, None
<1>4. CASE UNCHANGED <<data, late>>
  BY <1>4, PutsNothing
<1>5. CASE ~UNCHANGED <<data, late>>
  <2>1. /\ Endpoints(c) \subseteq IdsOf(Entities(Repo(c)))
        /\ ChangesData(Repo(c), data[Repo(c)] \cup {d})
        /\ late' = IF marker[Repo(c)] = call[c].gate THEN late ELSE late \cup {d}
    BY <1>5 DEF Land
  <2> HIDE DEF d
  <2>2. Fresh(c, d)
    BY <1>1, <1>2, <2>1 DEF Fresh, Landing
  <2>3. late \subseteq late'
    BY <2>1
  <2> QED
    BY <1>1, <1>3, <2>1, <2>2, <2>3, OnePuts DEF Endpoints
<1> QED
  BY <1>4, <1>5

LEMMA WriteRecordPuts ==
  ASSUME Keeps, Gated, NEW c \in Clients, WriteRecord(c), provider = "cosmosdb", Op(c) = "save"
  PROVE  Puts(c)
<1>1. PICK kind \in {"record", "part of a record"} :
        /\ ChangesData(Repo(c), data[Repo(c)] \cup {ChangeRecord(c, kind, call[c].gate)})
        /\ late' = IF marker[Repo(c)] = call[c].gate THEN late ELSE late \cup {ChangeRecord(c, kind, call[c].gate)}
  BY DEF WriteRecord
<1> DEFINE d == ChangeRecord(c, kind, call[c].gate)
<1>2. d.of = call[c].gate /\ d.kind # "edge" /\ d.by[1] = c
  BY DEF ChangeRecord, Item, Token
<1>3. call[c].gate # None
  BY DEF WriteRecord, Gated, GateFits, Lands, Landing
<1> HIDE DEF d
<1>4. /\ ChangesData(Repo(c), data[Repo(c)] \cup {d})
      /\ late' = IF marker[Repo(c)] = call[c].gate THEN late ELSE late \cup {d}
  BY <1>1 DEF d
<1>5. Fresh(c, d)
  BY <1>2, <1>3, <1>4 DEF Fresh, Landing
<1>6. late \subseteq late'
  BY <1>4
<1> QED
  BY <1>2, <1>4, <1>5, <1>6, OnePuts

LEMMA PutRecordPuts ==
  ASSUME Keeps, Gated, NEW c \in Clients, PutRecord(c), provider = "cosmosdb", Op(c) = "save"
  PROVE  Puts(c)
<1>0. call[c].gate # None
  BY DEF PutRecord, Gated, GateFits, Lands, Landing
<1>1. CASE UNCHANGED <<data, late>>
  BY <1>1, PutsNothing
<1>2. CASE ~UNCHANGED <<data, late>>
  <2> DEFINE d == ChangeRecord(c, "record", call[c].gate)
             kept == {e \in data[Repo(c)] : e.id # c \/ e.kind \in {"entity", "edge"}}
  <2>1. /\ ChangesData(Repo(c), kept \cup {d})
        /\ late' = IF marker[Repo(c)] = call[c].gate THEN late ELSE late \cup {d}
    BY <1>2 DEF PutRecord, CompleteRecord
  <2>2. d.of = call[c].gate /\ d.kind # "edge" /\ d.by[1] = c
    BY DEF ChangeRecord, Item, Token
  <2>3. ASSUME IsGraph(data[Repo(c)]) PROVE IsGraph(kept \cup {d})
    <3>1. {e \in kept : e.kind = "entity"} = {e \in data[Repo(c)] : e.kind = "entity"}
      OBVIOUS
    <3>2. IsGraph(kept)
      BY <2>3, <3>1 DEF IsGraph
    <3> HIDE DEF kept, d
    <3> QED
      BY <2>2, <3>2, AddedGraph
  <2>4. (\A e \in kept \cup {d} : e \in data[Repo(c)] \/ Fresh(c, e)) /\ late \subseteq late'
    <3>1. \A e \in kept : e \in data[Repo(c)]
      OBVIOUS
    <3> HIDE DEF kept, d
    <3>2. Fresh(c, d)
      BY <1>0, <2>1, <2>2 DEF Fresh, Landing
    <3> QED
      BY <2>1, <3>1, <3>2
  <2> DEFINE items == kept \cup {d}
  <2> HIDE DEF kept, d
  <2>5. /\ ChangesData(Repo(c), items) /\ late \subseteq late'
        /\ \A e \in items : e \in data[Repo(c)] \/ Fresh(c, e)
        /\ IsGraph(data[Repo(c)]) => IsGraph(items)
    BY <2>1, <2>3, <2>4
  <2> HIDE DEF items
  <2> QED
    BY <2>5, PutsItems
<1> QED
  BY <1>1, <1>2

LEMMA CosmosPuts ==
  ASSUME Base, Gated, Asked, NEW c \in Clients, CosmosStep(c), provider = "cosmosdb"
  PROVE  Puts(c)
<1>0. Fits(c, call[c], c \in alive) /\ Keeps /\ Requests
  BY DEF Base, Local
<1>1. CASE Creates(c)
  BY <1>1, PutsNothing
     DEF Creates, ProbeForCreate, WhyOccupied, WriteVocabulary, ReadIndexForCreate, WriteMarker, store
<1>2. CASE Deletes(c)
  BY <1>0, <1>2, PutsNothing, CosmosDrainsPut
     DEF Deletes, DropMarker, ProbeForDelete, NothingLeft, SizeEntities, UnlessRecreated, CountRemaining,
         ReadIndexForDelete, RemoveFromIndex, store
<1>3. CASE Land(c)
  <2>1. Op(c) \in {"entity", "edge"}
    BY <1>0, <1>3 DEF Land, Fits, PcFits
  <2> QED
    BY <1>0, <1>3, <2>1, LandPuts
<1>4. CASE Writes(c)
  BY <1>0, <1>3, <1>4, PutsNothing, CosmosDrainsPut
     DEF Writes, CheckAndAdd, BeginRemove, ReadBatch, AssertMarker, store
<1>5. CASE Saves(c)
  <2>1. Op(c) = "save" \/ ~(WriteRecord(c) \/ PutRecord(c))
    BY <1>0 DEF WriteRecord, PutRecord, Fits, PcFits
  <2> QED
    BY <1>0, <1>5, <2>1, PutsNothing, WriteRecordPuts, PutRecordPuts
       DEF Saves, MatchVersion, CompareAndSet, ReadState, EnsureRecord, store
<1> QED
  BY <1>1, <1>2, <1>4, <1>5 DEF CosmosStep

-----------------------------------------------------------------------------
(* Imports keep to the rows that were asked for.                           *)

LEMMA CosmosRowPuts ==
  ASSUME Requests, Keeps, Gated, Asked, Shaped, NEW c \in Clients, provider = "cosmosdb",
         Op(c) = "import", call[c].pc = "importing", NEW k \in DOMAIN call[c].chunks,
         NEW j \in DOMAIN call[c].chunks[k].rows, LandRow(c, k, j)
  PROVE  Puts(c)
<1> DEFINE d == RowItem(c, <<k, j>>)
<1>1. d.of = call[c].gate /\ d.kind = RowOf(c, <<k, j>>).kind /\ d.ends = RowOf(c, <<k, j>>).ends /\ d.by[1] = c
  BY DEF RowItem, Item, Token
<1>2. call[c].gate # None
  <2>1. call[c].chunks[k].rows[j].at # "new"
    BY DEF LandRow
  <2> QED
    BY <2>1 DEF Gated, GateFits, Lands, Landing
<1>3. d.kind = "edge" => ToSet(d.ends) # {}
  <2>1. k \in DOMAIN request[c].chunks /\ j \in DOMAIN request[c].chunks[k]
    BY DEF Shaped, ShapeOf
  <2>2. c \in DOMAIN request /\ request[c].op = "import"
    BY RequestOf DEF None
  <2>3. RowOf(c, <<k, j>>) = request[c].chunks[k][j]
    BY DEF RowOf
  <2> QED
    BY <1>1, <2>1, <2>2, <2>3 DEF Asked, IsAskedWell, IsChunk
<1>4. CASE UNCHANGED <<data, late>>
  BY <1>4, PutsNothing
<1>5. CASE ~UNCHANGED <<data, late>>
  <2>1. /\ EndpointsOf(c, <<k, j>>) \subseteq IdsOf(Entities(Repo(c)))
        /\ ChangesData(Repo(c), data[Repo(c)] \cup {d})
        /\ late' = IF marker[Repo(c)] = call[c].gate THEN late ELSE late \cup {d}
    BY <1>5 DEF LandRow, IsIn
  <2> HIDE DEF d
  <2>2. Fresh(c, d)
    BY <1>1, <1>2, <2>1 DEF Fresh, Landing
  <2>3. late \subseteq late'
    BY <2>1
  <2> QED
    BY <1>1, <1>3, <2>1, <2>2, <2>3, OnePuts DEF EndpointsOf
<1> QED
  BY <1>4, <1>5

LEMMA DoneFits ==
  ASSUME NEW c, NEW cl, cl.pc = "done"
  PROVE  ShapeOf(c, cl) /\ GateFits(c, cl)
BY DEF ShapeOf, GateFits, Lands

\* What a step leaves of the gate of its call.
Steady(c) ==
  /\ ShapeOf(c, call'[c]) /\ GateFits(c, call'[c])
  /\ provider = "cosmosdb" /\ Op(c) \in Landing => call'[c].gate \in {call[c].gate, marker[Repo(c)]}

LEMMA AltersSteady ==
  ASSUME Keeps, NEW c \in Clients, ShapeOf(c, call[c]), call[c].gate # None,
         NEW d, Alters(call[c], d), Becomes(c, d), provider = "cosmosdb", call[c].pc = "importing"
  PROVE  Steady(c)
<1>1. call'[c] = d
  BY BecomesIs
<1>2. ShapeOf(c, d)
  BY DEF ShapeOf, Alters
<1>3. GateFits(c, d) /\ d.gate = call[c].gate
  BY DEF GateFits, Alters
<1> QED
  BY <1>1, <1>2, <1>3 DEF Steady

LEMMA EndsSteady ==
  ASSUME Keeps, NEW c \in Clients, IsCall(call[c]), NEW reply, Becomes(c, Replies(c, reply))
  PROVE  Steady(c)
<1>1. Replies(c, reply).pc = "done" /\ Replies(c, reply).gate = call[c].gate
  BY RepliesIs DEF Fields
<1> QED
  BY <1>1, DoneFits, BecomesIs DEF Steady

LEMMA CosmosImportSteady ==
  ASSUME Base, Gated, Shaped, NEW c \in Clients, provider = "cosmosdb",
         CosmosImportStep(c) \/ CosmosImportTrouble(c)
  PROVE  Steady(c)
<1>0. /\ Fits(c, call[c], c \in alive) /\ IsCall(call[c]) /\ Keeps /\ ShapeOf(c, call[c])
      /\ GateFits(c, call[c])
  BY DEF Base, Local, Fits, Shaped, Gated
<1>1. CASE OpenImport(c)
  <2> DEFINE d == [Goes(c, "importing") EXCEPT
                     !.control = NewController,
                     !.chunks = [k \in DOMAIN request[c].chunks |->
                       [pc |-> "waiting", retry |-> <<>>,
                        rows |-> [j \in DOMAIN request[c].chunks[k] |-> NewRow]]]]
  <2>1. Op(c) = "import" /\ call[c].pc = "idle" /\ Becomes(c, d)
    BY <1>1 DEF OpenImport
  <2>2. /\ d.pc = "importing" /\ d.gate = call[c].gate
        /\ d.chunks = [k \in DOMAIN request[c].chunks |->
             [pc |-> "waiting", retry |-> <<>>,
              rows |-> [j \in DOMAIN request[c].chunks[k] |-> NewRow]]]
    BY <1>0, GoesIs DEF IsCall, Fields
  <2> HIDE DEF d
  <2>3. ShapeOf(c, d)
    BY <2>2 DEF ShapeOf
  <2>4. ~Lands(d)
    <3>1. ASSUME NEW k \in DOMAIN d.chunks
          PROVE  /\ d.chunks[k].pc = "waiting"
                 /\ d.chunks[k].rows = [j \in DOMAIN request[c].chunks[k] |-> NewRow]
      BY <2>2, <3>1
    <3>2. NewRow.at = "new"
      BY DEF NewRow
    <3>3. ASSUME NEW k \in DOMAIN d.chunks, NEW j \in DOMAIN d.chunks[k].rows
          PROVE  d.chunks[k].rows[j].at = "new"
      BY <3>1, <3>2, <3>3
    <3> QED
      BY <2>2, <3>1, <3>3 DEF Lands
  <2> QED
    BY <1>0, <2>1, <2>2, <2>3, <2>4, BecomesIs DEF Steady, GateFits
<1>2. CASE CloseImport(c)
  BY <1>0, <1>2, EndsSteady DEF CloseImport, Missing
<1>3. ASSUME call[c].pc = "importing" PROVE Op(c) = "import"
  BY <1>0, <1>3 DEF Fits, PcFits
<1>4. ASSUME call[c].pc = "importing", NEW k \in DOMAIN call[c].chunks,
             call[c].chunks[k].pc # "waiting" \/ \E j \in DOMAIN call[c].chunks[k].rows :
               call[c].chunks[k].rows[j].at # "new"
      PROVE  call[c].gate # None
  BY <1>0, <1>3, <1>4 DEF GateFits, Lands, Landing
<1>5. ASSUME call[c].pc = "importing", NEW k \in DOMAIN call[c].chunks, CheckChunk(c, k)
      PROVE  Steady(c)
  <2> DEFINE d == [call[c] EXCEPT !.chunks[k].pc = "pool", !.gate = marker[Repo(c)]]
  <2>1. Becomes(c, Missing(c)) \/ (Gate(c) /\ Becomes(c, d))
    BY <1>5 DEF CheckChunk
  <2>2. CASE Gate(c) /\ Becomes(c, d)
    <3>1. /\ d.pc = call[c].pc /\ d.gate = marker[Repo(c)]
          /\ d.chunks = [call[c].chunks EXCEPT ![k].pc = "pool"]
      BY <1>0, <1>5 DEF IsCall, Fields
    <3> HIDE DEF d
    <3>2. ShapeOf(c, d)
      BY <1>0, <1>5, <3>1 DEF ShapeOf
    <3> QED
      BY <1>0, <2>2, <3>1, <3>2, BecomesIs DEF Steady, GateFits, Gate
  <2> QED
    BY <1>0, <2>1, <2>2, EndsSteady DEF Missing
<1>6. ASSUME call[c].pc = "importing", NEW k \in DOMAIN call[c].chunks, PoolEnds(c, k)
      PROVE  Steady(c)
  <2> DEFINE told == {row \in RowsOf(c, k) : call[c].chunks[k].rows[row[2]].at # "refused"}
             d == [call[c] EXCEPT !.chunks[k].pc = "over", !.told = @ \cup told]
  <2>1. Becomes(c, Replies(c, call[c].stopped)) \/ Becomes(c, d)
    BY <1>6 DEF PoolEnds
  <2>2. call[c].gate # None
    BY <1>4, <1>6 DEF PoolEnds
  <2> HIDE DEF told
  <2>3. /\ d.pc = call[c].pc /\ d.gate = call[c].gate /\ d.chunks = [call[c].chunks EXCEPT ![k].pc = "over"]
    BY <1>0, <1>6 DEF IsCall, Fields
  <2> HIDE DEF d
  <2>4. ShapeOf(c, d)
    BY <1>0, <1>6, <2>3 DEF ShapeOf
  <2>5. Becomes(c, d) => Steady(c)
    BY <1>0, <2>2, <2>3, <2>4, BecomesIs DEF Steady, GateFits
  <2> QED
    BY <1>0, <2>1, <2>5, EndsSteady
<1>7. ASSUME call[c].pc = "importing", NEW k \in DOMAIN call[c].chunks,
             \/ DispatchRow(c, k)
             \/ \E j \in DOMAIN call[c].chunks[k].rows : FindRow(c, k, j) \/ LandRow(c, k, j) \/ RowTrouble(c, k, j)
      PROVE  Steady(c)
  <2>1. call[c].gate # None
    BY <1>4, <1>7 DEF DispatchRow, FindRow, LandRow, RowTrouble, InFlight
  <2>2. PICK d : Alters(call[c], d) /\ Becomes(c, d)
    BY <1>0, <1>7, RowStepAlters
  <2> QED
    BY <1>0, <1>7, <2>1, <2>2, AltersSteady
<1> QED
  BY <1>1, <1>2, <1>5, <1>6, <1>7 DEF CosmosImportStep, CosmosImportTrouble

LEMMA CosmosImportPuts ==
  ASSUME Base, Gated, Asked, Shaped, NEW c \in Clients, provider = "cosmosdb",
         CosmosImportStep(c) \/ CosmosImportTrouble(c)
  PROVE  Puts(c)
<1>0. Fits(c, call[c], c \in alive) /\ Keeps /\ Requests
  BY DEF Base, Local
<1>1. CASE OpenImport(c) \/ CloseImport(c)
  BY <1>1, PutsNothing DEF OpenImport, CloseImport, store
<1>2. ASSUME call[c].pc = "importing", NEW k \in DOMAIN call[c].chunks,
             NEW j \in DOMAIN call[c].chunks[k].rows, LandRow(c, k, j)
      PROVE  Puts(c)
  <2>1. Op(c) = "import"
    BY <1>0, <1>2 DEF Fits, PcFits
  <2> QED
    BY <1>0, <1>2, <2>1, CosmosRowPuts
<1>3. ASSUME NEW k, NEW j,
             CheckChunk(c, k) \/ DispatchRow(c, k) \/ PoolEnds(c, k) \/ FindRow(c, k, j) \/ RowTrouble(c, k, j)
      PROVE  Puts(c)
  BY <1>3, PutsNothing DEF CheckChunk, DispatchRow, PoolEnds, FindRow, RowTrouble, store
<1> QED
  BY <1>1, <1>2, <1>3 DEF CosmosImportStep, CosmosImportTrouble

LEMMA Neo4jDrainsPut ==
  ASSUME Keeps, NEW c,
         \/ DrainRelationships(c) \/ DetachEntities(c) \/ DrainChangeLog(c) \/ SweepNodes(c)
         \/ DeleteByIds(c) \/ DeleteTypeBatch(c) \/ DeleteEdgesOfPage(c)
  PROVE  Puts(c)
<1> DEFINE Drained == UNCHANGED data \/ \E gone : ChangesData(Repo(c), Without(Repo(c), gone))
<1>1. ASSUME NEW gone, NEW cl, Drains(c, Repo(c), gone, cl) PROVE Drained
  BY <1>1 DEF Drains
<1>2. ASSUME NEW nodes, NEW next, DrainNodes(c, nodes, next) PROVE Drained /\ UNCHANGED late
  BY <1>1, <1>2 DEF DrainNodes
<1> HIDE DEF Drained
<1>3. Drained /\ UNCHANGED late
  <2>1. CASE DrainRelationships(c)
    BY <1>1, <2>1 DEF DrainRelationships
  <2>2. CASE DetachEntities(c)
    BY <1>2, <2>2 DEF DetachEntities
  <2>3. CASE DrainChangeLog(c)
    BY <1>2, <2>3 DEF DrainChangeLog
  <2>4. CASE SweepNodes(c)
    BY <1>2, <2>4 DEF SweepNodes
  <2>5. CASE DeleteByIds(c)
    BY <2>5 DEF DeleteByIds, Drained
  <2>6. CASE DeleteTypeBatch(c)
    BY <2>6 DEF DeleteTypeBatch, Drained
  <2>7. CASE DeleteEdgesOfPage(c)
    <3>1. UNCHANGED data \/ \E edges, cl : Drains(c, Repo(c), edges, cl)
      BY <2>7 DEF DeleteEdgesOfPage
    <3>2. Drained
      BY <1>1, <3>1 DEF Drained
    <3> QED
      BY <2>7, <3>2 DEF DeleteEdgesOfPage
  <2> QED
    BY <2>1, <2>2, <2>3, <2>4, <2>5, <2>6, <2>7
<1> QED
  BY <1>3, PutsNothing, WithoutPuts DEF Drained

LEMMA Neo4jItemPuts ==
  ASSUME Requests, Keeps, Asked, NEW c \in Clients, AddItem(c) \/ (SaveVocabulary(c) /\ Op(c) = "save")
  PROVE  Puts(c)
<1>1. CASE AddItem(c)
  <2> DEFINE d == NewItem(c, marker[Repo(c)])
  <2>1. d.of = marker[Repo(c)] /\ d.kind = Op(c) /\ d.ends = request[c].ends /\ d.by[1] = c
    BY NewItemIs
  <2> HIDE DEF d
  <2>2. CASE UNCHANGED data
    BY <1>1, <2>2, PutsNothing DEF AddItem
  <2>3. CASE Obstacle(c) = "none" /\ ChangesData(Repo(c), data[Repo(c)] \cup {d})
    <3>1. marker[Repo(c)] # None /\ Endpoints(c) \subseteq IdsOf(Entities(Repo(c)))
      BY <2>3 DEF Obstacle, Locked
    <3>2. Op(c) = "edge" => ToSet(d.ends) # {}
      BY <2>1, RequestOf DEF Asked, IsAskedWell, None
    <3>3. UNCHANGED late
      BY <1>1 DEF AddItem
    <3>4. Fresh(c, d)
      BY <2>1, <3>1 DEF Fresh
    <3> QED
      BY <2>1, <2>3, <3>1, <3>2, <3>3, <3>4, OnePuts DEF Endpoints
  <2> QED
    BY <1>1, <2>2, <2>3 DEF AddItem, d
<1>2. CASE SaveVocabulary(c)
  <2> DEFINE d == ChangeRecord(c, "record", marker[Repo(c)])
  <2>1. d.of = marker[Repo(c)] /\ d.kind # "edge" /\ d.by[1] = c
    BY DEF ChangeRecord, Item, Token
  <2>2. /\ UNCHANGED late
        /\ UNCHANGED data \/ (Locked(c) /\ ChangesData(Repo(c), data[Repo(c)] \cup {d}))
    BY <1>2 DEF SaveVocabulary
  <2> HIDE DEF d
  <2>3. Locked(c) => Fresh(c, d)
    BY <2>1 DEF Fresh, Locked
  <2> QED
    BY <2>1, <2>2, <2>3, OnePuts, PutsNothing
<1> QED
  BY <1>1, <1>2

\* Rows that have been asked for.
LEMMA StoresPuts ==
  ASSUME Keeps, Asked, NEW c \in DOMAIN request, request[c].op = "import", NEW rows, NEW token, token[1] = c,
         \A row \in rows : /\ Written(c, row)
                           /\ row[1] \in DOMAIN request[c].chunks
                           /\ row[2] \in DOMAIN request[c].chunks[row[1]],
         marker[Repo(c)] # None, ChangesData(Repo(c), Stores(c, rows, token)), UNCHANGED late
  PROVE  Puts(c)
<1> DEFINE added == IF request[c].insert THEN {ItemOf(c, row, token) : row \in rows}
                    ELSE {ItemOf(c, row, Token(None, 0, 0)) : row \in {w \in rows : StoredUnder(c, w) = {}}}
<1>1. Stores(c, rows, token) = data[Repo(c)] \cup added
  BY DEF Stores
<1>2. ASSUME NEW d \in added
      PROVE  /\ Fresh(c, d)
             /\ d.kind = "edge" => ToSet(d.ends) # {} /\ ToSet(d.ends) \subseteq IdsOf(Entities(Repo(c)))
  <2>1. PICK row \in rows : \E by \in {token, Token(None, 0, 0)} : d = ItemOf(c, row, by)
    <3>1. CASE request[c].insert
      BY <3>1
    <3>2. CASE ~request[c].insert
      BY <3>2
    <3> QED
      BY <3>1, <3>2
  <2>2. /\ d.of = marker[Repo(c)] /\ d.kind = RowOf(c, row).kind /\ d.ends = RowOf(c, row).ends
        /\ d.by[1] \in {c, None}
    BY <2>1 DEF ItemOf, Item, Token
  <2>3. d.kind = "edge" => ToSet(d.ends) \subseteq IdsOf(Entities(Repo(c)))
    BY <2>2 DEF Written
  <2>4. d.kind = "edge" => ToSet(d.ends) # {}
    <3>1. RowOf(c, row) = request[c].chunks[row[1]][row[2]]
      BY DEF RowOf
    <3>2. IsChunk(request[c].chunks[row[1]]) /\ row[2] \in DOMAIN request[c].chunks[row[1]]
      BY DEF Asked, IsAskedWell
    <3> QED
      BY <2>2, <3>1, <3>2 DEF IsChunk
  <2> QED
    BY <2>2, <2>3, <2>4 DEF Fresh
<1> HIDE DEF added
<1>3. ChangesData(Repo(c), data[Repo(c)] \cup added)
  BY <1>1
<1> QED
  BY <1>2, <1>3, AddedPuts

LEMMA Neo4jChunkPuts ==
  ASSUME Base, Asked, Shaped, NEW c \in Clients, provider = "neo4j",
         call[c].pc = "importing", NEW k \in Chunks(c), SendChunk(c, k) \/ ImportRow(c, k)
  PROVE  Puts(c)
<1>0. Requests /\ Keeps /\ c \in DOMAIN request /\ request[c].op = "import"
  <2>1. Op(c) = "import"
    BY DEF Base, Local, Fits, PcFits
  <2> QED
    BY <2>1, RequestOf DEF Base, None
<1>1. k \in DOMAIN request[c].chunks /\ call[c].chunks[k].row \in 1..Len(request[c].chunks[k])
  BY DEF Shaped, ShapeOf, RowFits, Chunks
<1>2. CASE SendChunk(c, k)
  <2> DEFINE rows == {row \in RowsOf(c, k) : Written(c, row)}
  <2>1. \A row \in rows : /\ Written(c, row) /\ row[1] \in DOMAIN request[c].chunks
                          /\ row[2] \in DOMAIN request[c].chunks[row[1]]
    BY <1>1 DEF RowsOf
  <2>2. /\ UNCHANGED late
        /\ \/ UNCHANGED data
           \/ Locked(c) /\ ChangesData(Repo(c), Stores(c, rows, Token(c, k, 0)))
    BY <1>2 DEF SendChunk
  <2> HIDE DEF rows
  <2> QED
    BY <1>0, <2>1, <2>2, StoresPuts, PutsNothing DEF Locked, Token
<1>3. CASE ImportRow(c, k)
  <2> DEFINE row == <<k, call[c].chunks[k].row>>
             rows == {w \in {row} : Written(c, w)}
  <2>1. DOMAIN request[c].chunks[k] = 1..Len(request[c].chunks[k])
    BY <1>0, <1>1 DEF Asked, IsAskedWell, IsChunk
  <2>2. \A w \in rows : /\ Written(c, w) /\ w[1] \in DOMAIN request[c].chunks
                        /\ w[2] \in DOMAIN request[c].chunks[w[1]]
    BY <1>1, <2>1
  <2>3. /\ UNCHANGED late
        /\ \/ UNCHANGED data
           \/ Locked(c) /\ \E token : token[1] = c /\ ChangesData(Repo(c), Stores(c, rows, token))
    BY <1>3 DEF ImportRow, RowToken, Token
  <2> HIDE DEF rows
  <2> QED
    BY <1>0, <2>2, <2>3, StoresPuts, PutsNothing DEF Locked
<1> QED
  BY <1>2, <1>3

LEMMA Neo4jPuts ==
  ASSUME Base, Asked, Shaped, NEW c \in Clients, provider = "neo4j",
         Neo4jStep(c) \/ ImportStep(c) \/ ImportTrouble(c)
  PROVE  Puts(c)
<1>0. Fits(c, call[c], c \in alive) /\ Keeps /\ Requests
  BY DEF Base, Local
<1>1. CASE \/ CreateRepository(c) \/ ReadRepositoryToken(c) \/ DetachMarker(c) \/ DetachVocabulary(c)
           \/ AssertBeforeClear(c) \/ ReadToken(c) \/ ReadSaveOutcome(c) \/ BeginImport(c) \/ EndImport(c)
  BY <1>1, PutsNothing DEF CreateRepository, ReadRepositoryToken, DetachMarker, DetachVocabulary,
     AssertBeforeClear, ReadToken, ReadSaveOutcome, BeginImport, EndImport, Unmarked, store
<1>2. SaveVocabulary(c) => Op(c) = "save"
  BY <1>0 DEF SaveVocabulary, Fits, PcFits
<1>3. ASSUME NEW k, Dispatch(c, k) \/ CountCarrying(c, k) \/ ReadTokens(c, k) \/ ChunkFails(c, k)
      PROVE  Puts(c)
  BY <1>3, PutsNothing DEF Dispatch, CountCarrying, ReadTokens, ChunkFails, Unmarked, store
<1> QED
  BY <1>0, <1>1, <1>2, <1>3, Neo4jDrainsPut, Neo4jItemPuts, Neo4jChunkPuts
     DEF Neo4jStep, ImportStep, ImportTrouble

LEMMA SqlPuts ==
  ASSUME Base, NEW c \in Clients, provider = "sqlserver", SqlServerStep(c)
  PROVE  Puts(c)
<1>0. Keeps
  BY DEF Base
<1>1. CASE InsertRepository(c) \/ InsertVocabulary(c)
  BY <1>1, PutsNothing DEF InsertRepository, InsertVocabulary
<1>2. CASE DeleteRepository(c)
  <2>1. UNCHANGED late /\ (UNCHANGED data \/ ChangesData(Repo(c), {}))
    BY <1>2 DEF DeleteRepository
  <2> QED
    BY <1>0, <2>1, PutsNothing, PutsItems
<1>3. CASE UpdateVocabulary(c)
  <2> DEFINE d == ChangeRecord(c, "record", marker[Repo(c)])
  <2>1. d.of = marker[Repo(c)] /\ d.kind # "edge" /\ d.by[1] = c
    BY DEF ChangeRecord, Item, Token
  <2>2. CASE UNCHANGED data
    BY <1>3, <2>2, PutsNothing DEF UpdateVocabulary
  <2>3. CASE data' # data
    <3>1. /\ UNCHANGED late /\ vocabulary[Repo(c)] # {} /\ ChangesData(Repo(c), data[Repo(c)] \cup {d})
          /\ Op(c) = "save"
      BY <1>3, <2>3 DEF UpdateVocabulary, Base, Local, Fits, PcFits
    <3>2. marker[Repo(c)] # None
      BY <3>1, RequestOf DEF Base, Rooted, None
    <3> HIDE DEF d
    <3> QED
      BY <1>0, <2>1, <3>1, <3>2, OnePuts DEF Fresh
  <2> QED
    BY <2>2, <2>3
<1>4. CASE RowsOnly(c)
  <2>1. CASE UNCHANGED data
    BY <1>4, <2>1, PutsNothing DEF RowsOnly
  <2>2. CASE data' # data
    <3>1. PICK items : /\ ChangesData(Repo(c), items) /\ UNCHANGED late
                       /\ \A d \in items : \/ d \in data[Repo(c)]
                                           \/ marker[Repo(c)] # None /\ d.of = marker[Repo(c)] /\ d.by[1] = c
      BY <1>4, <2>2 DEF RowsOnly, ChangesData
    <3>2. \A d \in items : d \in data[Repo(c)] \/ Fresh(c, d)
      BY <3>1 DEF Fresh
    <3> QED
      BY <1>0, <3>1, <3>2, PutsItems
  <2> QED
    BY <2>1, <2>2
<1> QED
  BY <1>1, <1>2, <1>3, <1>4, SqlRowsOnly DEF SqlServerStep

\* A chunk of an import moves on, or the import is answered.
LEMMA MovesShape ==
  ASSUME NEW c, provider = "neo4j", call[c].pc = "importing", ShapeOf(c, call[c]),
         NEW k \in DOMAIN call[c].chunks, NEW d, Moves(c, k, d)
  PROVE  ShapeOf(c, d)
<1>1. /\ DOMAIN d.chunks = DOMAIN call[c].chunks
      /\ \A i \in DOMAIN d.chunks \ {k} : d.chunks[i] = call[c].chunks[i]
      /\ RowFits(c, k, call[c].chunks[k]) => RowFits(c, k, d.chunks[k])
  BY DEF Moves
<1>2. DOMAIN call[c].chunks \subseteq DOMAIN request[c].chunks /\ \A i \in DOMAIN call[c].chunks : RowFits(c, i, call[c].chunks[i])
  BY DEF ShapeOf
<1>3. \A i \in DOMAIN d.chunks : RowFits(c, i, d.chunks[i])
  BY <1>1, <1>2
<1> QED
  BY <1>1, <1>2, <1>3 DEF ShapeOf

LEMMA SubmittedShape ==
  ASSUME Keeps, NEW c \in Clients, IsCall(call[c]), ShapeOf(c, call[c]), provider = "neo4j",
         call[c].pc = "importing", NEW d, ShapeOf(c, d), Submitted(c, d, "importing")
  PROVE  ShapeOf(c, call'[c])
<1> DEFINE again == [Goes(c, "importing") EXCEPT !.resent = TRUE, !.stored = d.stored,
                       !.recorded = d.recorded, !.wrote = d.wrote, !.took = d.took,
                       !.caught = d.caught]
<1>1. Becomes(c, d) \/ Becomes(c, again)
  BY DEF Submitted
<1>2. again.pc = call[c].pc /\ again.chunks = call[c].chunks
  BY GoesIs DEF IsCall, Fields
<1> HIDE DEF again
<1>3. ShapeOf(c, again)
  BY <1>2 DEF ShapeOf
<1> QED
  BY <1>1, <1>3, BecomesIs

LEMMA Neo4jChunkShape ==
  ASSUME Base, Shaped, NEW c \in Clients, provider = "neo4j", call[c].pc = "importing", NEW k \in Chunks(c),
         \/ Dispatch(c, k) \/ SendChunk(c, k) \/ CountCarrying(c, k) \/ ImportRow(c, k)
         \/ ReadTokens(c, k) \/ ChunkFails(c, k)
  PROVE  ShapeOf(c, call'[c])
<1>0. /\ IsCall(call[c]) /\ Keeps /\ ImportFits(call[c], c \in alive) /\ k \in DOMAIN call[c].chunks
      /\ ShapeOf(c, call[c])
  BY ImportingGood DEF Chunks, Shaped
<1>1. "pc" \in DOMAIN call[c].chunks[k]
  BY <1>0 DEF ImportFits
<1>2. \A d : Moves(c, k, d) => ShapeOf(c, d)
  BY <1>0, MovesShape
<1>3. ASSUME NEW x, NEW v
      PROVE  /\ ShapeOf(c, ChunkGoes(c, k, x))
             /\ ShapeOf(c, [ChunkGoes(c, k, x) EXCEPT !.wrote = @ \cup v])
             /\ ShapeOf(c, [ChunkGoes(c, k, x) EXCEPT !.chunks[k].imported = v])
             /\ ShapeOf(c, Imports(c, k, v, x))
             /\ ShapeOf(c, NextRow([call[c] EXCEPT !.chunks[k].refused = v], c, k))
             /\ ShapeOf(c, NextRow(Imports(c, k, v, x), c, k))
             /\ ShapeOf(c, NextRow(call[c], c, k))
  <2>1. Moves(c, k, ChunkGoes(c, k, x))
    BY <1>0, <1>1, ChunkGoesOn
  <2>2. /\ Moves(c, k, [ChunkGoes(c, k, x) EXCEPT !.wrote = @ \cup v])
        /\ Moves(c, k, [ChunkGoes(c, k, x) EXCEPT !.chunks[k].imported = v])
        /\ Moves(c, k, Imports(c, k, v, x))
        /\ Moves(c, k, [call[c] EXCEPT !.chunks[k].refused = v])
    BY <1>0, <1>1, ChunkMoves
  <2>3. Moves(c, k, call[c])
    BY <1>0, <1>1 DEF Moves
  <2>4. /\ Moves(c, k, NextRow([call[c] EXCEPT !.chunks[k].refused = v], c, k))
        /\ Moves(c, k, NextRow(Imports(c, k, v, x), c, k))
        /\ Moves(c, k, NextRow(call[c], c, k))
    BY <1>0, <2>2, <2>3, RowsMove
  <2> QED
    BY <1>2, <2>1, <2>2, <2>4
<1>9. ASSUME NEW x \in {"missing", "failed"} PROVE ShapeOf(c, Stops(c, k, x))
  BY <1>0, <1>1, <1>2, ChunkStops
<1>4. CASE Dispatch(c, k) \/ ChunkFails(c, k)
  BY <1>0, <1>3, <1>4, <1>9, BecomesIs DEF Dispatch, ChunkFails
<1>5. CASE SendChunk(c, k)
  <2>1. PICK v : \/ Becomes(c, Stops(c, k, "missing"))
                 \/ Becomes(c, ChunkGoes(c, k, "count")) \/ Becomes(c, ChunkGoes(c, k, "rows"))
                 \/ Submitted(c, Imports(c, k, v, "over"), "importing")
                 \/ Becomes(c, [ChunkGoes(c, k, "rows") EXCEPT !.wrote = @ \cup v])
    BY <1>5 DEF SendChunk
  <2>2. /\ ShapeOf(c, Stops(c, k, "missing")) /\ ShapeOf(c, Imports(c, k, v, "over"))
        /\ ShapeOf(c, ChunkGoes(c, k, "count")) /\ ShapeOf(c, ChunkGoes(c, k, "rows"))
        /\ ShapeOf(c, [ChunkGoes(c, k, "rows") EXCEPT !.wrote = @ \cup v])
    BY <1>3, <1>9
  <2> QED
    BY <1>0, <2>1, <2>2, BecomesIs, SubmittedShape
<1>6. CASE CountCarrying(c, k) \/ ReadTokens(c, k)
  <2>1. PICK v : \/ Becomes(c, [ChunkGoes(c, k, "over") EXCEPT !.chunks[k].imported = v])
                 \/ Becomes(c, ChunkGoes(c, k, "rows"))
    BY <1>6 DEF CountCarrying, ReadTokens
  <2>2. /\ ShapeOf(c, [ChunkGoes(c, k, "over") EXCEPT !.chunks[k].imported = v])
        /\ ShapeOf(c, ChunkGoes(c, k, "rows"))
    BY <1>3
  <2> QED
    BY <1>0, <2>1, <2>2, BecomesIs
<1>7. CASE ImportRow(c, k)
  <2>1. PICK v : \/ Becomes(c, ChunkGoes(c, k, "over")) \/ Becomes(c, Stops(c, k, "missing"))
                 \/ Becomes(c, NextRow([call[c] EXCEPT !.chunks[k].refused = v], c, k))
                 \/ Submitted(c, NextRow(Imports(c, k, v, "rows"), c, k), "importing")
                 \/ Becomes(c, NextRow(call[c], c, k))
    BY <1>7 DEF ImportRow
  <2>2. /\ ShapeOf(c, ChunkGoes(c, k, "over")) /\ ShapeOf(c, Stops(c, k, "missing"))
        /\ ShapeOf(c, NextRow([call[c] EXCEPT !.chunks[k].refused = v], c, k))
        /\ ShapeOf(c, NextRow(Imports(c, k, v, "rows"), c, k))
        /\ ShapeOf(c, NextRow(call[c], c, k))
    BY <1>3, <1>9
  <2> QED
    BY <1>0, <2>1, <2>2, BecomesIs, SubmittedShape
<1> QED
  BY <1>4, <1>5, <1>6, <1>7

LEMMA Neo4jImportShape ==
  ASSUME Base, Asked, Shaped, NEW c \in Clients, provider = "neo4j", ImportStep(c) \/ ImportTrouble(c)
  PROVE  ShapeOf(c, call'[c])
<1>0. Fits(c, call[c], c \in alive) /\ IsCall(call[c]) /\ Keeps /\ Requests
  BY DEF Base, Local, Fits
<1>1. CASE BeginImport(c)
  <2> DEFINE d == [Goes(c, "importing") EXCEPT !.chunks = [k \in DOMAIN request[c].chunks |-> NewChunk]]
  <2>1. Op(c) = "import" /\ Becomes(c, d)
    BY <1>1 DEF BeginImport
  <2>2. d.chunks = [k \in DOMAIN request[c].chunks |-> NewChunk]
    BY <1>0, GoesIs DEF IsCall, Fields
  <2> HIDE DEF d
  <2>3. \A k \in DOMAIN request[c].chunks : IsChunk(request[c].chunks[k])
    BY <1>0, <2>1, RequestOf DEF Asked, IsAskedWell, None
  <2>4. "row" \in DOMAIN NewChunk /\ NewChunk.row = 1
    BY DEF NewChunk
  <2>5. \A k \in DOMAIN request[c].chunks : 1 \in 1..Len(request[c].chunks[k])
    BY <2>3 DEF IsChunk
  <2>6. ShapeOf(c, d)
    BY <2>2, <2>4, <2>5 DEF ShapeOf, RowFits
  <2> QED
    BY <1>0, <2>1, <2>6, BecomesIs
<1>2. CASE EndImport(c)
  <2>1. call'[c].pc = "done"
    <3>1. PICK reply, v : Becomes(c, Replies(c, reply)) \/ Becomes(c, [Replies(c, reply) EXCEPT !.told = v])
      BY <1>2 DEF EndImport, Missing
    <3>2. Replies(c, reply).pc = "done" /\ [Replies(c, reply) EXCEPT !.told = v].pc = "done"
      BY <1>0, RepliesIs DEF IsCall, Fields
    <3> QED
      BY <1>0, <3>1, <3>2, BecomesIs
  <2> QED
    BY <2>1, DoneFits
<1> QED
  BY <1>1, <1>2, Neo4jChunkShape DEF ImportStep, ImportTrouble

-----------------------------------------------------------------------------
(* What becomes of a call.                                                 *)

\* In CosmosDB a call that writes does nothing else.
LEMMA CosmosWritesOnly ==
  ASSUME NEW c \in Clients, Fits(c, call[c], c \in alive), Op(c) \in Landing, provider = "cosmosdb",
         Step(c) \/ Trouble(c)
  PROVE  \/ Op(c) \in {"entity", "edge"} /\ (CheckAndAdd(c) \/ Land(c))
         \/ Op(c) = "save" /\ (Saves(c) \/ ReadVersion(c))
         \/ Op(c) = "import" /\ (CosmosImportStep(c) \/ CosmosImportTrouble(c))
         \/ Fails(c)
<1> USE DEF Fits, PcFits, Landing
<1>1. ~BeginDelete(c) /\ (ReadVersion(c) => Op(c) = "save")
  BY DEF BeginDelete, ReadVersion
<1>2. CosmosImportStep(c) \/ CosmosImportTrouble(c) => Op(c) = "import"
  BY DEF CosmosImportStep, CosmosImportTrouble, OpenImport, CloseImport
<1>3. ~Creates(c)
  BY DEF Creates, ProbeForCreate, WhyOccupied, WriteVocabulary, ReadIndexForCreate, WriteMarker
<1>4. ~Deletes(c)
  BY DEF Deletes, DropMarker, ProbeForDelete, NothingLeft, DrainEdges, SizeEntities,
         UnlessRecreated, DrainEntities, DrainVertices, CountRemaining, ReadIndexForDelete, RemoveFromIndex
<1>5. Writes(c) => Op(c) \in {"entity", "edge"} /\ (CheckAndAdd(c) \/ Land(c))
  BY DEF Writes, CheckAndAdd, Land, BeginRemove, RemoveChunk, ReadBatch, DropBatch, AssertMarker,
         DropEdgeBatch, ClearEntities
<1>6. Saves(c) => Op(c) = "save"
  BY DEF Saves, MatchVersion, CompareAndSet, WriteRecord, ReadState, EnsureRecord, PutRecord
<1> QED
  BY <1>1, <1>2, <1>3, <1>4, <1>5, <1>6 DEF Step, Trouble, CosmosStep

LEMMA Neo4jImportsOnly ==
  ASSUME NEW c \in Clients, Fits(c, call[c], c \in alive), Op(c) = "import", provider = "neo4j",
         Step(c) \/ Trouble(c)
  PROVE  ImportStep(c) \/ ImportTrouble(c) \/ Fails(c)
<1> USE DEF Fits, PcFits
<1>1. ~BeginDelete(c) /\ ~ReadVersion(c)
  BY DEF BeginDelete, ReadVersion
<1>2. /\ ~CreateRepository(c) /\ ~ReadRepositoryToken(c) /\ ~DetachMarker(c) /\ ~DrainRelationships(c)
      /\ ~DetachEntities(c) /\ ~DrainChangeLog(c) /\ ~SweepNodes(c) /\ ~DetachVocabulary(c)
      /\ ~AssertBeforeClear(c)
  BY DEF CreateRepository, ReadRepositoryToken, DetachMarker, DrainRelationships, DetachEntities,
         DrainChangeLog, SweepNodes, DetachVocabulary, AssertBeforeClear
<1>3. /\ ~AddItem(c) /\ ~ReadToken(c) /\ ~DeleteByIds(c) /\ ~DeleteTypeBatch(c)
      /\ ~DeleteEdgesOfPage(c) /\ ~SaveVocabulary(c) /\ ~ReadSaveOutcome(c)
  BY DEF AddItem, ReadToken, DeleteByIds, DeleteTypeBatch, DeleteEdgesOfPage, SaveVocabulary,
         ReadSaveOutcome
<1> QED
  BY <1>1, <1>2, <1>3 DEF Step, Trouble, Neo4jStep

\* The repository that a call has found, with what it becomes.
GateOf(cl, pc, gate) == cl.pc = pc /\ cl.gate = gate

LEMMA SubmittedGate ==
  ASSUME Keeps, NEW c \in Clients, IsCall(call[c]), NEW cl, NEW pc, Submitted(c, cl, pc)
  PROVE  \/ call'[c] = cl
         \/ GateOf(call'[c], pc, call[c].gate) /\ call'[c].resent = TRUE /\ call'[c].stood = call[c].stood
            /\ call'[c].reply = call[c].reply
<1> DEFINE again == [Goes(c, pc) EXCEPT !.resent = TRUE, !.stored = cl.stored,
                       !.recorded = cl.recorded, !.wrote = cl.wrote, !.took = cl.took,
                       !.caught = cl.caught]
<1>1. Becomes(c, cl) \/ Becomes(c, again)
  BY DEF Submitted
<1>2. GateOf(again, pc, call[c].gate) /\ again.resent = TRUE /\ again.stood = call[c].stood
      /\ again.reply = call[c].reply
  BY GoesIs DEF IsCall, Fields, GateOf
<1> HIDE DEF again
<1> QED
  BY <1>1, <1>2, BecomesIs

LEMMA CosmosAddsSteady ==
  ASSUME Base, Gated, NEW c \in Clients, CheckAndAdd(c) \/ Land(c), provider = "cosmosdb"
  PROVE  Steady(c)
<1>0. IsCall(call[c]) /\ Keeps /\ GateFits(c, call[c])
  BY DEF Base, Local, Fits, Gated
<1>1. ASSUME NEW reply, call'[c] = Replies(c, reply) PROVE Steady(c)
  BY <1>0, <1>1, RepliesIs, DoneFits DEF Steady, Fields
<1>2. CASE CheckAndAdd(c)
  <2> DEFINE d == [Goes(c, "land") EXCEPT !.gate = marker[Repo(c)]]
  <2>1. (\E reply : Becomes(c, Replies(c, reply))) \/ (Gate(c) /\ Becomes(c, d))
    BY <1>2 DEF CheckAndAdd, Missing
  <2>2. d.pc = "land" /\ d.gate = marker[Repo(c)]
    BY <1>0, GoesIs DEF IsCall, Fields
  <2> HIDE DEF d
  <2>3. CASE Gate(c) /\ Becomes(c, d)
    BY <1>0, <2>2, <2>3, BecomesIs DEF Steady, ShapeOf, GateFits, Gate
  <2> QED
    BY <1>0, <1>1, <2>1, <2>3, BecomesIs
<1>3. CASE Land(c)
  <2> DEFINE d == Created(c, call[c].gate)
  <2>1. (\E reply : Becomes(c, Replies(c, reply))) \/ Submitted(c, d, "again")
    BY <1>3 DEF Land
  <2>2. d.pc = "done" /\ d.gate = call[c].gate
    BY <1>0, RepliesIs DEF IsCall, Fields, Created
  <2> HIDE DEF d
  <2>3. ASSUME Submitted(c, d, "again") PROVE Steady(c)
    <3>1. call'[c] = d \/ GateOf(call'[c], "again", call[c].gate)
      BY <1>0, <2>3, SubmittedGate
    <3> QED
      BY <2>2, <3>1 DEF Steady, ShapeOf, GateFits, GateOf, Lands
  <2> QED
    BY <1>0, <1>1, <2>1, <2>3, BecomesIs
<1> QED
  BY <1>2, <1>3

LEMMA CosmosSavesSteady ==
  ASSUME Base, Gated, NEW c \in Clients, Saves(c) \/ ReadVersion(c), provider = "cosmosdb", Op(c) = "save"
  PROVE  Steady(c)
<1>0. IsCall(call[c]) /\ Keeps /\ GateFits(c, call[c])
  BY DEF Base, Local, Fits, Gated
<1>1. ASSUME NEW cl, call'[c] = cl, cl.gate = call[c].gate, cl.pc \in {"done", "state", "ensure", "match"}
      PROVE  Steady(c)
  BY <1>1 DEF Steady, ShapeOf, GateFits, Lands
<1>2. ASSUME NEW x PROVE /\ Replies(c, x).gate = call[c].gate /\ Replies(c, x).pc = "done"
                         /\ Goes(c, x).gate = call[c].gate /\ Goes(c, x).pc = x
  BY <1>0, RepliesIs, GoesIs DEF Fields
<1>3. CASE ReadVersion(c)
  <2>1. PICK v : \/ Becomes(c, Missing(c)) \/ Becomes(c, [Goes(c, "match") EXCEPT !.version = v])
                 \/ Becomes(c, Goes(c, "match")) \/ Becomes(c, Replies(c, "failed"))
    BY <1>3 DEF ReadVersion
  <2> DEFINE d == [Goes(c, "match") EXCEPT !.version = v]
  <2>2. d.gate = call[c].gate /\ d.pc = "match"
    BY <1>0, GoesIs DEF IsCall, Fields
  <2> HIDE DEF d
  <2>3. \/ Becomes(c, Missing(c)) \/ Becomes(c, d)
        \/ Becomes(c, Goes(c, "match")) \/ Becomes(c, Replies(c, "failed"))
    BY <2>1 DEF d
  <2> QED
    BY <1>0, <1>1, <1>2, <2>2, <2>3, BecomesIs DEF Missing
<1>4. CASE MatchVersion(c)
  <2> DEFINE matching == {v \in vocabulary[Repo(c)] : v.version = call[c].version}
             d == [Goes(c, "write") EXCEPT !.seen = matching, !.gate = marker[Repo(c)]]
  <2>1. (marker[Repo(c)] # None /\ Becomes(c, d)) \/ Becomes(c, Goes(c, "state"))
    BY <1>4 DEF MatchVersion
  <2> HIDE DEF matching
  <2>2. d.pc = "write" /\ d.gate = marker[Repo(c)]
    BY <1>0, GoesIs DEF IsCall, Fields
  <2> HIDE DEF d
  <2>3. CASE marker[Repo(c)] # None /\ Becomes(c, d)
    BY <1>0, <2>2, <2>3, BecomesIs DEF Steady, ShapeOf, GateFits
  <2> QED
    BY <1>0, <1>1, <1>2, <2>1, <2>3, BecomesIs
<1>5. ASSUME NEW cl, NEW pc, Submitted(c, cl, pc), cl.gate = call[c].gate, cl.pc = "done",
             pc \in {"match", "ensure"}
      PROVE  Steady(c)
  <2>1. call'[c] = cl \/ GateOf(call'[c], pc, call[c].gate)
    BY <1>0, <1>5, SubmittedGate
  <2> QED
    BY <1>1, <1>5, <2>1 DEF GateOf
<1>6. CASE CompareAndSet(c)
  <2> DEFINE d == [Goes(c, "record") EXCEPT !.stored = TRUE]
             e == [Replies(c, "failed") EXCEPT !.stored = TRUE]
  <2>1. Submitted(c, d, "match") \/ Becomes(c, e) \/ Becomes(c, Goes(c, "state"))
    BY <1>6 DEF CompareAndSet
  <2>2. /\ d.pc = "record" /\ d.gate = call[c].gate /\ e.pc = "done" /\ e.gate = call[c].gate
    BY <1>0, GoesIs, RepliesIs DEF IsCall, Fields
  <2>3. call[c].gate # None
    BY <1>0, <1>6 DEF CompareAndSet, GateFits, Lands, Landing
  <2> HIDE DEF d, e
  <2>4. ASSUME Submitted(c, d, "match") PROVE Steady(c)
    <3>1. call'[c] = d \/ GateOf(call'[c], "match", call[c].gate)
      BY <1>0, <2>4, SubmittedGate
    <3>2. CASE call'[c] = d
      BY <2>2, <2>3, <3>2 DEF Steady, ShapeOf, GateFits
    <3> QED
      BY <1>1, <3>1, <3>2 DEF GateOf
  <2> QED
    BY <1>0, <1>1, <1>2, <2>1, <2>2, <2>4, BecomesIs
<1>7. ASSUME NEW x
      PROVE  /\ [Replies(c, x) EXCEPT !.recorded = TRUE].pc = "done"
             /\ [Replies(c, x) EXCEPT !.recorded = TRUE].gate = call[c].gate
  BY <1>0, RepliesIs DEF IsCall, Fields
<1>8. CASE WriteRecord(c)
  <2> DEFINE d == [Replies(c, "saved") EXCEPT !.recorded = TRUE]
             e == [Goes(c, "match") EXCEPT !.resent = TRUE]
  <2>1. Submitted(c, d, "match") \/ Becomes(c, e)
    BY <1>8 DEF WriteRecord
  <2>2. e.pc = "match" /\ e.gate = call[c].gate /\ d.pc = "done" /\ d.gate = call[c].gate
    BY <1>0, <1>7, GoesIs DEF IsCall, Fields
  <2> HIDE DEF d, e
  <2> QED
    BY <1>0, <1>1, <1>5, <2>1, <2>2, BecomesIs
<1>9. CASE ReadState(c)
  BY <1>0, <1>1, <1>2, <1>9, BecomesIs DEF ReadState, Missing
<1>10. CASE EnsureRecord(c)
  <2> DEFINE d == [Goes(c, "complete") EXCEPT !.gate = marker[Repo(c)], !.seen = RecordOf(c)]
  <2>1. (marker[Repo(c)] # None /\ Becomes(c, d)) \/ Becomes(c, Missing(c))
    BY <1>10 DEF EnsureRecord, Gate
  <2>2. d.pc = "complete" /\ d.gate = marker[Repo(c)]
    BY <1>0, GoesIs DEF IsCall, Fields
  <2> HIDE DEF d
  <2>3. CASE marker[Repo(c)] # None /\ Becomes(c, d)
    BY <1>0, <2>2, <2>3, BecomesIs DEF Steady, ShapeOf, GateFits
  <2> QED
    BY <1>0, <1>1, <1>2, <2>1, <2>3, BecomesIs DEF Missing
<1>11. CASE PutRecord(c)
  <2> DEFINE d == [Replies(c, "saved") EXCEPT !.recorded = TRUE]
  <2>1. Submitted(c, d, "ensure") \/ Becomes(c, Replies(c, "failed"))
    BY <1>11 DEF PutRecord
  <2>2. d.pc = "done" /\ d.gate = call[c].gate
    BY <1>7
  <2> HIDE DEF d
  <2> QED
    BY <1>0, <1>1, <1>2, <1>5, <2>1, <2>2, BecomesIs
<1> QED
  BY <1>3, <1>4, <1>6, <1>8, <1>9, <1>10, <1>11 DEF Saves

LEMMA SteadyStep ==
  ASSUME Base, Gated, Shaped, Asked, NEW c \in Clients, Step(c) \/ Trouble(c), UNCHANGED provider
  PROVE  Steady(c)
<1>0. Fits(c, call[c], c \in alive) /\ IsCall(call[c]) /\ Keeps
  BY DEF Base, Local, Fits
<1>1. CASE Fails(c)
  BY <1>0, <1>1, EndsSteady DEF Fails
<1>2. Op(c) # "import" => ShapeOf(c, call'[c])
  <2>1. Good(c, call'[c])
    BY StepIs
  <2> QED
    BY <2>1 DEF Good, Fits, PcFits, ShapeOf
<1>3. CASE provider = "cosmosdb" /\ Op(c) \in Landing
  BY <1>0, <1>1, <1>3, CosmosWritesOnly, CosmosAddsSteady, CosmosSavesSteady, CosmosImportSteady
<1>4. CASE provider = "cosmosdb" /\ Op(c) \notin Landing
  BY <1>2, <1>4 DEF Steady, GateFits, Landing
<1>5. CASE provider = "neo4j"
  <2>1. Op(c) = "import" => ShapeOf(c, call'[c]) \/ Fails(c)
    BY <1>0, <1>5, Neo4jImportsOnly, Neo4jImportShape
  <2> QED
    BY <1>1, <1>2, <1>5, <2>1 DEF Steady, GateFits
<1>6. CASE provider = "sqlserver"
  BY <1>6 DEF Steady, GateFits, ShapeOf
<1> QED
  BY <1>3, <1>4, <1>5, <1>6 DEF Base, Requests

LEMMA PutsStep ==
  ASSUME Base, Gated, Shaped, Asked, NEW c \in Clients, Step(c) \/ Trouble(c)
  PROVE  Puts(c)
BY CommonPuts, CosmosPuts, CosmosImportPuts, Neo4jPuts, SqlPuts DEF Step, Trouble

-----------------------------------------------------------------------------
(* What becomes of the markers, and of the creates that write them.        *)

\* A create that may have written its marker.
Spends(cl) == cl.pc \in {"seed", "done"} \/ cl.resent

\* A create that has found the partition empty.
Prepared == {"vocabulary", "listing", "marker"}

\* A marker goes with a delete and comes with a create, of which it is the only one unless
\* the create was sent again.
Drops(c, r) == marker'[r] = None /\ Op(c) = "delete" /\ call[c].pc = "drop"

Makes(c, r) ==
  /\ Op(c) = "create" /\ marker[r] = None /\ marker'[r] = c /\ UNCHANGED data
  /\ Spends(call'[c]) /\ (Spends(call[c]) => call'[c].resent)
  /\ provider = "cosmosdb" => call[c].pc = "marker"
  /\ provider = "neo4j" => vocabulary[r] = {} /\ Entities(r) = {}

Marks(c) ==
  \A r \in Repositories : marker'[r] = marker[r] \/ (r = Repo(c) /\ (Drops(c, r) \/ Makes(c, r)))

CreateMoves(c) ==
  Op(c) = "create" =>
    /\ call[c].resent => call'[c].resent
    /\ Spends(call[c]) => Spends(call'[c])
    /\ provider = "cosmosdb" /\ call'[c].pc \in Prepared =>
         call[c].pc \in Prepared \/ (UNCHANGED <<marker, data>> /\ ~Occupied(Repo(c)))

LEMMA ReplyKeeps ==
  ASSUME Keeps, NEW c \in Clients, IsCall(call[c]), NEW reply, Becomes(c, Replies(c, reply))
  PROVE  /\ call'[c].pc = "done" /\ call'[c].reply = reply
         /\ call'[c].resent = call[c].resent /\ call'[c].stood = call[c].stood
BY RepliesIs, BecomesIs DEF Fields

LEMMA GoKeeps ==
  ASSUME Keeps, NEW c \in Clients, IsCall(call[c]), NEW pc, Becomes(c, Goes(c, pc))
  PROVE  /\ call'[c].pc = pc /\ call'[c].reply = call[c].reply
         /\ call'[c].resent = call[c].resent /\ call'[c].stood = call[c].stood
BY GoesIs, BecomesIs DEF Fields

\* A call that asks for its next request, or is back where it was.
LEMMA SubmittedKeeps ==
  ASSUME Keeps, NEW c \in Clients, IsCall(call[c]), NEW cl, NEW pc, Submitted(c, cl, pc),
         cl.stood = call[c].stood, cl.resent = call[c].resent
  PROVE  /\ call'[c].stood = call[c].stood
         /\ \/ call'[c].pc = cl.pc /\ call'[c].reply = cl.reply /\ call'[c].resent = call[c].resent
            \/ call'[c].pc = pc /\ call'[c].reply = call[c].reply /\ call'[c].resent = TRUE
BY SubmittedGate DEF GateOf

LEMMA SubmittedReply ==
  ASSUME Keeps, NEW c \in Clients, IsCall(call[c]), NEW reply, NEW pc, Submitted(c, Replies(c, reply), pc)
  PROVE  /\ call'[c].stood = call[c].stood
         /\ \/ call'[c].pc = "done" /\ call'[c].reply = reply /\ call'[c].resent = call[c].resent
            \/ call'[c].pc = pc /\ call'[c].reply = call[c].reply /\ call'[c].resent = TRUE
<1> DEFINE d == Replies(c, reply)
<1>1. d.pc = "done" /\ d.reply = reply /\ d.stood = call[c].stood /\ d.resent = call[c].resent
  BY RepliesIs DEF Fields
<1> HIDE DEF d
<1>2. Submitted(c, d, pc)
  BY DEF d
<1> QED
  BY <1>1, <1>2, SubmittedKeeps

LEMMA SubmittedGo ==
  ASSUME Keeps, NEW c \in Clients, IsCall(call[c]), NEW x, NEW pc, Submitted(c, Goes(c, x), pc)
  PROVE  /\ call'[c].stood = call[c].stood /\ call'[c].reply = call[c].reply
         /\ \/ call'[c].pc = x /\ call'[c].resent = call[c].resent
            \/ call'[c].pc = pc /\ call'[c].resent = TRUE
<1> DEFINE d == Goes(c, x)
<1>1. d.pc = x /\ d.reply = call[c].reply /\ d.stood = call[c].stood /\ d.resent = call[c].resent
  BY GoesIs DEF Fields
<1> HIDE DEF d
<1>2. Submitted(c, d, pc)
  BY DEF d
<1> QED
  BY <1>1, <1>2, SubmittedKeeps

LEMMA MarksNothing ==
  ASSUME NEW c, UNCHANGED marker
  PROVE  Marks(c)
BY DEF Marks

\* A step that writes no marker.
LEMMA CreateGoes ==
  ASSUME NEW c, UNCHANGED marker,
         \/ call'[c].resent = TRUE
         \/ call'[c].resent = call[c].resent /\ call'[c].pc = "done"
         \/ call'[c].resent = call[c].resent /\ call[c].pc \notin {"seed", "done"},
         \/ call'[c].pc \notin Prepared \/ call[c].pc \in Prepared \/ provider # "cosmosdb"
         \/ (UNCHANGED <<marker, data>> /\ ~Occupied(Repo(c)))
  PROVE  Marks(c) /\ CreateMoves(c)
BY MarksNothing DEF CreateMoves, Spends

\* A step that writes one.
LEMMA CreateMarks ==
  ASSUME Keeps, NEW c, Op(c) = "create", Repo(c) \in Repositories, marker[Repo(c)] = None,
         marker' = [marker EXCEPT ![Repo(c)] = c], UNCHANGED data,
         call[c].pc \notin {"seed", "done"},
         \/ call'[c].resent = TRUE
         \/ call'[c].resent = call[c].resent /\ call'[c].pc \in {"seed", "done"},
         provider = "cosmosdb" => call[c].pc = "marker",
         provider = "neo4j" => vocabulary[Repo(c)] = {} /\ Entities(Repo(c)) = {}
  PROVE  Marks(c) /\ CreateMoves(c)
<1>1. marker'[Repo(c)] = c /\ \A r \in Repositories : r # Repo(c) => marker'[r] = marker[r]
  BY DEF Keeps
<1>2. Makes(c, Repo(c))
  BY <1>1 DEF Makes, Spends
<1>3. CreateMoves(c)
  BY DEF CreateMoves, Spends, Prepared
<1> QED
  BY <1>1, <1>2, <1>3 DEF Marks

LEMMA CosmosCreateMarks ==
  ASSUME Base, NEW c \in Clients, Op(c) = "create", Creates(c) \/ Fails(c), provider = "cosmosdb"
  PROVE  Marks(c) /\ CreateMoves(c)
<1>0. Fits(c, call[c], c \in alive) /\ IsCall(call[c]) /\ Keeps /\ Repo(c) \in Repositories
  BY RequestOf DEF Base, Local, Fits, None
<1>1. CASE Fails(c)
  BY <1>0, <1>1, ReplyKeeps, CreateGoes DEF Fails, store, Prepared
<1>2. CASE ProbeForCreate(c)
  <2>1. UNCHANGED <<marker, data>> /\ call[c].pc = "idle"
    BY <1>2 DEF ProbeForCreate, store
  <2>2. Becomes(c, Goes(c, "which")) \/ (~Occupied(Repo(c)) /\ Becomes(c, Goes(c, "vocabulary")))
    BY <1>2 DEF ProbeForCreate
  <2>3. /\ call'[c].resent = call[c].resent
        /\ call'[c].pc = "which" \/ ~Occupied(Repo(c))
    BY <1>0, <2>2, GoKeeps
  <2> QED
    BY <2>1, <2>3, CreateGoes DEF Prepared
<1>3. CASE WhyOccupied(c)
  BY <1>0, <1>3, ReplyKeeps, CreateGoes DEF WhyOccupied, store, Prepared
<1>4. CASE ReadIndexForCreate(c)
  <2> DEFINE d == [Goes(c, "marker") EXCEPT !.seen = index]
  <2>1. d.resent = call[c].resent
    BY <1>0, GoesIs DEF IsCall, Fields
  <2> HIDE DEF d
  <2>2. call'[c] = d
    BY <1>0, <1>4, BecomesIs DEF ReadIndexForCreate, d
  <2> QED
    BY <1>4, <2>1, <2>2, CreateGoes DEF ReadIndexForCreate, store, Prepared
<1>5. CASE WriteVocabulary(c)
  <2>1. UNCHANGED marker /\ call[c].pc = "vocabulary"
    BY <1>5 DEF WriteVocabulary
  <2>2. CASE Submitted(c, Goes(c, "listing"), "vocabulary")
    <3>1. call'[c].resent = TRUE \/ call'[c].resent = call[c].resent
      BY <1>0, <2>2, SubmittedGo
    <3> QED
      BY <2>1, <3>1, CreateGoes DEF Prepared
  <2>3. CASE Becomes(c, Replies(c, "duplicate"))
    BY <1>0, <2>1, <2>3, ReplyKeeps, CreateGoes DEF Prepared
  <2> QED
    BY <1>5, <2>2, <2>3 DEF WriteVocabulary
<1>6. CASE WriteMarker(c)
  <2>1. UNCHANGED data /\ call[c].pc = "marker"
    BY <1>6 DEF WriteMarker
  <2>2. CASE Becomes(c, Replies(c, "duplicate")) /\ UNCHANGED marker
    BY <1>0, <2>1, <2>2, ReplyKeeps, CreateGoes DEF Prepared
  <2>3. CASE /\ marker[Repo(c)] = None /\ marker' = [marker EXCEPT ![Repo(c)] = c]
             /\ Submitted(c, Replies(c, "created"), "marker") \/ Becomes(c, Replies(c, "failed"))
    <3>1. call'[c].resent = TRUE \/ (call'[c].resent = call[c].resent /\ call'[c].pc = "done")
      BY <1>0, <2>3, SubmittedReply, ReplyKeeps
    <3> QED
      BY <1>0, <2>1, <2>3, <3>1, CreateMarks
  <2> QED
    BY <1>6, <2>2, <2>3 DEF WriteMarker
<1> QED
  BY <1>1, <1>2, <1>3, <1>4, <1>5, <1>6 DEF Creates

LEMMA Neo4jCreatesOnly ==
  ASSUME NEW c \in Clients, Fits(c, call[c], c \in alive), Op(c) = "create", provider = "neo4j",
         Step(c) \/ Trouble(c)
  PROVE  CreateRepository(c) \/ ReadRepositoryToken(c) \/ Fails(c)
<1> USE DEF Fits, PcFits
<1>1. ~BeginDelete(c) /\ ~ReadVersion(c)
  BY DEF BeginDelete, ReadVersion
<1>2. /\ ~DetachMarker(c) /\ ~DrainRelationships(c) /\ ~DetachEntities(c) /\ ~DrainChangeLog(c)
      /\ ~SweepNodes(c) /\ ~DetachVocabulary(c) /\ ~AssertBeforeClear(c)
  BY DEF DetachMarker, DrainRelationships, DetachEntities, DrainChangeLog, SweepNodes,
         DetachVocabulary, AssertBeforeClear
<1>3. /\ ~AddItem(c) /\ ~ReadToken(c) /\ ~DeleteByIds(c) /\ ~DeleteTypeBatch(c)
      /\ ~DeleteEdgesOfPage(c) /\ ~SaveVocabulary(c) /\ ~ReadSaveOutcome(c)
  BY DEF AddItem, ReadToken, DeleteByIds, DeleteTypeBatch, DeleteEdgesOfPage, SaveVocabulary,
         ReadSaveOutcome
<1>4. ~ImportStep(c) /\ ~ImportTrouble(c)
  BY DEF ImportStep, ImportTrouble, BeginImport, EndImport
<1> QED
  BY <1>1, <1>2, <1>3, <1>4 DEF Step, Trouble, Neo4jStep

LEMMA Neo4jCreateMarks ==
  ASSUME Base, NEW c \in Clients, Op(c) = "create", provider = "neo4j",
         CreateRepository(c) \/ ReadRepositoryToken(c) \/ Fails(c)
  PROVE  Marks(c) /\ CreateMoves(c)
<1>0. Fits(c, call[c], c \in alive) /\ IsCall(call[c]) /\ Keeps /\ Repo(c) \in Repositories
  BY RequestOf DEF Base, Local, Fits, None
<1>1. CASE Fails(c) \/ ReadRepositoryToken(c)
  BY <1>0, <1>1, ReplyKeeps, CreateGoes DEF Fails, ReadRepositoryToken, ByToken, store, Unmarked, Prepared
<1>2. CASE CreateRepository(c)
  <2>1. UNCHANGED data /\ call[c].pc \in {"idle", "again"}
    BY <1>2 DEF CreateRepository
  <2>2. CASE /\ marker[Repo(c)] = None /\ ~Leftovers(Repo(c)) /\ marker' = [marker EXCEPT ![Repo(c)] = c]
             /\ Submitted(c, Replies(c, "created"), "again")
    <3>1. call'[c].resent = TRUE \/ (call'[c].resent = call[c].resent /\ call'[c].pc = "done")
      BY <1>0, <2>2, SubmittedReply
    <3> QED
      BY <1>0, <2>1, <2>2, <3>1, CreateMarks DEF Leftovers
  <2>3. CASE UNCHANGED marker /\ ((\E reply : Becomes(c, Replies(c, reply))) \/ Becomes(c, Goes(c, "marker token")))
    BY <1>0, <2>1, <2>3, ReplyKeeps, GoKeeps, CreateGoes
  <2> QED
    BY <1>2, <2>2, <2>3 DEF CreateRepository, Leftovers, ByToken
<1> QED
  BY <1>1, <1>2

LEMMA AnsweredKeeps ==
  ASSUME Keeps, NEW c \in Clients, IsCall(call[c]), NEW cl, Answered(c, cl)
  PROVE  \/ call'[c] = cl
         \/ /\ call'[c].pc = "done" /\ call'[c].reply = "failed"
            /\ call'[c].resent = call[c].resent /\ call'[c].stood = call[c].stood
<1> DEFINE lost == [Replies(c, "failed") EXCEPT !.stored = cl.stored, !.recorded = cl.recorded]
<1>1. Becomes(c, cl) \/ Becomes(c, lost)
  BY DEF Answered
<1>2. lost.pc = "done" /\ lost.reply = "failed" /\ lost.resent = call[c].resent /\ lost.stood = call[c].stood
  BY RepliesIs DEF IsCall, Fields
<1> HIDE DEF lost
<1> QED
  BY <1>1, <1>2, BecomesIs

LEMMA SqlCreateMarks ==
  ASSUME Base, NEW c \in Clients, Op(c) = "create", provider = "sqlserver",
         LookForRepository(c) \/ InsertRepository(c) \/ InsertVocabulary(c) \/ Fails(c)
  PROVE  Marks(c) /\ CreateMoves(c)
<1>0. Fits(c, call[c], c \in alive) /\ IsCall(call[c]) /\ Keeps /\ Repo(c) \in Repositories
  BY RequestOf DEF Base, Local, Fits, None
<1>1. CASE Fails(c)
  BY <1>0, <1>1, ReplyKeeps, CreateGoes DEF Fails, store
<1>2. CASE LookForRepository(c)
  <2>1. UNCHANGED marker /\ call[c].pc = "idle"
        /\ (Becomes(c, Replies(c, "duplicate")) \/ Becomes(c, Goes(c, "repository")))
    BY <1>2 DEF LookForRepository, store, Unchanged
  <2> QED
    BY <1>0, <2>1, ReplyKeeps, GoKeeps, CreateGoes
<1>3. CASE InsertRepository(c)
  <2>1. UNCHANGED data /\ call[c].pc = "repository"
    BY <1>3 DEF InsertRepository
  <2>2. CASE marker[Repo(c)] = None /\ marker' = [marker EXCEPT ![Repo(c)] = c] /\ Answered(c, Goes(c, "seed"))
    <3>1. call'[c].resent = call[c].resent /\ call'[c].pc \in {"seed", "done"}
      BY <1>0, <2>2, AnsweredKeeps, GoesIs DEF Fields
    <3> QED
      BY <1>0, <2>1, <2>2, <3>1, CreateMarks
  <2>3. CASE UNCHANGED marker /\ Becomes(c, Replies(c, "duplicate"))
    BY <1>0, <2>1, <2>3, ReplyKeeps, CreateGoes
  <2> QED
    BY <1>3, <2>2, <2>3 DEF InsertRepository
<1>4. CASE InsertVocabulary(c)
  <2>1. UNCHANGED marker /\ (Answered(c, Replies(c, "created")) \/ Becomes(c, Replies(c, "failed")))
    BY <1>4 DEF InsertVocabulary
  <2>2. call'[c].resent = call[c].resent /\ call'[c].pc = "done"
    BY <1>0, <2>1, AnsweredKeeps, ReplyKeeps, RepliesIs DEF Fields
  <2> QED
    BY <2>1, <2>2, CreateGoes
<1> QED
  BY <1>1, <1>2, <1>3, <1>4

-----------------------------------------------------------------------------
(* What becomes of the deletes.                                            *)

\* A delete that has dropped the marker, and one that has nothing left to drain.
Past(cl) == cl.pc \notin {"idle", "drop"} /\ cl.reply # "failed"

Finished(cl) == cl.pc \in {"anything", "unlist", "entry", "cleanup", "last"} \/ cl.reply \in {"deleted", "not_found"}

StoodDown(c) ==
  provider = "cosmosdb" /\ marker[Repo(c)] # None /\ Past(call[c]) /\ UNCHANGED <<marker, data, late>>

DeleteMoves(c) ==
  Op(c) = "delete" =>
    /\ \/ call'[c].stood = call[c].stood
       \/ call[c].pc = "idle" /\ call'[c].stood = Standing(Repo(c)) /\ call'[c].pc = "drop"
    /\ Past(call'[c]) => Past(call[c]) \/ marker'[Repo(c)] = None
    /\ Finished(call'[c]) => Finished(call[c]) \/ data'[Repo(c)] = {} \/ StoodDown(c)
    /\ provider = "neo4j" /\ call'[c].pc = "last" => call[c].pc = "last" \/ data'[Repo(c)] = {}

LEMMA DeleteGoes ==
  ASSUME NEW c, UNCHANGED marker, call[c].pc \notin {"idle", "drop"}, call[c].reply = None,
         call'[c].stood = call[c].stood,
         Finished(call'[c]) =>
           (Finished(call[c]) /\ (call'[c].pc = "last" => call[c].pc = "last")) \/ data'[Repo(c)] = {}
           \/ (StoodDown(c) /\ call'[c].pc = "done")
  PROVE  Marks(c) /\ DeleteMoves(c)
<1>1. Past(call[c])
  BY DEF Past, None
<1>2. call'[c].pc = "last" => Finished(call'[c])
  BY DEF Finished
<1> QED
  BY <1>1, <1>2, MarksNothing DEF DeleteMoves

\* A delete that goes on draining, or fails.
LEMMA DeleteDrains ==
  ASSUME NEW c, UNCHANGED marker, call[c].pc \notin {"idle", "drop"}, call[c].reply = None,
         call'[c].stood = call[c].stood,
         \/ call'[c].pc \notin {"anything", "unlist", "entry", "cleanup", "last"} /\ call'[c].reply = None
         \/ call'[c].pc = "done" /\ call'[c].reply = "failed"
  PROVE  Marks(c) /\ DeleteMoves(c)
BY DeleteGoes DEF Finished, None

LEMMA DeleteDrops ==
  ASSUME Keeps, NEW c, Op(c) = "delete", call[c].pc = "drop", marker' = [marker EXCEPT ![Repo(c)] = None],
         Repo(c) \in Repositories, call'[c].stood = call[c].stood,
         Finished(call'[c]) => data'[Repo(c)] = {}
  PROVE  Marks(c) /\ DeleteMoves(c)
<1>1. marker'[Repo(c)] = None /\ \A r \in Repositories : r # Repo(c) => marker'[r] = marker[r]
  BY DEF Keeps
<1>2. call'[c].pc = "last" => Finished(call'[c])
  BY DEF Finished
<1>3. Marks(c)
  BY <1>1 DEF Marks, Drops
<1> QED
  BY <1>1, <1>2, <1>3 DEF DeleteMoves

LEMMA DeleteCommon ==
  ASSUME Base, NEW c \in Clients, Op(c) = "delete", BeginDelete(c) \/ Fails(c)
  PROVE  Marks(c) /\ DeleteMoves(c)
<1>0. Fits(c, call[c], c \in alive) /\ IsCall(call[c]) /\ Keeps
  BY DEF Base, Local, Fits
<1>1. CASE BeginDelete(c)
  <2> DEFINE d(events) == [Goes(c, "drop") EXCEPT !.stood = Standing(Repo(c)), !.events = events]
  <2>1. PICK events : Becomes(c, d(events))
    BY <1>1 DEF BeginDelete
  <2>2. d(events).pc = "drop" /\ d(events).stood = Standing(Repo(c)) /\ d(events).reply = call[c].reply
    BY <1>0, GoesIs DEF IsCall, Fields
  <2> HIDE DEF d
  <2>3. call[c].reply = None /\ call[c].pc = "idle" /\ UNCHANGED marker
    BY <1>0, <1>1 DEF BeginDelete, Fits, store
  <2>4. call'[c].pc = "drop" /\ call'[c].stood = Standing(Repo(c)) /\ call'[c].reply = None
    BY <1>0, <2>1, <2>2, <2>3, BecomesIs
  <2> QED
    BY <2>3, <2>4, MarksNothing DEF DeleteMoves, Past, Finished, None
<1>2. CASE Fails(c)
  <2>1. call'[c].pc = "done" /\ call'[c].reply = "failed" /\ call'[c].stood = call[c].stood
    BY <1>0, <1>2, ReplyKeeps DEF Fails
  <2> QED
    BY <1>2, <2>1, MarksNothing DEF Fails, DeleteMoves, Past, Finished, store
<1> QED
  BY <1>1, <1>2

LEMMA EmptyGraph ==
  ASSUME NEW r, IsGraph(data[r]), Vertices(r) = {}
  PROVE  data[r] = {}
BY DEF IsGraph, Vertices, IdsOf

\* Nothing that a delete does to its call changes what it stood before.
LEMMA CompletedKeeps ==
  ASSUME NEW c, IsCall(call[c])
  PROVE  /\ Completed(call[c]).stood = call[c].stood /\ Completed(call[c]).resent = call[c].resent
         /\ Completed(call[c]).pc = "done" /\ Completed(call[c]).reply = "deleted"
BY DEF Completed, IsCall, Fields

LEMMA CatchesKeeps ==
  ASSUME NEW c, NEW cl, IsCall(cl), NEW batch
  PROVE  /\ Catches(c, cl, batch).stood = cl.stood /\ Catches(c, cl, batch).resent = cl.resent
         /\ Catches(c, cl, batch).pc = cl.pc /\ Catches(c, cl, batch).reply = cl.reply
<1>1. \A v : /\ [cl EXCEPT !.caught = v].stood = cl.stood /\ [cl EXCEPT !.caught = v].resent = cl.resent
             /\ [cl EXCEPT !.caught = v].pc = cl.pc /\ [cl EXCEPT !.caught = v].reply = cl.reply
  BY DEF IsCall, Fields
<1> QED
  BY <1>1 DEF Catches

LEMMA CosmosDeleteMoves ==
  ASSUME Base, NEW c \in Clients, Op(c) = "delete", Deletes(c), provider = "cosmosdb",
         IsGraph(data[Repo(c)])
  PROVE  Marks(c) /\ DeleteMoves(c)
<1>0. /\ Fits(c, call[c], c \in alive) /\ IsCall(call[c]) /\ Keeps /\ Repo(c) \in Repositories
  BY RequestOf DEF Base, Local, Fits, None
<1>a. call[c].pc # "done" => call[c].reply = None
  BY <1>0 DEF Fits
<1>1. CASE DropMarker(c)
  <2> DEFINE d == [Goes(c, "probe") EXCEPT !.gate = marker[Repo(c)]]
  <2>1. d.pc = "probe" /\ d.reply = call[c].reply /\ d.stood = call[c].stood /\ d.resent = call[c].resent
    BY <1>0, GoesIs DEF IsCall, Fields
  <2> HIDE DEF d
  <2>2. /\ call[c].pc = "drop" /\ marker' = [marker EXCEPT ![Repo(c)] = None] /\ Submitted(c, d, "drop")
    BY <1>1 DEF DropMarker, d
  <2>3. /\ call'[c].stood = call[c].stood /\ call'[c].reply = None /\ call'[c].pc \in {"probe", "drop"}
    BY <1>0, <1>a, <2>1, <2>2, SubmittedKeeps
  <2> QED
    BY <1>0, <2>2, <2>3, DeleteDrops DEF Finished, None
<1>2. CASE ProbeForDelete(c)
  <2>1. call[c].pc = "probe" /\ UNCHANGED <<marker, data>>
    BY <1>2 DEF ProbeForDelete, store
  <2>2. \/ Becomes(c, Goes(c, "edges"))
        \/ ~Occupied(Repo(c)) /\ \E x \in {"anything", "unlist"} : Becomes(c, Goes(c, x))
    BY <1>2 DEF ProbeForDelete
  <2>3. ~Occupied(Repo(c)) => data[Repo(c)] = {}
    BY EmptyGraph DEF Occupied
  <2>4. /\ call'[c].stood = call[c].stood /\ call'[c].reply = None
        /\ call'[c].pc = "edges" \/ (data[Repo(c)] = {} /\ call'[c].pc \in {"anything", "unlist"})
    BY <1>0, <1>a, <2>1, <2>2, <2>3, GoKeeps
  <2> QED
    BY <1>a, <2>1, <2>4, DeleteGoes DEF Finished, None
<1>3. CASE NothingLeft(c)
  <2> DEFINE d == [Goes(c, "entry") EXCEPT !.seen = index]
  <2>1. d.stood = call[c].stood /\ d.pc = "entry"
    BY <1>0, GoesIs DEF IsCall, Fields
  <2> HIDE DEF d
  <2>2. call[c].pc = "anything" /\ UNCHANGED marker /\ (Becomes(c, d) \/ Becomes(c, Replies(c, "not_found")))
    BY <1>3 DEF NothingLeft, store, d
  <2>3. call'[c].stood = call[c].stood /\ call'[c].pc \in {"entry", "done"}
    BY <1>0, <2>1, <2>2, ReplyKeeps, BecomesIs
  <2> QED
    BY <1>a, <2>2, <2>3, DeleteGoes DEF Finished
<1>4. CASE DrainEdges(c)
  <2> DEFINE d == [call[c] EXCEPT !.events = Progressed(call[c])]
  <2>1. d.pc = call[c].pc /\ d.reply = call[c].reply /\ d.stood = call[c].stood /\ d.resent = call[c].resent
    BY <1>0 DEF IsCall, Fields
  <2> HIDE DEF d
  <2>2. call[c].pc = "edges" /\ UNCHANGED marker /\ (Submitted(c, d, "edges") \/ Becomes(c, Goes(c, "entities")))
    BY <1>4 DEF DrainEdges, d
  <2>3. call'[c].stood = call[c].stood /\ call'[c].reply = None /\ call'[c].pc \in {"edges", "entities"}
    <3>1. CASE Submitted(c, d, "edges")
      <4>1. /\ call'[c].stood = call[c].stood
            /\ \/ call'[c].pc = d.pc /\ call'[c].reply = d.reply
               \/ call'[c].pc = "edges" /\ call'[c].reply = call[c].reply
        BY <1>0, <2>1, <3>1, SubmittedKeeps
      <4> QED
        BY <1>a, <2>1, <2>2, <4>1
    <3>2. CASE Becomes(c, Goes(c, "entities"))
      BY <1>0, <1>a, <2>2, <3>2, GoKeeps
    <3> QED
      BY <2>2, <3>1, <3>2
  <2> QED
    BY <1>a, <2>2, <2>3, DeleteDrains
<1>5. CASE SizeEntities(c)
  <2>1. /\ call[c].pc = "entities" /\ UNCHANGED marker
        /\ Becomes(c, Goes(c, "vertices")) \/ Becomes(c, Goes(c, "drain"))
    BY <1>5 DEF SizeEntities, store
  <2>2. call'[c].stood = call[c].stood /\ call'[c].reply = None /\ call'[c].pc \in {"vertices", "drain"}
    BY <1>0, <1>a, <2>1, GoKeeps
  <2> QED
    BY <1>a, <2>1, <2>2, DeleteDrains
<1>6. CASE UnlessRecreated(c)
  <2>0. UNCHANGED <<marker, data, late>> /\ call[c].pc \in {"drain", "vertices", "entry"}
    BY <1>6 DEF UnlessRecreated, store
  <2> DEFINE behind == [Goes(c, Behind(call[c].pc)) EXCEPT !.gate = marker[Repo(c)]]
  <2>1. (Recreated(Repo(c)) /\ Becomes(c, StandsDown(call[c]))) \/ Becomes(c, behind)
    BY <1>6 DEF UnlessRecreated
  <2>2. /\ behind.stood = call[c].stood /\ behind.reply = call[c].reply
        /\ behind.pc \in {"entity batch", "vertex batch"} \/ (behind.pc = "cleanup" /\ call[c].pc = "entry")
    <3>1. Behind(call[c].pc) \in {"entity batch", "vertex batch"}
          \/ (Behind(call[c].pc) = "cleanup" /\ call[c].pc = "entry")
      BY <2>0 DEF Behind
    <3>2. PICK pc : pc = Behind(call[c].pc)
      OBVIOUS
    <3>3. behind = [Goes(c, pc) EXCEPT !.gate = marker[Repo(c)]]
      BY <3>2
    <3> HIDE DEF behind
    <3>4. behind.pc = pc /\ behind.stood = call[c].stood /\ behind.reply = call[c].reply
      BY <1>0, <3>3, GoesIs DEF IsCall, Fields
    <3> QED
      BY <3>1, <3>2, <3>4
  <2> HIDE DEF behind
  <2>3. CASE Recreated(Repo(c)) /\ Becomes(c, StandsDown(call[c]))
    <3>1. call'[c].stood = call[c].stood /\ call'[c].pc = "done"
      BY <1>0, <2>3, CompletedKeeps, BecomesIs DEF StandsDown
    <3>2. StoodDown(c)
      BY <1>a, <2>0, <2>3 DEF StoodDown, Recreated, Past, None
    <3> QED
      BY <1>a, <2>0, <3>1, <3>2, DeleteGoes
  <2>4. CASE Becomes(c, behind)
    <3>1. /\ call'[c].stood = call[c].stood /\ call'[c].reply = None
          /\ \/ call'[c].pc \in {"entity batch", "vertex batch"}
             \/ call'[c].pc = "cleanup" /\ call[c].pc = "entry"
      BY <1>0, <1>a, <2>0, <2>2, <2>4, BecomesIs
    <3> QED
      BY <1>a, <2>0, <3>1, DeleteGoes DEF Finished, None
  <2> QED
    BY <2>1, <2>3, <2>4
<1>7. CASE DrainEntities(c)
  <2> DEFINE went == [Goes(c, "entities") EXCEPT !.events = Progressed(call[c])]
  <2>1. IsCall(went) /\ went.pc = "entities" /\ went.reply = call[c].reply /\ went.stood = call[c].stood
        /\ went.resent = call[c].resent
    BY <1>0, GoesIs DEF IsCall, Fields
  <2>2. PICK batch : Submitted(c, Catches(c, went, batch), "drain")
    BY <1>7 DEF DrainEntities
  <2>3. call[c].pc = "entity batch" /\ UNCHANGED marker
    BY <1>7 DEF DrainEntities
  <2> HIDE DEF went
  <2>4. PICK d : /\ Submitted(c, d, "drain") /\ d.pc = "entities" /\ d.reply = call[c].reply
                 /\ d.stood = call[c].stood /\ d.resent = call[c].resent
    BY <2>1, <2>2, CatchesKeeps
  <2>5. call'[c].stood = call[c].stood /\ call'[c].reply = None /\ call'[c].pc \in {"drain", "entities"}
    BY <1>0, <1>a, <2>3, <2>4, SubmittedKeeps
  <2> QED
    BY <1>a, <2>3, <2>5, DeleteDrains
<1>8. CASE DrainVertices(c)
  <2> DEFINE went == Goes(c, "remaining")
  <2>1. IsCall(went) /\ went.pc = "remaining" /\ went.reply = call[c].reply /\ went.stood = call[c].stood
        /\ went.resent = call[c].resent
    BY <1>0, GoesIs DEF Fields
  <2>2. PICK batch : Submitted(c, Catches(c, went, batch), "vertices")
    BY <1>8 DEF DrainVertices
  <2>3. call[c].pc = "vertex batch" /\ UNCHANGED marker
    BY <1>8 DEF DrainVertices
  <2> HIDE DEF went
  <2>4. PICK d : /\ Submitted(c, d, "vertices") /\ d.pc = "remaining" /\ d.reply = call[c].reply
                 /\ d.stood = call[c].stood /\ d.resent = call[c].resent
    BY <2>1, <2>2, CatchesKeeps
  <2>5. call'[c].stood = call[c].stood /\ call'[c].reply = None /\ call'[c].pc \in {"remaining", "vertices"}
    BY <1>0, <1>a, <2>3, <2>4, SubmittedKeeps
  <2> QED
    BY <1>a, <2>3, <2>5, DeleteDrains
<1>9. CASE CountRemaining(c)
  <2>1. call[c].pc = "remaining" /\ UNCHANGED <<marker, data>>
    BY <1>9 DEF CountRemaining, store
  <2>2. Becomes(c, Goes(c, "vertices")) \/ (~Occupied(Repo(c)) /\ Becomes(c, Goes(c, "unlist")))
    BY <1>9 DEF CountRemaining
  <2>3. ~Occupied(Repo(c)) => data[Repo(c)] = {}
    BY EmptyGraph DEF Occupied
  <2>4. /\ call'[c].stood = call[c].stood /\ call'[c].reply = None
        /\ call'[c].pc = "vertices" \/ (data[Repo(c)] = {} /\ call'[c].pc = "unlist")
    BY <1>0, <1>a, <2>1, <2>2, <2>3, GoKeeps
  <2> QED
    BY <1>a, <2>1, <2>4, DeleteGoes DEF Finished, None
<1>10. CASE ReadIndexForDelete(c)
  <2> DEFINE d == [Goes(c, "entry") EXCEPT !.seen = index]
  <2>1. d.stood = call[c].stood /\ d.pc = "entry"
    BY <1>0, GoesIs DEF IsCall, Fields
  <2> HIDE DEF d
  <2>2. call[c].pc = "unlist" /\ UNCHANGED marker /\ (Becomes(c, d) \/ Becomes(c, Completed(call[c])))
    BY <1>10 DEF ReadIndexForDelete, store, d
  <2>3. call'[c].stood = call[c].stood /\ call'[c].pc \in {"entry", "done"}
    BY <1>0, <2>1, <2>2, CompletedKeeps, BecomesIs
  <2> QED
    BY <1>a, <2>2, <2>3, DeleteGoes DEF Finished
<1>11. CASE RemoveFromIndex(c)
  <2> DEFINE d == Completed(call[c])
  <2>1. d.pc = "done" /\ d.stood = call[c].stood /\ d.resent = call[c].resent
    BY <1>0, CompletedKeeps
  <2> HIDE DEF d
  <2>2. call[c].pc = "cleanup" /\ UNCHANGED marker /\ Submitted(c, d, "entry")
    BY <1>11 DEF RemoveFromIndex, d
  <2>3. call'[c].stood = call[c].stood /\ call'[c].pc \in {"entry", "done"}
    BY <1>0, <2>1, <2>2, SubmittedKeeps
  <2> QED
    BY <1>a, <2>2, <2>3, DeleteGoes DEF Finished
<1> QED
  BY <1>1, <1>2, <1>3, <1>4, <1>5, <1>6, <1>7, <1>8, <1>9, <1>10, <1>11 DEF Deletes

LEMMA Neo4jDeletesOnly ==
  ASSUME NEW c \in Clients, Fits(c, call[c], c \in alive), Op(c) = "delete", provider = "neo4j",
         Step(c) \/ Trouble(c)
  PROVE  \/ BeginDelete(c) \/ Fails(c) \/ DetachMarker(c) \/ DrainRelationships(c) \/ DetachEntities(c)
         \/ DrainChangeLog(c) \/ SweepNodes(c) \/ DetachVocabulary(c)
<1> USE DEF Fits, PcFits
<1>1. ~ReadVersion(c)
  BY DEF ReadVersion
<1>2. ~CreateRepository(c) /\ ~ReadRepositoryToken(c) /\ ~AssertBeforeClear(c)
  BY DEF CreateRepository, ReadRepositoryToken, AssertBeforeClear
<1>3. /\ ~AddItem(c) /\ ~ReadToken(c) /\ ~DeleteByIds(c) /\ ~DeleteTypeBatch(c)
      /\ ~DeleteEdgesOfPage(c) /\ ~SaveVocabulary(c) /\ ~ReadSaveOutcome(c)
  BY DEF AddItem, ReadToken, DeleteByIds, DeleteTypeBatch, DeleteEdgesOfPage, SaveVocabulary,
         ReadSaveOutcome
<1>4. ~ImportStep(c) /\ ~ImportTrouble(c)
  BY DEF ImportStep, ImportTrouble, BeginImport, EndImport
<1> QED
  BY <1>1, <1>2, <1>3, <1>4 DEF Step, Trouble, Neo4jStep

\* What a drain tells its call leaves alone what it stood before.
Alike(c, cl) == IsCall(cl) /\ cl.stood = call[c].stood /\ cl.reply = call[c].reply

LEMMA ToldKeeps ==
  ASSUME NEW c, IsCall(call[c]), NEW gone
  PROVE  /\ Alike(c, Told(c, gone)) /\ Told(c, gone).pc = call[c].pc
         /\ Alike(c, Took(c, gone)) /\ Took(c, gone).pc = call[c].pc
<1>1. Alike(c, Took(c, gone)) /\ Took(c, gone).pc = call[c].pc
  BY DEF Took, IsCall, Fields, Alike
<1> DEFINE t == Took(c, gone)
<1>2. ASSUME NEW events
      PROVE  Alike(c, [t EXCEPT !.events = events]) /\ [t EXCEPT !.events = events].pc = call[c].pc
  <2> HIDE DEF t
  <2>1. Alike(c, t) /\ t.pc = call[c].pc
    BY <1>1 DEF t
  <2> QED
    BY <2>1 DEF Alike, IsCall, Fields
<1> HIDE DEF t
<1>3. Told(c, gone) = Took(c, gone) \/ \E events : Told(c, gone) = [t EXCEPT !.events = events]
  BY DEF Told, t
<1> QED
  BY <1>1, <1>2, <1>3

LEMMA TurnedKeeps ==
  ASSUME NEW c, NEW cl, Alike(c, cl), NEW page, NEW edges, NEW end, Alike(c, end)
  PROVE  /\ Alike(c, Turned(cl, page, edges, end))
         /\ Turned(cl, page, edges, end).pc \in {cl.pc, end.pc}
<1>1. ASSUME NEW v PROVE Alike(c, [cl EXCEPT !.after = v]) /\ [cl EXCEPT !.after = v].pc = cl.pc
  BY DEF Alike, IsCall, Fields
<1>2. Turned(cl, page, edges, end) \in {cl, end} \/ \E v : Turned(cl, page, edges, end) = [cl EXCEPT !.after = v]
  BY DEF Turned
<1> QED
  BY <1>1, <1>2

LEMMA DrainsKeep ==
  ASSUME Keeps, NEW c \in Clients, IsCall(call[c]), NEW gone, NEW cl, Alike(c, cl),
         Drains(c, Repo(c), gone, cl)
  PROVE  /\ call'[c].stood = call[c].stood
         /\ \/ call'[c].pc = cl.pc /\ call'[c].reply = call[c].reply
            \/ call'[c].pc = "done" /\ call'[c].reply = "failed"
<1>1. Becomes(c, cl) \/ Becomes(c, Replies(c, "failed"))
  BY DEF Drains
<1> QED
  BY <1>1, ReplyKeeps, BecomesIs DEF Alike

LEMMA DrainNodesKeep ==
  ASSUME Keeps, NEW c \in Clients, IsCall(call[c]), NEW nodes, NEW x, DrainNodes(c, nodes, Goes(c, x))
  PROVE  /\ UNCHANGED marker /\ call'[c].stood = call[c].stood
         /\ \/ call'[c].pc = call[c].pc /\ call'[c].reply = call[c].reply
            \/ call'[c].pc = "done" /\ call'[c].reply = "failed"
            \/ nodes = {} /\ UNCHANGED data /\ call'[c].pc = x /\ call'[c].reply = call[c].reply
<1>1. CASE nodes = {} /\ UNCHANGED data /\ Becomes(c, Goes(c, x))
  BY <1>1, GoKeeps DEF DrainNodes
<1>2. ASSUME NEW batch, NEW cl \in {Told(c, batch), Took(c, batch)}, Drains(c, Repo(c), batch, cl)
      PROVE  /\ call'[c].stood = call[c].stood
             /\ \/ call'[c].pc = call[c].pc /\ call'[c].reply = call[c].reply
                \/ call'[c].pc = "done" /\ call'[c].reply = "failed"
  <2>1. Alike(c, cl) /\ cl.pc = call[c].pc
    BY <1>2, ToldKeeps
  <2> QED
    BY <1>2, <2>1, DrainsKeep
<1>3. \/ nodes = {} /\ UNCHANGED data /\ Becomes(c, Goes(c, x))
      \/ \E batch : \E cl \in {Told(c, batch), Took(c, batch)} : Drains(c, Repo(c), batch, cl)
  BY DEF DrainNodes
<1> QED
  BY <1>1, <1>2, <1>3 DEF DrainNodes

LEMMA Neo4jDeleteMoves ==
  ASSUME Base, NEW c \in Clients, Op(c) = "delete", provider = "neo4j", IsGraph(data[Repo(c)]),
         \/ DetachMarker(c) \/ DrainRelationships(c) \/ DetachEntities(c) \/ DrainChangeLog(c)
         \/ SweepNodes(c) \/ DetachVocabulary(c)
  PROVE  Marks(c) /\ DeleteMoves(c)
<1>0. Fits(c, call[c], c \in alive) /\ IsCall(call[c]) /\ Keeps /\ Repo(c) \in Repositories
  BY RequestOf DEF Base, Local, Fits, None
<1>a. call[c].pc # "done" => call[c].reply = None
  BY <1>0 DEF Fits
<1>1. CASE DetachMarker(c)
  <2> DEFINE d == [Goes(c, "relationships") EXCEPT !.raw = marker[Repo(c)] # None]
  <2>1. d.pc = "relationships" /\ d.reply = call[c].reply /\ d.stood = call[c].stood /\ d.resent = call[c].resent
    BY <1>0, GoesIs DEF IsCall, Fields
  <2> HIDE DEF d
  <2>2. /\ call[c].pc = "drop" /\ marker' = [marker EXCEPT ![Repo(c)] = None] /\ Submitted(c, d, "drop")
    BY <1>1 DEF DetachMarker, d
  <2>3. /\ call'[c].stood = call[c].stood /\ call'[c].reply = None /\ call'[c].pc \in {"relationships", "drop"}
    BY <1>0, <1>a, <2>1, <2>2, SubmittedKeeps
  <2> QED
    BY <1>0, <2>2, <2>3, DeleteDrops DEF Finished, None
<1>2. CASE DrainRelationships(c)
  <2>1. call[c].pc = "relationships" /\ UNCHANGED marker
    BY <1>2 DEF DrainRelationships
  <2>2. PICK edges, page :
          Drains(c, Repo(c), edges, Turned(Told(c, edges), page, edges, [Told(c, edges) EXCEPT !.pc = "entities"]))
    BY <1>2 DEF DrainRelationships
  <2> DEFINE t == Told(c, edges)
             end == [t EXCEPT !.pc = "entities"]
             d == Turned(t, page, edges, end)
  <2>3. Alike(c, t) /\ t.pc = "relationships"
    BY <1>0, <2>1, ToldKeeps
  <2> HIDE DEF t
  <2>4. Alike(c, end) /\ end.pc = "entities"
    BY <2>3 DEF Alike, IsCall, Fields
  <2> HIDE DEF end
  <2>5. Alike(c, d) /\ d.pc \in {"relationships", "entities"}
    BY <2>3, <2>4, TurnedKeeps
  <2>6. Drains(c, Repo(c), edges, d)
    BY <2>2 DEF t, end
  <2> HIDE DEF d
  <2>7. /\ call'[c].stood = call[c].stood
        /\ \/ call'[c].pc \in {"relationships", "entities"} /\ call'[c].reply = None
           \/ call'[c].pc = "done" /\ call'[c].reply = "failed"
    BY <1>0, <1>a, <2>1, <2>5, <2>6, DrainsKeep
  <2> QED
    BY <1>a, <2>1, <2>7, DeleteDrains
<1>3. CASE DetachEntities(c)
  <2>1. call[c].pc = "entities" /\ DrainNodes(c, Entities(Repo(c)), Goes(c, "log"))
    BY <1>3 DEF DetachEntities
  <2>2. /\ UNCHANGED marker /\ call'[c].stood = call[c].stood
        /\ \/ call'[c].pc \in {"entities", "log"} /\ call'[c].reply = None
           \/ call'[c].pc = "done" /\ call'[c].reply = "failed"
    BY <1>0, <1>a, <2>1, DrainNodesKeep
  <2> QED
    BY <1>a, <2>1, <2>2, DeleteDrains
<1>4. CASE DrainChangeLog(c)
  <2>1. call[c].pc = "log" /\ DrainNodes(c, {d \in data[Repo(c)] : d.kind = "record"}, Goes(c, "rest"))
    BY <1>4 DEF DrainChangeLog
  <2>2. /\ UNCHANGED marker /\ call'[c].stood = call[c].stood
        /\ \/ call'[c].pc \in {"log", "rest"} /\ call'[c].reply = None
           \/ call'[c].pc = "done" /\ call'[c].reply = "failed"
    BY <1>0, <1>a, <2>1, DrainNodesKeep
  <2> QED
    BY <1>a, <2>1, <2>2, DeleteDrains
<1>5. CASE SweepNodes(c)
  <2>1. call[c].pc = "rest" /\ DrainNodes(c, Vertices(Repo(c)), Goes(c, "last"))
    BY <1>5 DEF SweepNodes
  <2>2. /\ UNCHANGED marker /\ call'[c].stood = call[c].stood
        /\ \/ call'[c].pc = "rest" /\ call'[c].reply = None
           \/ call'[c].pc = "done" /\ call'[c].reply = "failed"
           \/ Vertices(Repo(c)) = {} /\ UNCHANGED data /\ call'[c].pc = "last" /\ call'[c].reply = None
    BY <1>0, <1>a, <2>1, DrainNodesKeep
  <2>3. Vertices(Repo(c)) = {} => data[Repo(c)] = {}
    BY EmptyGraph
  <2> QED
    BY <1>a, <2>1, <2>2, <2>3, DeleteGoes DEF Finished, None
<1>6. CASE DetachVocabulary(c)
  <2>1. /\ call[c].pc = "last" /\ UNCHANGED marker
        /\ Submitted(c, Completed(call[c]), "last") \/ Submitted(c, Replies(c, "not_found"), "last")
    BY <1>6 DEF DetachVocabulary
  <2> DEFINE d == Completed(call[c])
  <2>2. d.pc = "done" /\ d.stood = call[c].stood /\ d.resent = call[c].resent
    BY <1>0, CompletedKeeps
  <2> HIDE DEF d
  <2>3. Submitted(c, d, "last") \/ Submitted(c, Replies(c, "not_found"), "last")
    BY <2>1 DEF d
  <2>4. call'[c].stood = call[c].stood /\ call'[c].pc \in {"last", "done"}
    BY <1>0, <2>2, <2>3, SubmittedKeeps, SubmittedReply
  <2> QED
    BY <1>a, <2>1, <2>4, DeleteGoes DEF Finished
<1> QED
  BY <1>1, <1>2, <1>3, <1>4, <1>5, <1>6

LEMMA SqlDeletesOnly ==
  ASSUME NEW c \in Clients, Fits(c, call[c], c \in alive), Op(c) = "delete", provider = "sqlserver",
         Step(c) \/ Trouble(c)
  PROVE  BeginDelete(c) \/ DeleteRepository(c) \/ Fails(c)
<1> USE DEF Fits, PcFits
<1>1. ~ReadVersion(c)
  BY DEF ReadVersion
<1>2. /\ ~LookForRepository(c) /\ ~InsertRepository(c) /\ ~InsertVocabulary(c)
      /\ ~AssertForClear(c) /\ ~DeleteRelationships(c) /\ ~DeleteEntities(c)
      /\ ~DeleteEntityEdges(c) /\ ~DeleteEntityRow(c) /\ ~ExplainMiss(c) /\ ~GuardedDelete(c)
  BY DEF LookForRepository, InsertRepository, InsertVocabulary, AssertForClear, DeleteRelationships,
         DeleteEntities, DeleteEntityEdges, DeleteEntityRow, ExplainMiss, GuardedDelete
<1>3. /\ ~AssertForCreate(c) /\ ~LookForEntity(c) /\ ~ReadPreconditions(c) /\ ~InsertRow(c)
      /\ ~ExplainForeignKey(c) /\ ~UpdateVocabulary(c) /\ ~ImportInOneTransaction(c)
  BY DEF AssertForCreate, LookForEntity, ReadPreconditions, InsertRow,
         ExplainForeignKey, UpdateVocabulary, ImportInOneTransaction
<1> QED
  BY <1>1, <1>2, <1>3 DEF Step, Trouble, SqlServerStep

LEMMA SqlDeleteMoves ==
  ASSUME Base, NEW c \in Clients, Op(c) = "delete", provider = "sqlserver", DeleteRepository(c)
  PROVE  Marks(c) /\ DeleteMoves(c)
<1>0. Fits(c, call[c], c \in alive) /\ IsCall(call[c]) /\ Keeps /\ Repo(c) \in Repositories
  BY RequestOf DEF Base, Local, Fits, None
<1>1. call[c].pc = "drop"
  BY DEF DeleteRepository
<1>2. CASE marker[Repo(c)] # None
  <2> DEFINE d == Completed(call[c])
  <2>1. d.stood = call[c].stood
    BY <1>0, CompletedKeeps
  <2> HIDE DEF d
  <2>2. marker' = [marker EXCEPT ![Repo(c)] = None] /\ ChangesData(Repo(c), {}) /\ Answered(c, d)
    BY <1>2 DEF DeleteRepository, RepositoryExists, d
  <2>3. call'[c].stood = call[c].stood /\ data'[Repo(c)] = {}
    BY <1>0, <2>1, <2>2, AnsweredKeeps DEF ChangesData, Keeps
  <2> QED
    BY <1>0, <1>1, <2>2, <2>3, DeleteDrops
<1>3. CASE marker[Repo(c)] = None
  <2>1. UNCHANGED <<marker, data>> /\ Becomes(c, Replies(c, "not_found"))
    BY <1>3 DEF DeleteRepository, RepositoryExists
  <2>2. data[Repo(c)] = {}
    BY <1>0, <1>3 DEF Base, Rooted
  <2>3. call'[c].stood = call[c].stood
    BY <1>0, <2>1, ReplyKeeps
  <2> QED
    BY <1>3, <2>1, <2>2, <2>3, MarksNothing DEF DeleteMoves
<1> QED
  BY <1>2, <1>3

-----------------------------------------------------------------------------
(* What every step does.                                                   *)
LEMMA MarkerStays ==
  ASSUME Base, NEW c \in Clients, Step(c) \/ Trouble(c), Op(c) \notin {"create", "delete"}
  PROVE  UNCHANGED marker
<1>0. Fits(c, call[c], c \in alive) /\ Keeps
  BY DEF Base, Local
<1>1. ASSUME Quiet(c) PROVE UNCHANGED marker
  BY <1>1 DEF Quiet
<1>2. CASE BeginDelete(c) \/ ReadVersion(c) \/ Fails(c)
  BY <1>0, <1>1, <1>2, CommonQuiet
<1>3. CASE provider = "cosmosdb" /\ CosmosStep(c)
  <2>1. ~WriteVocabulary(c) /\ ~WriteMarker(c) /\ ~DropMarker(c) /\ ~DrainVertices(c)
    BY <1>0 DEF Fits, PcFits, WriteVocabulary, WriteMarker, DropMarker, DrainVertices
  <2>2. CompareAndSet(c) => UNCHANGED marker
    BY DEF CompareAndSet
  <2> QED
    BY <1>0, <1>1, <1>3, <2>1, <2>2, CosmosQuiet DEF CosmosStep, Creates, Deletes, Writes, Saves
<1>4. CASE provider = "cosmosdb" /\ (CosmosImportStep(c) \/ CosmosImportTrouble(c))
  BY <1>0, <1>1, <1>4, CosmosImportQuiet
<1>5. CASE provider = "neo4j" /\ Neo4jStep(c)
  <2>1. ~CreateRepository(c) /\ ~DetachMarker(c) /\ ~DetachVocabulary(c)
    BY <1>0 DEF Fits, PcFits, CreateRepository, DetachMarker, DetachVocabulary
  <2>2. SaveVocabulary(c) => UNCHANGED marker
    BY DEF SaveVocabulary
  <2> QED
    BY <1>0, <1>1, <1>5, <2>1, <2>2, Neo4jQuiet DEF Neo4jStep
<1>6. CASE provider = "neo4j" /\ (ImportStep(c) \/ ImportTrouble(c))
  BY <1>0, <1>1, <1>6, Neo4jImportQuiet
<1>7. CASE provider = "sqlserver" /\ SqlServerStep(c)
  <2>1. ~InsertRepository(c) /\ ~InsertVocabulary(c) /\ ~DeleteRepository(c)
    BY <1>0 DEF Fits, PcFits, InsertRepository, InsertVocabulary, DeleteRepository
  <2>2. UpdateVocabulary(c) => UNCHANGED marker
    BY DEF UpdateVocabulary, OnlyData
  <2>3. RowsOnly(c) => UNCHANGED marker
    BY DEF RowsOnly
  <2> QED
    BY <1>7, <2>1, <2>2, <2>3, SqlRowsOnly DEF SqlServerStep
<1> QED
  BY <1>2, <1>3, <1>4, <1>5, <1>6, <1>7 DEF Step, Trouble

LEMMA MarksStep ==
  ASSUME Base, NEW c \in Clients, Step(c) \/ Trouble(c), UNCHANGED provider,
         \A r \in Repositories : provider # "sqlserver" => IsGraph(data[r])
  PROVE  Marks(c) /\ CreateMoves(c) /\ DeleteMoves(c)
<1>0. Fits(c, call[c], c \in alive) /\ Requests /\ Op(c) # None
  BY StepIs DEF Base, Local, Acts
<1>1. Repo(c) \in Repositories
  BY <1>0, RequestOf
<1>2. CASE Op(c) = "create"
  <2>1. Marks(c) /\ CreateMoves(c)
    <3>1. CASE provider = "cosmosdb"
      BY <1>0, <1>2, <3>1, CosmosCreatesOnly, CosmosCreateMarks
    <3>2. CASE provider = "neo4j"
      BY <1>0, <1>2, <3>2, Neo4jCreatesOnly, Neo4jCreateMarks
    <3>3. CASE provider = "sqlserver"
      BY <1>0, <1>2, <3>3, SqlCreatesOnly, SqlCreateMarks
    <3> QED
      BY <1>0, <3>1, <3>2, <3>3 DEF Requests
  <2> QED
    BY <1>2, <2>1 DEF DeleteMoves
<1>3. CASE Op(c) = "delete"
  <2>1. Marks(c) /\ DeleteMoves(c)
    <3>1. CASE BeginDelete(c) \/ Fails(c)
      BY <1>3, <3>1, DeleteCommon
    <3>2. CASE provider = "cosmosdb" /\ Deletes(c)
      BY <1>1, <1>3, <3>2, CosmosDeleteMoves
    <3>3. CASE provider = "neo4j" /\ ~(BeginDelete(c) \/ Fails(c))
      BY <1>0, <1>1, <1>3, <3>3, Neo4jDeletesOnly, Neo4jDeleteMoves
    <3>4. CASE provider = "sqlserver" /\ DeleteRepository(c)
      BY <1>3, <3>4, SqlDeleteMoves
    <3> QED
      BY <1>0, <1>3, <3>1, <3>2, <3>3, <3>4, CosmosDeletesOnly, SqlDeletesOnly DEF Requests
  <2> QED
    BY <1>3, <2>1 DEF CreateMoves
<1>4. CASE Op(c) \notin {"create", "delete"}
  BY <1>4, MarkerStays, MarksNothing DEF CreateMoves, DeleteMoves
<1> QED
  BY <1>2, <1>3, <1>4

\* In Neo4j the vocabulary goes when the rest has gone.
VocabularyGoes(c) ==
  provider = "neo4j" => \A r \in Repositories : vocabulary'[r] = {} =>
    \/ vocabulary[r] = {}
    \/ r = Repo(c) /\ marker[r] = None /\ Op(c) = "delete" /\ call[c].pc = "last" /\ UNCHANGED <<marker, data>>

LEMMA VocabularyStep ==
  ASSUME Base, NEW c \in Clients, Step(c) \/ Trouble(c), provider = "neo4j"
  PROVE  VocabularyGoes(c)
<1>0. Keeps /\ Fits(c, call[c], c \in alive)
  BY DEF Base, Local
<1>1. ASSUME Quiet(c) PROVE VocabularyGoes(c)
  BY <1>1 DEF Quiet, VocabularyGoes
<1>2. CASE BeginDelete(c) \/ ReadVersion(c) \/ Fails(c)
  BY <1>0, <1>1, <1>2, CommonQuiet
<1>3. CASE ImportStep(c) \/ ImportTrouble(c)
  BY <1>0, <1>1, <1>3, Neo4jImportQuiet
<1>4. CASE CreateRepository(c)
  <2>1. \/ UNCHANGED vocabulary
        \/ vocabulary' = [vocabulary EXCEPT ![Repo(c)] = {[of |-> c, by |-> c, version |-> 0]}]
    BY <1>4 DEF CreateRepository
  <2> QED
    BY <1>0, <2>1 DEF VocabularyGoes, Keeps
<1>5. CASE DetachMarker(c)
  BY <1>5 DEF DetachMarker, VocabularyGoes
<1>6. CASE DetachVocabulary(c)
  <2>1. call[c].pc = "last" /\ UNCHANGED <<marker, data>>
        /\ vocabulary' = [vocabulary EXCEPT ![Repo(c)] = IF marker[Repo(c)] = None THEN {} ELSE @]
    BY <1>6 DEF DetachVocabulary
  <2>2. Op(c) = "delete"
    BY <1>0, <2>1 DEF Fits, PcFits
  <2> QED
    BY <1>0, <2>1, <2>2 DEF VocabularyGoes, Keeps
<1>7. CASE SaveVocabulary(c)
  <2> DEFINE matching == {v \in vocabulary[Repo(c)] : Locked(c) /\ v.version = call[c].version}
             saved == {[of |-> v.of, by |-> c, version |-> v.version + 1] : v \in matching}
  <2>1. UNCHANGED vocabulary
        \/ (matching # {} /\ vocabulary' = [vocabulary EXCEPT ![Repo(c)] = saved])
    BY <1>7 DEF SaveVocabulary
  <2>2. matching # {} => saved # {}
    OBVIOUS
  <2> HIDE DEF matching, saved
  <2> QED
    BY <1>0, <2>1, <2>2 DEF VocabularyGoes, Keeps
<1>8. CASE Neo4jStep(c)
  BY <1>0, <1>1, <1>4, <1>5, <1>6, <1>7, <1>8, Neo4jQuiet DEF Neo4jStep
<1> QED
  BY <1>2, <1>3, <1>8 DEF Step, Trouble

-----------------------------------------------------------------------------
(* Whose the data are.                                                     *)

\* A repository is the first one, or was made by a create that is past it.
Known(m) == m # None /\ (m \in Clients => Op(m) = "create" /\ Spends(call[m]))

Sources ==
  /\ \A r \in Repositories : (marker[r] # None => Known(marker[r])) /\ \A d \in data[r] : Known(d.of)
  /\ \A c \in Clients : Op(c) = "delete" => \A m \in call[c].stood : Known(m)
  /\ provider = "cosmosdb" => \A c \in Clients :
       Op(c) \in Landing /\ call[c].gate # None => Known(call[c].gate)

WellMade ==
  /\ Asked /\ Gated /\ Shaped
  /\ \A r \in Repositories : provider # "sqlserver" => IsGraph(data[r])
  /\ Sources
  /\ late # {} => provider = "cosmosdb"

\* What a delete found when it began has no marker any more once it has dropped one.
DroppedForGood ==
  \A c \in Clients : Op(c) = "delete" /\ Past(call[c]) /\ marker[Repo(c)] \in call[c].stood =>
    MadeAgain(marker[Repo(c)])

\* In CosmosDB a repository comes with its own data, and a create that has found the
\* partition empty finds no other's.
OwnOrLate(r, m) == \A d \in data[r] : d.of = m \/ d \in late

CosmosOwns ==
  provider = "cosmosdb" /\ ~Several("create") =>
    /\ \A r \in Repositories : marker[r] # None => OwnOrLate(r, marker[r])
    /\ \A c \in Clients : Op(c) = "create" /\ call[c].pc \in Prepared =>
         marker[Repo(c)] \in {None, c} /\ OwnOrLate(Repo(c), c)

\* In Neo4j nothing is left without a vocabulary, which goes with the last statement.
Neo4jOwns ==
  provider = "neo4j" /\ ~Several("delete") =>
    /\ \A r \in Repositories :
         /\ marker[r] # None => \A d \in data[r] : d.of = marker[r]
         /\ marker[r] = None /\ vocabulary[r] = {} => data[r] = {}
    /\ \A c \in Clients : Op(c) = "delete" /\ call[c].pc = "last" /\ marker[Repo(c)] = None =>
         data[Repo(c)] = {}

\* A delete that has drained leaves nothing of what it found.
LeavesNothing(c) ==
  \A d \in data[Repo(c)] : d.of \in call[c].stood => d \in late \/ MadeAgain(d.of)

Drained ==
  ~(provider = "cosmosdb" /\ Several("create")) =>
    \A c \in Clients : Op(c) = "delete" /\ Finished(call[c]) => LeavesNothing(c)

Owns == DroppedForGood /\ CosmosOwns /\ Neo4jOwns /\ Drained

\* What a step does to all of this.
Moved(c) ==
  /\ c \in Clients /\ Op(c) # None /\ Repo(c) \in Repositories
  /\ \A d \in Clients : d # c => call'[d] = call[d]
  /\ UNCHANGED <<provider, request>>
  /\ Steady(c) /\ Puts(c) /\ Marks(c) /\ CreateMoves(c) /\ DeleteMoves(c) /\ VocabularyGoes(c)
  /\ late' # late => provider = "cosmosdb"

LEMMA MovedBy ==
  ASSUME Base, WellMade, NEW c \in Clients, Step(c) \/ Trouble(c), UNCHANGED <<provider, request>>
  PROVE  Moved(c)
<1>1. Acts(c) /\ Honest(c)
  BY StepIs
<1>2. Op(c) # None /\ Repo(c) \in Repositories
  BY <1>1, RequestOf DEF Base, Acts
<1>3. \A d \in Clients : d # c => call'[d] = call[d]
  BY <1>1, OthersStay DEF Honest, Base
<1>4. Steady(c) /\ Puts(c)
  BY SteadyStep, PutsStep DEF WellMade
<1>5. Marks(c) /\ CreateMoves(c) /\ DeleteMoves(c)
  BY MarksStep DEF WellMade
<1>6. VocabularyGoes(c)
  BY VocabularyStep DEF VocabularyGoes
<1> QED
  BY <1>1, <1>2, <1>3, <1>4, <1>5, <1>6 DEF Moved, Honest

LEMMA MovedStep ==
  ASSUME Base, WellMade, Next
  PROVE  \E c \in Clients : Moved(c)
BY MovedBy DEF Next, Observed

LEMMA SameRequest ==
  ASSUME UNCHANGED request
  PROVE  /\ \A c : Op(c)' = Op(c) /\ Repo(c)' = Repo(c)
         /\ \A op : Several(op)' = Several(op)
BY DEF Op, Repo, Several

LEMMA KnownStays ==
  ASSUME NEW c, Moved(c), NEW m, Known(m)
  PROVE  Known(m)' /\ (MadeAgain(m) => MadeAgain(m)')
<1>1. Op(m)' = Op(m)
  BY DEF Moved, Op
<1>2. CASE m \in Clients /\ m = c
  BY <1>1, <1>2 DEF Known, Moved, CreateMoves, MadeAgain
<1>3. CASE m \in Clients /\ m # c
  BY <1>1, <1>3 DEF Known, Moved, MadeAgain, Spends
<1>4. CASE m \notin Clients
  BY <1>4 DEF Known, MadeAgain
<1> QED
  BY <1>2, <1>3, <1>4

LEMMA WellMadeNext ==
  ASSUME WellMade, NEW c, Moved(c)
  PROVE  WellMade'
<1>1. UNCHANGED <<provider, request>> /\ c \in Clients /\ \A d \in Clients : d # c => call'[d] = call[d]
  BY DEF Moved
<1>2. Asked'
  BY <1>1 DEF WellMade, Asked
<1>3. \A d \in Clients : GateFits(d, call'[d]) /\ ShapeOf(d, call'[d])
  BY <1>1 DEF Moved, Steady, WellMade, Gated, Shaped
<1>4. Gated'
  BY <1>1, <1>3 DEF Gated, GateFits, Op
<1>5. Shaped'
  <2> SUFFICES ASSUME NEW d \in Clients PROVE ShapeOf(d, call[d])'
    BY DEF Shaped
  <2>1. ShapeOf(d, call'[d])
    BY <1>3
  <2> QED
    BY <1>1, <2>1 DEF ShapeOf, RowFits
<1>6. \A r \in Repositories : provider' # "sqlserver" => IsGraph(data'[r])
  BY <1>1 DEF Moved, Puts, WellMade
<1>7. late' # {} => provider' = "cosmosdb"
  BY <1>1 DEF Moved, WellMade
<1>8. Sources'
  <2>1. Sources
    BY DEF WellMade
  <2>2. ASSUME NEW m, Known(m) PROVE Known(m)'
    BY <2>2, KnownStays
  <2>3. ASSUME NEW r \in Repositories, NEW m, m = marker'[r], m # None PROVE Known(m)'
    <3>1. CASE m = marker[r]
      BY <2>1, <2>2, <2>3, <3>1 DEF Sources
    <3>2. CASE Makes(c, r)
      <4>1. m = c /\ Op(c)' = "create" /\ Spends(call'[c])
        BY <1>1, <2>3, <3>2 DEF Makes, Op
      <4> QED
        BY <2>3, <4>1 DEF Known, Spends
    <3> QED
      BY <2>3, <3>1, <3>2 DEF Moved, Marks, Drops
  <2>4. ASSUME NEW r \in Repositories, NEW d \in data'[r] PROVE Known(d.of)'
    <3>1. CASE d \in data[r]
      BY <2>1, <2>2, <3>1 DEF Sources
    <3>2. CASE r = Repo(c) /\ Fresh(c, d)
      <4>1. d.of # None /\ (d.of = marker[r] \/ (provider = "cosmosdb" /\ Op(c) \in Landing /\ d.of = call[c].gate))
        BY <3>2 DEF Fresh
      <4>2. Known(d.of)
        BY <1>1, <2>1, <4>1 DEF Sources
      <4> QED
        BY <2>2, <4>2
    <3> QED
      BY <3>1, <3>2 DEF Moved, Puts
  <2>5. ASSUME NEW e \in Clients, Op(e) = "delete", NEW m \in call'[e].stood PROVE Known(m)'
    <3>1. CASE m \in call[e].stood
      BY <2>1, <2>2, <2>5, <3>1 DEF Sources
    <3>2. CASE e = c /\ m \in Standing(Repo(c))
      <4>1. Known(m)
        BY <2>1, <3>2 DEF Sources, Standing, Moved
      <4> QED
        BY <2>2, <4>1
    <3> QED
      BY <1>1, <2>5, <3>1, <3>2 DEF Moved, DeleteMoves
  <2>6. ASSUME provider = "cosmosdb", NEW e \in Clients, Op(e) \in Landing, NEW m, m = call'[e].gate, m # None
        PROVE  Known(m)'
    <3>1. m \in {call[e].gate, marker[Repo(c)]}
      BY <1>1, <2>6 DEF Moved, Steady
    <3>2. Known(m)
      BY <2>1, <2>6, <3>1 DEF Sources, Moved
    <3> QED
      BY <2>2, <3>2
  <2> QED
    BY <1>1, <2>3, <2>4, <2>5, <2>6 DEF Sources, Op
<1> QED
  BY <1>2, <1>4, <1>5, <1>6, <1>7, <1>8 DEF WellMade, IsGraph

\* What is new in a repository that lives is its own, or late.
LEMMA FreshIs ==
  ASSUME NEW c, Moved(c), NEW r \in Repositories, NEW d \in data'[r], d \notin data[r]
  PROVE  /\ r = Repo(c)
         /\ \/ d.of = marker[r] /\ marker[r] # None
            \/ provider = "cosmosdb" /\ Op(c) \in Landing /\ d \in late'
BY DEF Moved, Puts, Fresh

LEMMA DroppedNext ==
  ASSUME Base, WellMade, WellMade', DroppedForGood, NEW c, Moved(c)
  PROVE  DroppedForGood'
<1>1. UNCHANGED request /\ c \in Clients /\ \A d \in Clients : d # c => call'[d] = call[d]
  BY DEF Moved
<1> SUFFICES ASSUME NEW e \in Clients, Op(e) = "delete", Past(call'[e]),
                    NEW m, m = marker'[Repo(e)], m \in call'[e].stood
             PROVE  MadeAgain(m)'
  BY <1>1, SameRequest DEF DroppedForGood
<1>2. Repo(e) \in Repositories
  BY RequestOf DEF Base, None
<1>3. Known(m)' /\ m # None
  BY <1>1 DEF WellMade, Sources, Known, Op
<1>4. CASE e = c
  <2>1. ~Makes(c, Repo(e))
    BY <1>4 DEF Makes
  <2>2. m = marker[Repo(e)]
    BY <1>2, <1>3, <2>1 DEF Moved, Marks, Drops
  <2>3. call'[c].stood = call[c].stood /\ Past(call[c])
    BY <1>3, <1>4 DEF Moved, DeleteMoves, Past
  <2>4. Known(m) /\ MadeAgain(m)
    BY <1>2, <1>3, <1>4, <2>2, <2>3 DEF DroppedForGood, WellMade, Sources
  <2> QED
    BY <2>4, KnownStays
<1>5. CASE e # c
  <2>1. call'[e] = call[e]
    BY <1>1, <1>5
  <2>2. Known(m)
    BY <2>1 DEF WellMade, Sources
  <2>3. CASE m = marker[Repo(e)]
    BY <2>1, <2>2, <2>3, KnownStays DEF DroppedForGood
  <2>4. CASE Makes(c, Repo(e))
    BY <1>1, <2>2, <2>4 DEF Makes, Known, MadeAgain
  <2> QED
    BY <1>2, <1>3, <2>3, <2>4 DEF Moved, Marks, Drops
<1> QED
  BY <1>4, <1>5

LEMMA CosmosOwnsNext ==
  ASSUME Base, WellMade, CosmosOwns, NEW c, Moved(c)
  PROVE  CosmosOwns'
<1>1. UNCHANGED <<provider, request>> /\ c \in Clients /\ \A d \in Clients : d # c => call'[d] = call[d]
  BY DEF Moved
<1> SUFFICES ASSUME provider = "cosmosdb", ~Several("create") PROVE CosmosOwns'
  BY <1>1, SameRequest DEF CosmosOwns
<1>2. late \subseteq late'
  BY DEF Moved, Puts
\* A repository keeps what it owns while its marker stays.
<1>3. ASSUME NEW r \in Repositories, NEW m, OwnOrLate(r, m), marker[r] \in {None, m}
      PROVE  OwnOrLate(r, m)'
  <2> SUFFICES ASSUME NEW d \in data'[r] PROVE d.of = m \/ d \in late'
    BY DEF OwnOrLate
  <2>1. CASE d \in data[r]
    BY <1>2, <1>3, <2>1 DEF OwnOrLate
  <2>2. CASE d \notin data[r]
    BY <1>3, <2>2, FreshIs
  <2> QED
    BY <2>1, <2>2
<1>4. ASSUME NEW r \in Repositories, NEW m, m = marker'[r], m # None PROVE OwnOrLate(r, m)'
  <2>1. CASE m = marker[r]
    BY <1>3, <1>4, <2>1 DEF CosmosOwns
  <2>2. CASE Makes(c, r) /\ r = Repo(c)
    <3>1. Op(c) = "create" /\ call[c].pc \in Prepared /\ m = c /\ marker[r] = None
      BY <1>4, <2>2 DEF Makes, Prepared
    <3>2. OwnOrLate(r, m)
      BY <1>1, <2>2, <3>1 DEF CosmosOwns
    <3> QED
      BY <1>3, <3>1, <3>2
  <2> QED
    BY <1>4, <2>1, <2>2 DEF Moved, Marks, Drops
<1>5. ASSUME NEW e \in Clients, Op(e) = "create", call'[e].pc \in Prepared
      PROVE  marker'[Repo(e)] \in {None, e} /\ OwnOrLate(Repo(e), e)'
  <2>1. Repo(e) \in Repositories /\ e \in DOMAIN request
    BY <1>5, RequestOf DEF Base, None
  <2>2. CASE call[e].pc \in Prepared
    <3>1. marker[Repo(e)] \in {None, e} /\ OwnOrLate(Repo(e), e)
      BY <1>5, <2>2 DEF CosmosOwns
    <3>2. Makes(c, Repo(e)) => c = e
      <4> SUFFICES ASSUME Makes(c, Repo(e)), c # e PROVE FALSE
        OBVIOUS
      <4>1. Op(c) = "create" /\ c \in DOMAIN request
        BY RequestOf DEF Makes, Base, Moved
      <4> QED
        BY <1>5, <2>1, <4>1 DEF Several
    <3>3. marker'[Repo(e)] \in {None, e}
      BY <2>1, <3>1, <3>2 DEF Moved, Marks, Drops, Makes
    <3> QED
      BY <1>1, <1>3, <2>1, <3>1, <3>3 DEF OwnOrLate, Repo
  <2>3. CASE call[e].pc \notin Prepared
    <3>1. e = c
      BY <1>1, <1>5, <2>3
    <3>2. UNCHANGED <<marker, data>> /\ ~Occupied(Repo(e))
      BY <1>5, <2>3, <3>1 DEF Moved, CreateMoves
    <3>3. marker[Repo(e)] = None /\ data[Repo(e)] = {}
      BY <2>1, <3>2, EmptyGraph DEF Occupied, WellMade
    <3>4. marker'[Repo(e)] = None /\ data'[Repo(e)] = {}
      BY <3>2, <3>3
    <3> QED
      BY <1>1, <3>4 DEF OwnOrLate, Repo
  <2> QED
    BY <2>2, <2>3
<1>6. ASSUME NEW r \in Repositories, marker'[r] # None PROVE \A d \in data'[r] : d.of = marker'[r] \/ d \in late'
  BY <1>4, <1>6 DEF OwnOrLate
<1> QED
  BY <1>1, <1>5, <1>6, SameRequest DEF CosmosOwns, OwnOrLate

LEMMA Neo4jOwnsNext ==
  ASSUME Base, Neo4jKept, Neo4jOwns, NEW c, Moved(c)
  PROVE  Neo4jOwns'
<1>1. UNCHANGED <<provider, request>> /\ c \in Clients /\ \A d \in Clients : d # c => call'[d] = call[d]
  BY DEF Moved
<1> SUFFICES ASSUME provider = "neo4j", ~Several("delete") PROVE Neo4jOwns'
  BY <1>1, SameRequest DEF Neo4jOwns
<1>2. ASSUME NEW r \in Repositories, NEW d \in data'[r], d \notin data[r]
      PROVE  d.of = marker[r] /\ marker[r] # None
  BY <1>2, FreshIs
<1>3. ASSUME NEW r \in Repositories, marker[r] = None, data[r] = {} PROVE data'[r] = {}
  BY <1>2, <1>3
<1>4. ASSUME NEW r \in Repositories, marker'[r] # None PROVE \A d \in data'[r] : d.of = marker'[r]
  <2>1. CASE marker'[r] = marker[r]
    BY <1>2, <1>4, <2>1 DEF Neo4jOwns
  <2>2. CASE Makes(c, r)
    BY <1>3, <2>2 DEF Makes, Neo4jOwns
  <2> QED
    BY <1>4, <2>1, <2>2 DEF Moved, Marks, Drops
<1>5. ASSUME NEW r \in Repositories, marker'[r] = None, vocabulary'[r] = {} PROVE data'[r] = {}
  <2>1. CASE vocabulary[r] = {}
    <3>1. marker[r] = None
      BY <2>1 DEF Neo4jKept
    <3> QED
      BY <1>3, <2>1, <3>1 DEF Neo4jOwns
  <2>2. CASE r = Repo(c) /\ marker[r] = None /\ Op(c) = "delete" /\ call[c].pc = "last" /\ UNCHANGED <<marker, data>>
    BY <1>1, <2>2 DEF Neo4jOwns
  <2> QED
    BY <1>5, <2>1, <2>2 DEF Moved, VocabularyGoes
<1>6. ASSUME NEW e \in Clients, Op(e) = "delete", call'[e].pc = "last", marker'[Repo(e)] = None
      PROVE  data'[Repo(e)] = {}
  <2>1. Repo(e) \in Repositories /\ e \in DOMAIN request
    BY <1>6, RequestOf DEF Base, None
  <2>2. CASE call[e].pc = "last"
    <3>1. ~Drops(c, Repo(e))
      <4> SUFFICES ASSUME Op(c) = "delete", call[c].pc = "drop" PROVE FALSE
        BY DEF Drops
      <4>1. c # e /\ c \in DOMAIN request
        BY <2>2, RequestOf DEF Base, Moved
      <4> QED
        BY <1>6, <2>1, <4>1 DEF Several
    <3>2. ~Makes(c, Repo(e))
      BY <1>1, <1>6, LifeAssumption DEF Makes
    <3>3. marker[Repo(e)] = None
      BY <1>6, <2>1, <3>1, <3>2 DEF Moved, Marks
    <3> QED
      BY <1>3, <1>6, <2>1, <2>2, <3>3 DEF Neo4jOwns
  <2>3. CASE call[e].pc # "last"
    BY <1>1, <1>6, <2>3 DEF Moved, DeleteMoves
  <2> QED
    BY <2>2, <2>3
<1> QED
  BY <1>1, <1>4, <1>5, <1>6, SameRequest DEF Neo4jOwns

LEMMA DrainedNext ==
  ASSUME Base, Base', WellMade, WellMade', DroppedForGood, CosmosOwns, Drained, NEW c, Moved(c)
  PROVE  Drained'
<1>1. UNCHANGED <<provider, request>> /\ c \in Clients /\ \A d \in Clients : d # c => call'[d] = call[d]
  BY DEF Moved
<1> SUFFICES ASSUME ~(provider = "cosmosdb" /\ Several("create")),
                    NEW e \in Clients, Op(e) = "delete", Finished(call'[e]),
                    NEW d \in data'[Repo(e)], d.of \in call'[e].stood
             PROVE  d \in late' \/ MadeAgain(d.of)'
  BY <1>1, SameRequest DEF Drained, LeavesNothing, Repo
<1> DEFINE r == Repo(e)
<1>2. r \in Repositories
  BY RequestOf DEF Base, None
<1>3. late \subseteq late'
  BY DEF Moved, Puts
<1>4. /\ call[e].pc # "done" => call[e].reply = None
      /\ call'[e].pc # "done" => call'[e].reply = None
  BY DEF Base, Local, Fits
<1>5. ASSUME Finished(call[e]) PROVE Past(call[e])
  BY <1>4, <1>5 DEF Finished, Past, None
<1>6. ASSUME Past(call[e]), d.of = marker[r], d.of \in call[e].stood PROVE MadeAgain(d.of)'
  <2>1. MadeAgain(d.of) /\ Known(d.of)
    BY <1>2, <1>6 DEF DroppedForGood, WellMade, Sources
  <2> QED
    BY <2>1, KnownStays
\* The call had drained before.
<1>7. ASSUME Finished(call[e]), call'[e].stood = call[e].stood PROVE d \in late' \/ MadeAgain(d.of)'
  <2>1. CASE d \in data[r]
    <3>1. d \in late \/ MadeAgain(d.of)
      BY <1>7, <2>1 DEF Drained, LeavesNothing
    <3>2. Known(d.of)
      BY <1>2, <2>1 DEF WellMade, Sources
    <3> QED
      BY <1>3, <3>1, <3>2, KnownStays
  <2>2. CASE d \notin data[r]
    <3>1. d \in late' \/ d.of = marker[r]
      BY <1>2, <2>2, FreshIs
    <3> QED
      BY <1>5, <1>6, <1>7, <3>1
  <2> QED
    BY <2>1, <2>2
<1>8. CASE e # c
  BY <1>1, <1>7, <1>8
<1>9. CASE e = c
  <2>1. call'[c].stood = call[c].stood
    <3>1. call'[c].pc # "drop"
      BY <1>4, <1>9 DEF Finished, None
    <3> QED
      BY <1>9, <3>1 DEF Moved, DeleteMoves
  <2>2. CASE StoodDown(c)
    <3>1. provider = "cosmosdb" /\ marker[r] # None /\ Past(call[e]) /\ UNCHANGED <<data, late>>
      BY <1>9, <2>2 DEF StoodDown
    <3>2. d.of = marker[r] \/ d \in late
      BY <1>2, <3>1 DEF CosmosOwns, OwnOrLate
    <3> QED
      BY <1>3, <1>6, <1>9, <2>1, <3>1, <3>2
  <2>3. Finished(call[c]) \/ StoodDown(c)
    BY <1>9 DEF Moved, DeleteMoves
  <2> QED
    BY <1>7, <1>9, <2>1, <2>2, <2>3
<1> QED
  BY <1>8, <1>9

LEMMA OwnsNext ==
  ASSUME Base, Base', Neo4jKept, WellMade, Owns, Next
  PROVE  WellMade' /\ Owns'
<1>1. PICK c \in Clients : Moved(c)
  BY MovedStep
<1>2. WellMade'
  BY <1>1, WellMadeNext
<1>3. DroppedForGood' /\ CosmosOwns' /\ Neo4jOwns' /\ Drained'
  BY <1>1, <1>2, DroppedNext, CosmosOwnsNext, Neo4jOwnsNext, DrainedNext DEF Owns
<1> QED
  BY <1>2, <1>3 DEF Owns

LEMMA OwnsStutters ==
  ASSUME WellMade, Owns, UNCHANGED vars
  PROVE  WellMade' /\ Owns'
<1>1. UNCHANGED <<provider, marker, vocabulary, data, request, call, late>>
  BY DEF vars, store, history
<1>2. WellMade'
  BY <1>1 DEF WellMade, Asked, Gated, GateFits, Shaped, ShapeOf, RowFits, Sources, Known, Op
<1>3. DroppedForGood'
  BY <1>1 DEF Owns, DroppedForGood, MadeAgain, Op, Repo
<1>4. CosmosOwns'
  BY <1>1 DEF Owns, CosmosOwns, OwnOrLate, Several, Op, Repo
<1>5. Neo4jOwns'
  BY <1>1 DEF Owns, Neo4jOwns, Several, Op, Repo
<1>6. Drained'
  BY <1>1 DEF Owns, Drained, LeavesNothing, MadeAgain, Several, Op, Repo
<1> QED
  BY <1>2, <1>3, <1>4, <1>5, <1>6 DEF Owns

LEMMA OwnsInit == Init => WellMade /\ Owns
<1> SUFFICES ASSUME Init PROVE WellMade /\ Owns
  OBVIOUS
<1>1. PICK plan \in Plans :
        /\ request = plan.asked
        /\ marker = [r \in Repositories |-> IF r \in plan.live THEN First ELSE None]
        /\ data = [r \in Repositories |-> IF r \in plan.live THEN plan.data ELSE {}]
  BY DEF Init
<1>2. /\ vocabulary = [r \in Repositories |->
           IF marker[r] = None THEN {} ELSE {[of |-> First, by |-> First, version |-> 0]}]
      /\ call = [c \in Clients |-> NoCall] /\ late = {}
  BY DEF Init
<1>3. \A c \in Clients : /\ call[c].pc = "idle" /\ call[c].gate = None /\ call[c].stood = {}
                         /\ call[c].reply = None
  BY <1>2 DEF NoCall
<1>4. \A r \in Repositories : /\ marker[r] \in {First, None}
                              /\ marker[r] = None => data[r] = {}
                              /\ \A d \in data[r] : marker[r] = First /\ d.of = First
  BY <1>1, LifeAssumption DEF First, None
<1>5. Known(First)
  BY LifeAssumption DEF Known, First, None
<1>6. WellMade
  <2>1. Asked
    BY <1>1, GraphAssumption DEF Asked
  <2>2. Gated /\ Shaped
    BY <1>3 DEF Gated, GateFits, Lands, Shaped, ShapeOf
  <2>3. ASSUME NEW r \in Repositories PROVE IsGraph(data[r])
    <3>1. IsGraph({})
      BY DEF IsGraph
    <3> QED
      BY <1>1, <3>1, GraphAssumption
  <2>4. Sources
    BY <1>3, <1>4, <1>5 DEF Sources
  <2> QED
    BY <1>2, <2>1, <2>2, <2>3, <2>4 DEF WellMade
<1>7. DroppedForGood
  BY <1>3 DEF DroppedForGood, Past
<1>8. CosmosOwns
  BY <1>3, <1>4 DEF CosmosOwns, OwnOrLate, Prepared
<1>9. Neo4jOwns
  BY <1>3, <1>4 DEF Neo4jOwns
<1>10. Drained
  BY <1>3 DEF Drained, Finished, None
<1> QED
  BY <1>6, <1>7, <1>8, <1>9, <1>10 DEF Owns

LEMMA OwnsHolds == Spec => [](WellMade /\ Owns)
<1>1. Base /\ Base' /\ Kept /\ WellMade /\ Owns /\ [Next]_vars => WellMade' /\ Owns'
  BY OwnsNext, OwnsStutters DEF Kept
<1> QED
  BY OwnsInit, <1>1, BaseHolds, KeptHolds, PTL DEF Spec

LEMMA OwnedIsAll == Base /\ WellMade /\ Owns => NothingOutlives
<1> SUFFICES ASSUME Base, WellMade, Owns PROVE NothingOutlives
  OBVIOUS
<1>1. late # {} => provider = "cosmosdb"
  BY DEF WellMade
<1>2. ASSUME ~(provider = "cosmosdb" /\ Several("create")), ~(provider = "neo4j" /\ Several("delete")),
             NEW r \in Repositories, marker[r] # None, NEW d \in data[r]
      PROVE  d.of = marker[r] \/ d \in late
  BY <1>2 DEF Owns, CosmosOwns, OwnOrLate, Neo4jOwns, Base, Rooted, Requests
<1>3. ASSUME ~(provider = "cosmosdb" /\ Several("create")), NEW c \in Clients,
             call[c].reply \in {"deleted", "not_found"}, Op(c) = "delete"
      PROVE  LeavesNothing(c)
  BY <1>3 DEF Owns, Drained, Finished
<1> QED
  BY <1>1, <1>2, <1>3 DEF NothingOutlives, LeavesNothing

\* Nothing outlives its repository: a delete that answers has drained all that it found
\* when it began, however it interleaves with creates, writes, failures and repetitions,
\* and a repository that lives holds only its own data; in CosmosDB apart from what
\* landed after its repository's marker had gone.
THEOREM NothingOutlivesItsRepository == Spec => []NothingOutlives
BY BaseHolds, OwnsHolds, OwnedIsAll, PTL

-----------------------------------------------------------------------------
(* How far a delete has come.                                              *)
Early == {"drop", "probe", "edges"}

\* It begins once, and does not go back to its first drains.
GoesOn(c) ==
  Op(c) = "delete" =>
    /\ call'[c].pc # "idle"
    /\ provider = "cosmosdb" /\ call'[c].pc \in Early => call[c].pc \in Early \cup {"idle"}
    /\ provider = "neo4j" /\ call'[c].pc \in Draining => call[c].pc \in Draining \cup {"drop"}
    /\ provider = "neo4j" /\ call'[c].pc = "drop" => call[c].pc \in {"drop", "idle"}

LEMMA SubmittedPc ==
  ASSUME Keeps, NEW c \in Clients, IsCall(call[c]), NEW cl, NEW x, NEW pc, cl.pc = x, Submitted(c, cl, pc)
  PROVE  call'[c].pc \in {x, pc}
BY SubmittedTo

LEMMA CosmosGoesOn ==
  ASSUME Base, NEW c \in Clients, Deletes(c), provider = "cosmosdb"
  PROVE  GoesOn(c)
<1>0. IsCall(call[c]) /\ Keeps
  BY DEF Base, Local, Fits
<1>g. \A x : Goes(c, x).pc = x
  BY <1>0, GoesIs DEF IsCall, Fields
<1>e. ASSUME NEW x, Becomes(c, Goes(c, x)) PROVE call'[c].pc = x
  BY <1>0, <1>e, GoKeeps
<1>f. ASSUME NEW reply, Becomes(c, Replies(c, reply)) PROVE call'[c].pc = "done"
  BY <1>0, <1>f, ReplyKeeps
<1>c. Completed(call[c]).pc = "done"
  BY <1>0, CompletedKeeps
<1> USE DEF GoesOn, Early
<1>1. CASE DropMarker(c)
  <2> DEFINE d == [Goes(c, "probe") EXCEPT !.gate = marker[Repo(c)]]
  <2>1. d.pc = "probe"
    BY <1>0, GoesIs DEF IsCall, Fields
  <2> HIDE DEF d
  <2>2. call[c].pc = "drop" /\ Submitted(c, d, "drop")
    BY <1>1 DEF DropMarker, d
  <2>3. call'[c].pc \in {"probe", "drop"}
    BY <1>0, <2>1, <2>2, SubmittedPc
  <2> QED
    BY <2>2, <2>3
<1>2. CASE ProbeForDelete(c)
  <2>1. call[c].pc = "probe" /\ \E x \in {"edges", "anything", "unlist"} : Becomes(c, Goes(c, x))
    BY <1>2 DEF ProbeForDelete
  <2>2. call'[c].pc \in {"edges", "anything", "unlist"}
    BY <2>1, <1>e
  <2> QED
    BY <2>1, <2>2
<1>3. CASE NothingLeft(c)
  <2> DEFINE d == [Goes(c, "entry") EXCEPT !.seen = index]
  <2>1. d.pc = "entry"
    BY <1>0, GoesIs DEF IsCall, Fields
  <2> HIDE DEF d
  <2>2. Becomes(c, d) \/ Becomes(c, Replies(c, "not_found"))
    BY <1>3 DEF NothingLeft, d
  <2>3. call'[c].pc \in {"entry", "done"}
    BY <1>0, <1>f, <2>1, <2>2, BecomesIs
  <2> QED
    BY <2>3
<1>4. CASE DrainEdges(c)
  <2> DEFINE d == [call[c] EXCEPT !.events = Progressed(call[c])]
  <2>1. d.pc = call[c].pc
    BY <1>0 DEF IsCall, Fields
  <2> HIDE DEF d
  <2>2. call[c].pc = "edges" /\ (Submitted(c, d, "edges") \/ Becomes(c, Goes(c, "entities")))
    BY <1>4 DEF DrainEdges, d
  <2>3. call'[c].pc \in {"edges", "entities"}
    BY <1>0, <1>e, <2>1, <2>2, SubmittedPc
  <2> QED
    BY <2>2, <2>3
<1>5. CASE SizeEntities(c)
  <2>1. Becomes(c, Goes(c, "vertices")) \/ Becomes(c, Goes(c, "drain"))
    BY <1>5 DEF SizeEntities
  <2> QED
    BY <1>e, <2>1
<1>6. CASE DrainEntities(c)
  <2> DEFINE went == [Goes(c, "entities") EXCEPT !.events = Progressed(call[c])]
  <2>1. IsCall(went) /\ went.pc = "entities"
    BY <1>0, GoesIs DEF IsCall, Fields
  <2>2. PICK batch : Submitted(c, Catches(c, went, batch), "drain")
    BY <1>6 DEF DrainEntities
  <2> HIDE DEF went
  <2>3. PICK d : Submitted(c, d, "drain") /\ d.pc = "entities"
    BY <2>1, <2>2, CatchesKeeps
  <2>4. call'[c].pc \in {"entities", "drain"}
    BY <1>0, <2>3, SubmittedPc
  <2> QED
    BY <2>4
<1>7. CASE DrainVertices(c)
  <2> DEFINE went == Goes(c, "remaining")
  <2>1. IsCall(went) /\ went.pc = "remaining"
    BY <1>0, GoesIs
  <2>2. PICK batch : Submitted(c, Catches(c, went, batch), "vertices")
    BY <1>7 DEF DrainVertices
  <2> HIDE DEF went
  <2>3. PICK d : Submitted(c, d, "vertices") /\ d.pc = "remaining"
    BY <2>1, <2>2, CatchesKeeps
  <2>4. call'[c].pc \in {"remaining", "vertices"}
    BY <1>0, <2>3, SubmittedPc
  <2> QED
    BY <2>4
<1>11. CASE UnlessRecreated(c)
  <2> DEFINE behind == [Goes(c, Behind(call[c].pc)) EXCEPT !.gate = marker[Repo(c)]]
  <2>1. Becomes(c, Completed(call[c])) \/ Becomes(c, behind)
    BY <1>11 DEF UnlessRecreated, StandsDown
  <2>2. Behind(call[c].pc) \in {"entity batch", "vertex batch", "cleanup"}
    BY <1>11 DEF UnlessRecreated, Behind
  <2>3. behind.pc = Behind(call[c].pc)
    <3>1. PICK pc : pc = Behind(call[c].pc)
      OBVIOUS
    <3>2. behind = [Goes(c, pc) EXCEPT !.gate = marker[Repo(c)]]
      BY <3>1
    <3> HIDE DEF behind
    <3>3. behind.pc = pc
      BY <1>0, <3>2, GoesIs DEF IsCall, Fields
    <3> QED
      BY <3>1, <3>3
  <2> HIDE DEF behind
  <2>4. call'[c].pc \in {"done", "entity batch", "vertex batch", "cleanup"}
    BY <1>0, <1>c, <2>1, <2>2, <2>3, BecomesIs
  <2> QED
    BY <2>4
<1>8. CASE CountRemaining(c)
  <2>1. Becomes(c, Goes(c, "vertices")) \/ Becomes(c, Goes(c, "unlist"))
    BY <1>8 DEF CountRemaining
  <2> QED
    BY <1>e, <2>1
<1>9. CASE ReadIndexForDelete(c)
  <2> DEFINE d == [Goes(c, "entry") EXCEPT !.seen = index]
  <2>1. d.pc = "entry"
    BY <1>0, GoesIs DEF IsCall, Fields
  <2> HIDE DEF d
  <2>2. Becomes(c, d) \/ Becomes(c, Completed(call[c]))
    BY <1>9 DEF ReadIndexForDelete, d
  <2>3. call'[c].pc \in {"entry", "done"}
    BY <1>0, <1>c, <2>1, <2>2, BecomesIs
  <2> QED
    BY <2>3
<1>10. CASE RemoveFromIndex(c)
  <2>1. Submitted(c, Completed(call[c]), "entry")
    BY <1>10 DEF RemoveFromIndex
  <2>2. call'[c].pc \in {"done", "entry"}
    BY <1>0, <1>c, <2>1, SubmittedTo
  <2> QED
    BY <2>2
<1> QED
  BY <1>1, <1>2, <1>3, <1>4, <1>5, <1>6, <1>7, <1>8, <1>9, <1>10, <1>11 DEF Deletes

LEMMA Neo4jGoesOn ==
  ASSUME Base, NEW c \in Clients, Op(c) = "delete", provider = "neo4j",
         \/ DetachMarker(c) \/ DrainRelationships(c) \/ DetachEntities(c) \/ DrainChangeLog(c)
         \/ SweepNodes(c) \/ DetachVocabulary(c)
  PROVE  GoesOn(c)
<1>0. IsCall(call[c]) /\ Keeps
  BY DEF Base, Local, Fits
<1> USE DEF GoesOn, Draining
<1>1. CASE DetachMarker(c)
  <2> DEFINE d == [Goes(c, "relationships") EXCEPT !.raw = marker[Repo(c)] # None]
  <2>1. d.pc = "relationships"
    BY <1>0, GoesIs DEF IsCall, Fields
  <2> HIDE DEF d
  <2>2. call[c].pc = "drop" /\ Submitted(c, d, "drop")
    BY <1>1 DEF DetachMarker, d
  <2>3. call'[c].pc \in {"relationships", "drop"}
    BY <1>0, <2>1, <2>2, SubmittedPc
  <2> QED
    BY <2>2, <2>3
<1>2. CASE DrainRelationships(c)
  <2>1. call[c].pc = "relationships"
    BY <1>2 DEF DrainRelationships
  <2>2. PICK edges, page :
          Drains(c, Repo(c), edges, Turned(Told(c, edges), page, edges, [Told(c, edges) EXCEPT !.pc = "entities"]))
    BY <1>2 DEF DrainRelationships
  <2> DEFINE t == Told(c, edges)
             end == [t EXCEPT !.pc = "entities"]
             d == Turned(t, page, edges, end)
  <2>3. Alike(c, t) /\ t.pc = "relationships"
    BY <1>0, <2>1, ToldKeeps
  <2> HIDE DEF t
  <2>4. Alike(c, end) /\ end.pc = "entities"
    BY <2>3 DEF Alike, IsCall, Fields
  <2> HIDE DEF end
  <2>5. Alike(c, d) /\ d.pc \in {"relationships", "entities"}
    BY <2>3, <2>4, TurnedKeeps
  <2>6. Drains(c, Repo(c), edges, d)
    BY <2>2 DEF t, end
  <2> HIDE DEF d
  <2>7. call'[c].pc \in {"relationships", "entities", "done"}
    BY <1>0, <2>5, <2>6, DrainsKeep
  <2> QED
    BY <2>1, <2>7
<1>3. CASE DetachEntities(c)
  <2>1. call[c].pc = "entities" /\ DrainNodes(c, Entities(Repo(c)), Goes(c, "log"))
    BY <1>3 DEF DetachEntities
  <2>2. call'[c].pc \in {"entities", "log", "done"}
    BY <1>0, <2>1, DrainNodesKeep
  <2> QED
    BY <2>1, <2>2
<1>4. CASE DrainChangeLog(c)
  <2>1. call[c].pc = "log" /\ DrainNodes(c, {d \in data[Repo(c)] : d.kind = "record"}, Goes(c, "rest"))
    BY <1>4 DEF DrainChangeLog
  <2>2. call'[c].pc \in {"log", "rest", "done"}
    BY <1>0, <2>1, DrainNodesKeep
  <2> QED
    BY <2>1, <2>2
<1>5. CASE SweepNodes(c)
  <2>1. call[c].pc = "rest" /\ DrainNodes(c, Vertices(Repo(c)), Goes(c, "last"))
    BY <1>5 DEF SweepNodes
  <2>2. call'[c].pc \in {"rest", "last", "done"}
    BY <1>0, <2>1, DrainNodesKeep
  <2> QED
    BY <2>1, <2>2
<1>6. CASE DetachVocabulary(c)
  <2>1. Submitted(c, Completed(call[c]), "last") \/ Submitted(c, Replies(c, "not_found"), "last")
    BY <1>6 DEF DetachVocabulary
  <2> DEFINE d == Completed(call[c])
  <2>2. d.pc = "done"
    BY <1>0, CompletedKeeps
  <2> HIDE DEF d
  <2>3. Submitted(c, d, "last") \/ Submitted(c, Replies(c, "not_found"), "last")
    BY <2>1 DEF d
  <2>4. ASSUME Submitted(c, d, "last") PROVE call'[c].pc \in {"last", "done"}
    BY <1>0, <2>2, <2>4, SubmittedTo
  <2>5. ASSUME Submitted(c, Replies(c, "not_found"), "last") PROVE call'[c].pc \in {"last", "done"}
    BY <1>0, <2>5, SubmittedReply
  <2> QED
    BY <2>3, <2>4, <2>5
<1> QED
  BY <1>1, <1>2, <1>3, <1>4, <1>5, <1>6

LEMMA GoesOnStep ==
  ASSUME Base, NEW c \in Clients, Step(c) \/ Trouble(c)
  PROVE  GoesOn(c)
<1> SUFFICES ASSUME Op(c) = "delete" PROVE GoesOn(c)
  BY DEF GoesOn
<1>0. Fits(c, call[c], c \in alive) /\ IsCall(call[c]) /\ Keeps
  BY DEF Base, Local, Fits
<1>1. CASE BeginDelete(c)
  <2> DEFINE d(events) == [Goes(c, "drop") EXCEPT !.stood = Standing(Repo(c)), !.events = events]
  <2>1. call[c].pc = "idle" /\ \E events : Becomes(c, d(events))
    BY <1>1 DEF BeginDelete
  <2>2. PICK events : Becomes(c, d(events))
    BY <2>1
  <2>3. d(events).pc = "drop"
    BY <1>0, GoesIs DEF IsCall, Fields
  <2> HIDE DEF d
  <2>4. call'[c].pc = "drop"
    BY <1>0, <2>2, <2>3, BecomesIs
  <2> QED
    BY <2>1, <2>4 DEF GoesOn, Early, Draining
<1>2. CASE Fails(c)
  <2>1. call'[c].pc = "done"
    BY <1>0, <1>2, ReplyKeeps DEF Fails
  <2> QED
    BY <2>1 DEF GoesOn, Early, Draining
<1>3. CASE provider = "cosmosdb" /\ Deletes(c)
  BY <1>3, CosmosGoesOn
<1>4. CASE provider = "neo4j" /\ ~BeginDelete(c) /\ ~Fails(c)
  BY <1>0, <1>4, Neo4jDeletesOnly, Neo4jGoesOn
<1>5. CASE provider = "sqlserver" /\ DeleteRepository(c)
  <2> DEFINE d == Completed(call[c])
  <2>1. d.pc = "done"
    BY <1>0, CompletedKeeps
  <2> HIDE DEF d
  <2>2. Answered(c, d) \/ Becomes(c, Replies(c, "not_found"))
    BY <1>5 DEF DeleteRepository, d
  <2>3. call'[c].pc = "done"
    BY <1>0, <2>1, <2>2, AnsweredKeeps, ReplyKeeps
  <2> QED
    BY <2>3 DEF GoesOn, Early, Draining
<1> QED
  BY <1>0, <1>1, <1>2, <1>3, <1>4, <1>5, CosmosDeletesOnly, SqlDeletesOnly DEF Base, Requests

-----------------------------------------------------------------------------
(* What a step takes away.                                                 *)

Removals == {"remove", "erase", "purge", "cut", "clear"}

\* What a delete may drain at a step; CosmosDB's batches of vertices drain from behind a
\* marker only what they catch.
MayDrain(c, d) ==
  \/ /\ provider = "cosmosdb"
     /\ marker[Repo(c)] = None \/ (d.kind = "edge" /\ call[c].pc = "edges") \/ d \in call'[c].caught
  \/ provider = "neo4j" /\ call[c].pc \in Draining
  \/ provider = "sqlserver" /\ marker'[Repo(c)] = None

MayTake(c, d) == Op(c) \in Removals \/ (Op(c) = "delete" /\ MayDrain(c, d))

Takes(c) ==
  \A r \in Repositories : \A d \in data[r] :
    d.kind \in {"entity", "edge"} => d \in data'[r] \/ (r = Repo(c) /\ MayTake(c, d))

LEMMA TakesNothing ==
  ASSUME NEW c, UNCHANGED data
  PROVE  Takes(c)
BY DEF Takes

LEMMA TakesItems ==
  ASSUME Keeps, NEW c, NEW items, ChangesData(Repo(c), items),
         \A d \in data[Repo(c)] : d.kind \in {"entity", "edge"} => d \in items \/ MayTake(c, d)
  PROVE  Takes(c)
<1>1. \A r \in Repositories : data'[r] = data[r] \/ (r = Repo(c) /\ data'[r] = items)
  BY DEF ChangesData, Keeps
<1> QED
  BY <1>1 DEF Takes

\* A call that removes may take anything of its repository.
LEMMA TakesRemoved ==
  ASSUME Keeps, NEW c, Op(c) \in Removals, UNCHANGED data \/ \E items : ChangesData(Repo(c), items)
  PROVE  Takes(c)
BY TakesNothing, TakesItems DEF MayTake

\* A call that adds takes nothing.
LEMMA TakesAdded ==
  ASSUME Keeps, NEW c, UNCHANGED data \/ \E added : ChangesData(Repo(c), data[Repo(c)] \cup added)
  PROVE  Takes(c)
<1>1. ASSUME NEW added, ChangesData(Repo(c), data[Repo(c)] \cup added) PROVE Takes(c)
  <2> DEFINE items == data[Repo(c)] \cup added
  <2>1. ChangesData(Repo(c), items) /\ data[Repo(c)] \subseteq items
    BY <1>1
  <2> HIDE DEF items
  <2> QED
    BY <2>1, TakesItems
<1> QED
  BY <1>1, TakesNothing

\* What a batch takes after a marker was written behind its back is kept account of.
LEMMA BatchTakes ==
  ASSUME Keeps, NEW c \in Clients, IsCall(call[c]), provider = "cosmosdb", Op(c) = "delete",
         call[c].pc \in Batch, LooksBehind(c), NEW cl, IsCall(cl), NEW batch, NEW pc,
         ChangesData(Repo(c), Without(Repo(c), batch)), Submitted(c, Catches(c, cl, batch), pc)
  PROVE  Takes(c)
<1> DEFINE r == Repo(c)
           gone == data[r] \ Without(r, batch)
           went == Catches(c, cl, batch)
           again == [Goes(c, pc) EXCEPT !.resent = TRUE, !.stored = went.stored, !.recorded = went.recorded,
                       !.wrote = went.wrote, !.took = went.took, !.caught = went.caught]
<1>1. call[c].gate = None
  BY DEF LooksBehind
<1>2. ASSUME marker[r] # None PROVE gone \subseteq went.caught
  <2>1. Overtaken(c)
    BY <1>1, <1>2 DEF Overtaken
  <2>2. went = [cl EXCEPT !.caught = @ \cup gone]
    BY <2>1 DEF Catches
  <2> HIDE DEF went, gone
  <2> QED
    BY <2>2 DEF IsCall, Fields
<1>3. again.caught = went.caught
  <2> HIDE DEF went
  <2> QED
    BY GoesIs DEF IsCall, Fields
<1>4. Becomes(c, went) \/ Becomes(c, again)
  BY DEF Submitted
<1> HIDE DEF went, again
<1>5. call'[c].caught = went.caught
  BY <1>3, <1>4, BecomesIs
<1>6. ASSUME NEW d \in data[r] PROVE d \in Without(r, batch) \/ MayTake(c, d)
  BY <1>2, <1>5, <1>6 DEF MayTake, MayDrain
<1> QED
  BY <1>6, TakesItems

LEMMA CosmosDeleteTakes ==
  ASSUME Keeps, NEW c \in Clients, IsCall(call[c]), Fits(c, call[c], c \in alive), Deletes(c), LooksBehind(c), provider = "cosmosdb"
  PROVE  Takes(c)
<1>1. CASE DrainEdges(c)
  <2>1. CASE Op(c) = "clear"
    BY <1>1, <2>1, TakesRemoved DEF DrainEdges, Removals
  <2>2. CASE Op(c) = "delete" /\ ~UNCHANGED data
    <3>1. /\ call[c].pc = "edges"
          /\ \E batch \in Batches(Edges(Repo(c))) : ChangesData(Repo(c), Without(Repo(c), batch))
      BY <1>1, <2>2 DEF DrainEdges
    <3>2. PICK batch : batch \subseteq Edges(Repo(c)) /\ ChangesData(Repo(c), Without(Repo(c), batch))
      BY <3>1 DEF Batches, Some, kSubset
    <3>3. \A d \in data[Repo(c)] : d \in Without(Repo(c), batch) \/ d.kind = "edge"
      BY <3>2 DEF Without, Linked, Edges
    <3> QED
      BY <2>2, <3>1, <3>2, <3>3, TakesItems DEF MayTake, MayDrain
  <2> QED
    BY <1>1, <2>1, <2>2, TakesNothing DEF DrainEdges
<1>2. CASE DrainEntities(c)
  <2> DEFINE went == [Goes(c, "entities") EXCEPT !.events = Progressed(call[c])]
  <2>1. IsCall(went)
    BY GoesIs DEF IsCall, Fields
  <2>2. PICK batch : /\ ChangesData(Repo(c), Without(Repo(c), batch))
                     /\ Submitted(c, Catches(c, went, batch), "drain")
    BY <1>2 DEF DrainEntities
  <2>3. call[c].pc \in Batch /\ Op(c) = "delete"
    BY <1>2 DEF DrainEntities, Batch, Fits, PcFits
  <2> HIDE DEF went
  <2> QED
    BY <2>1, <2>2, <2>3, BatchTakes
<1>3. CASE DrainVertices(c)
  <2> DEFINE went == Goes(c, "remaining")
  <2>1. IsCall(went)
    BY GoesIs
  <2>2. PICK taken : /\ ChangesData(Repo(c), Without(Repo(c), taken))
                     /\ Submitted(c, Catches(c, went, taken), "vertices")
    BY <1>3 DEF DrainVertices
  <2>3. call[c].pc \in Batch /\ Op(c) = "delete"
    BY <1>3 DEF DrainVertices, Batch, Fits, PcFits
  <2> HIDE DEF went
  <2> QED
    BY <2>1, <2>2, <2>3, BatchTakes
<1> QED
  BY <1>1, <1>2, <1>3, TakesNothing
     DEF Deletes, DropMarker, ProbeForDelete, NothingLeft, SizeEntities, UnlessRecreated, CountRemaining,
         ReadIndexForDelete, RemoveFromIndex, store

LEMMA CosmosTakes ==
  ASSUME Keeps, NEW c \in Clients, Fits(c, call[c], c \in alive), IsCall(call[c]), LooksBehind(c),
         provider = "cosmosdb",
         CosmosStep(c) \/ CosmosImportStep(c) \/ CosmosImportTrouble(c)
  PROVE  Takes(c)
<1>1. CASE Creates(c)
  BY <1>1, TakesNothing
     DEF Creates, ProbeForCreate, WhyOccupied, WriteVocabulary, ReadIndexForCreate, WriteMarker, store
<1>2. CASE Deletes(c)
  BY <1>2, CosmosDeleteTakes
<1>3. CASE RemoveChunk(c) \/ DropBatch(c) \/ DropEdgeBatch(c) \/ ClearEntities(c)
  <2>1. Op(c) \in Removals
    BY <1>3 DEF RemoveChunk, DropBatch, DropEdgeBatch, ClearEntities, Fits, PcFits, Removals
  <2>2. UNCHANGED data \/ \E items : ChangesData(Repo(c), items)
    BY <1>3 DEF RemoveChunk, DropBatch, DropEdgeBatch, ClearEntities
  <2> QED
    BY <2>1, <2>2, TakesRemoved
<1>4. CASE Land(c)
  BY <1>4, TakesAdded DEF Land
<1>5. CASE Writes(c)
  BY <1>3, <1>4, <1>5, TakesNothing DEF Writes, CheckAndAdd, BeginRemove, ReadBatch, AssertMarker, store
<1>6. CASE WriteRecord(c)
  BY <1>6, TakesAdded DEF WriteRecord
<1>7. CASE PutRecord(c)
  <2>1. UNCHANGED data \/ \E whole : ChangesData(Repo(c), CompleteRecord(c, whole))
    BY <1>7 DEF PutRecord
  <2>2. ASSUME NEW whole, NEW d \in data[Repo(c)], d.kind \in {"entity", "edge"}
        PROVE  d \in CompleteRecord(c, whole)
    BY <2>2 DEF CompleteRecord
  <2> QED
    BY <2>1, <2>2, TakesNothing, TakesItems
<1>8. CASE Saves(c)
  BY <1>6, <1>7, <1>8, TakesNothing DEF Saves, MatchVersion, CompareAndSet, ReadState, EnsureRecord, store
<1>9. CASE OpenImport(c) \/ CloseImport(c)
  BY <1>9, TakesNothing DEF OpenImport, CloseImport, store
<1>10. ASSUME NEW k, NEW j, LandRow(c, k, j) PROVE Takes(c)
  BY <1>10, TakesAdded DEF LandRow
<1>11. ASSUME NEW k, NEW j,
              CheckChunk(c, k) \/ DispatchRow(c, k) \/ PoolEnds(c, k) \/ FindRow(c, k, j) \/ RowTrouble(c, k, j)
       PROVE  Takes(c)
  BY <1>11, TakesNothing DEF CheckChunk, DispatchRow, PoolEnds, FindRow, RowTrouble, store
<1> QED
  BY <1>1, <1>2, <1>5, <1>8, <1>9, <1>10, <1>11 DEF CosmosStep, CosmosImportStep, CosmosImportTrouble

LEMMA Neo4jTakes ==
  ASSUME Keeps, NEW c \in Clients, Fits(c, call[c], c \in alive), provider = "neo4j",
         Neo4jStep(c) \/ ImportStep(c) \/ ImportTrouble(c)
  PROVE  Takes(c)
<1> DEFINE MoveData == UNCHANGED data \/ \E items : ChangesData(Repo(c), items)
<1>a. ASSUME NEW gone, NEW cl, Drains(c, Repo(c), gone, cl) PROVE MoveData
  BY <1>a DEF Drains
<1>b. ASSUME NEW nodes, NEW next, DrainNodes(c, nodes, next) PROVE MoveData
  BY <1>a, <1>b DEF DrainNodes
<1> HIDE DEF MoveData
<1>c. ASSUME MoveData, Op(c) \in Removals PROVE Takes(c)
  BY <1>c, TakesRemoved DEF MoveData
<1>1. CASE \/ CreateRepository(c) \/ ReadRepositoryToken(c) \/ DetachMarker(c) \/ DetachVocabulary(c)
           \/ AssertBeforeClear(c) \/ ReadToken(c) \/ ReadSaveOutcome(c) \/ BeginImport(c) \/ EndImport(c)
  BY <1>1, TakesNothing DEF CreateRepository, ReadRepositoryToken, DetachMarker, DetachVocabulary,
     AssertBeforeClear, ReadToken, ReadSaveOutcome, BeginImport, EndImport, Unmarked, store
<1>2. CASE DrainRelationships(c) \/ DetachEntities(c) \/ DrainChangeLog(c) \/ SweepNodes(c)
  <2>1. MoveData
    BY <1>a, <1>b, <1>2 DEF DrainRelationships, DetachEntities, DrainChangeLog, SweepNodes
  <2>2. call[c].pc \in Draining
    BY <1>2 DEF DrainRelationships, DetachEntities, DrainChangeLog, SweepNodes, Draining
  <2>3. Op(c) = "delete" \/ Op(c) \in Removals
    BY <2>2 DEF Fits, PcFits, Draining, Removals
  <2>4. CASE Op(c) = "delete"
    BY <2>1, <2>2, <2>4, TakesNothing, TakesItems DEF MoveData, MayTake, MayDrain
  <2> QED
    BY <1>c, <2>1, <2>3, <2>4
<1>3. CASE DeleteByIds(c) \/ DeleteTypeBatch(c) \/ DeleteEdgesOfPage(c)
  <2>1. Op(c) \in Removals
    BY <1>3 DEF DeleteByIds, DeleteTypeBatch, DeleteEdgesOfPage, Removals
  <2>2. MoveData
    <3>1. CASE DeleteByIds(c)
      BY <3>1 DEF DeleteByIds, MoveData
    <3>2. CASE DeleteTypeBatch(c)
      BY <3>2 DEF DeleteTypeBatch, MoveData
    <3>3. CASE DeleteEdgesOfPage(c)
      <4>1. UNCHANGED data \/ \E edges, cl : Drains(c, Repo(c), edges, cl)
        BY <3>3 DEF DeleteEdgesOfPage
      <4> QED
        BY <1>a, <4>1 DEF MoveData
    <3> QED
      BY <1>3, <3>1, <3>2, <3>3
  <2> QED
    BY <1>c, <2>1, <2>2
<1>4. CASE AddItem(c) \/ SaveVocabulary(c)
  BY <1>4, TakesAdded DEF AddItem, SaveVocabulary
<1>5. ASSUME NEW k, SendChunk(c, k) \/ ImportRow(c, k) PROVE Takes(c)
  <2>1. UNCHANGED data \/ \E rows, token : ChangesData(Repo(c), Stores(c, rows, token))
    <3>1. CASE SendChunk(c, k)
      BY <3>1 DEF SendChunk
    <3>2. CASE ImportRow(c, k)
      BY <3>2 DEF ImportRow
    <3> QED
      BY <1>5, <3>1, <3>2
  <2>2. \A rows, token : \E added : Stores(c, rows, token) = data[Repo(c)] \cup added
    BY DEF Stores
  <2> QED
    BY <2>1, <2>2, TakesAdded
<1>6. ASSUME NEW k, Dispatch(c, k) \/ CountCarrying(c, k) \/ ReadTokens(c, k) \/ ChunkFails(c, k)
      PROVE  Takes(c)
  BY <1>6, TakesNothing DEF Dispatch, CountCarrying, ReadTokens, ChunkFails, Unmarked, store
<1> QED
  BY <1>1, <1>2, <1>3, <1>4, <1>5, <1>6 DEF Neo4jStep, ImportStep, ImportTrouble

LEMMA SqlTakes ==
  ASSUME Keeps, NEW c \in Clients, Fits(c, call[c], c \in alive), provider = "sqlserver", SqlServerStep(c)
  PROVE  Takes(c)
<1>1. CASE \/ LookForRepository(c) \/ InsertRepository(c) \/ InsertVocabulary(c) \/ AssertForClear(c)
           \/ ExplainMiss(c) \/ AssertForCreate(c) \/ LookForEntity(c) \/ ReadPreconditions(c)
           \/ ExplainForeignKey(c)
  BY <1>1, TakesNothing DEF LookForRepository, InsertRepository, InsertVocabulary, AssertForClear,
     ExplainMiss, AssertForCreate, LookForEntity, ReadPreconditions, ExplainForeignKey, Unchanged, store
<1>2. CASE DeleteRepository(c)
  <2>1. Op(c) = "delete"
    BY <1>2 DEF DeleteRepository, Fits, PcFits
  <2>2. UNCHANGED data
        \/ (ChangesData(Repo(c), {}) /\ marker' = [marker EXCEPT ![Repo(c)] = None])
    BY <1>2 DEF DeleteRepository
  <2>3. CASE ChangesData(Repo(c), {}) /\ marker' = [marker EXCEPT ![Repo(c)] = None] /\ Repo(c) \in Repositories
    <3>1. marker'[Repo(c)] = None
      BY <2>3 DEF Keeps
    <3> QED
      BY <2>1, <2>3, <3>1, TakesItems DEF MayTake, MayDrain
  <2>4. CASE Repo(c) \notin Repositories
    BY <2>2, <2>4, TakesNothing DEF ChangesData, Keeps, Takes
  <2> QED
    BY <2>2, <2>3, <2>4, TakesNothing
<1>3. CASE \/ DeleteRelationships(c) \/ DeleteEntities(c) \/ DeleteEntityEdges(c) \/ DeleteEntityRow(c)
           \/ GuardedDelete(c)
  <2>1. Op(c) \in Removals
    BY <1>3 DEF DeleteRelationships, DeleteEntities, DeleteEntityEdges, DeleteEntityRow, GuardedDelete,
                Fits, PcFits, Removals
  <2>2. UNCHANGED data \/ \E gone, cl : DeletesRows(c, gone, cl)
    BY <1>3 DEF DeleteRelationships, DeleteEntities, DeleteEntityEdges, DeleteEntityRow, GuardedDelete
  <2>3. ASSUME NEW gone, NEW cl, DeletesRows(c, gone, cl)
        PROVE  UNCHANGED data \/ \E items : ChangesData(Repo(c), items)
    BY <2>3 DEF DeletesRows
  <2> QED
    BY <2>1, <2>2, <2>3, TakesRemoved
<1>4. CASE InsertRow(c)
  BY <1>4, TakesAdded DEF InsertRow
<1>5. CASE UpdateVocabulary(c)
  BY <1>5, TakesAdded DEF UpdateVocabulary
<1>6. CASE ImportInOneTransaction(c)
  BY <1>6, TakesAdded DEF ImportInOneTransaction
<1> QED
  BY <1>1, <1>2, <1>3, <1>4, <1>5, <1>6 DEF SqlServerStep

LEMMA TakesStep ==
  ASSUME Base, Guarded, NEW c \in Clients, Step(c) \/ Trouble(c)
  PROVE  Takes(c)
<1>0. /\ Keeps /\ Fits(c, call[c], c \in alive) /\ IsCall(call[c])
      /\ provider = "cosmosdb" => LooksBehind(c)
  BY DEF Base, Local, Fits, Guarded
<1>1. CASE BeginDelete(c) \/ ReadVersion(c) \/ Fails(c)
  BY <1>1, TakesNothing DEF BeginDelete, ReadVersion, Fails, store
<1> QED
  BY <1>0, <1>1, CosmosTakes, Neo4jTakes, SqlTakes DEF Step, Trouble

\* A delete does not forget what its batches have caught.
Recalls(c) == provider = "cosmosdb" /\ Op(c) = "delete" => call[c].caught \subseteq call'[c].caught

LEMMA BecomesRecalls ==
  ASSUME Keeps, NEW c \in Clients, NEW cl, call[c].caught \subseteq cl.caught, Becomes(c, cl)
  PROVE  Recalls(c)
BY BecomesIs DEF Recalls

LEMMA SubmittedRecalls ==
  ASSUME Keeps, NEW c \in Clients, IsCall(call[c]), NEW cl, call[c].caught \subseteq cl.caught, NEW pc,
         Submitted(c, cl, pc)
  PROVE  Recalls(c)
<1> DEFINE again == [Goes(c, pc) EXCEPT !.resent = TRUE, !.stored = cl.stored, !.recorded = cl.recorded,
                       !.wrote = cl.wrote, !.took = cl.took, !.caught = cl.caught]
<1>1. again.caught = cl.caught
  BY GoesIs DEF IsCall, Fields
<1>2. Becomes(c, cl) \/ Becomes(c, again)
  BY DEF Submitted
<1> HIDE DEF again
<1> QED
  BY <1>1, <1>2, BecomesRecalls

LEMMA RecallsStep ==
  ASSUME Base, NEW c \in Clients, Step(c) \/ Trouble(c)
  PROVE  Recalls(c)
<1> SUFFICES ASSUME provider = "cosmosdb", Op(c) = "delete" PROVE Recalls(c)
  BY DEF Recalls
<1>0. Fits(c, call[c], c \in alive) /\ IsCall(call[c]) /\ Keeps
  BY DEF Base, Local, Fits
<1> DEFINE Recalling(cl) == IsCall(cl) /\ cl.caught = call[c].caught
<1>1. Recalling(call[c]) /\ Recalling(Completed(call[c])) /\ \A x : Recalling(Goes(c, x)) /\ Recalling(Replies(c, x))
  <2>1. Recalling(call[c]) /\ \A x : Recalling(Goes(c, x)) /\ Recalling(Replies(c, x))
    BY <1>0, GoesIs, RepliesIs DEF Fields
  <2>2. Recalling(Completed(call[c]))
    BY <1>0 DEF Completed, IsCall, Fields
  <2> QED
    BY <2>1, <2>2
<1>2. ASSUME NEW cl, Recalling(cl), NEW v, NEW w
      PROVE  /\ Recalling([cl EXCEPT !.gate = v]) /\ Recalling([cl EXCEPT !.seen = v]) /\ Recalling([cl EXCEPT !.events = v])
             /\ Recalling([cl EXCEPT !.stood = v, !.events = w])
  BY <1>2 DEF IsCall, Fields
<1>3. ASSUME NEW cl, Recalling(cl), Becomes(c, cl) PROVE Recalls(c)
  BY <1>0, <1>3, BecomesRecalls
<1>4. ASSUME NEW cl, Recalling(cl), NEW pc, Submitted(c, cl, pc) PROVE Recalls(c)
  BY <1>0, <1>4, SubmittedRecalls
<1>5. ASSUME NEW cl, Recalling(cl), NEW batch, NEW pc, Submitted(c, Catches(c, cl, batch), pc) PROVE Recalls(c)
  <2>1. \A v : [cl EXCEPT !.caught = v].caught = v
    BY <1>5 DEF IsCall, Fields
  <2>2. call[c].caught \subseteq Catches(c, cl, batch).caught
    BY <1>5, <2>1 DEF Catches
  <2> QED
    BY <1>0, <1>5, <2>2, SubmittedRecalls
<1> HIDE DEF Recalling
<1>6. CASE BeginDelete(c)
  <2>1. \E events : Becomes(c, [Goes(c, "drop") EXCEPT !.stood = Standing(Repo(c)), !.events = events])
    BY <1>6 DEF BeginDelete
  <2> QED
    BY <1>1, <1>2, <1>3, <2>1
<1>7. CASE Fails(c)
  BY <1>1, <1>3, <1>7 DEF Fails
<1>8. CASE DropMarker(c)
  BY <1>1, <1>2, <1>4, <1>8 DEF DropMarker
<1>9. CASE ProbeForDelete(c) \/ SizeEntities(c) \/ CountRemaining(c)
  BY <1>1, <1>3, <1>9 DEF ProbeForDelete, SizeEntities, CountRemaining
<1>10. CASE NothingLeft(c) \/ ReadIndexForDelete(c)
  BY <1>1, <1>2, <1>3, <1>10 DEF NothingLeft, ReadIndexForDelete
<1>11. CASE DrainEdges(c)
  BY <1>1, <1>2, <1>3, <1>4, <1>11 DEF DrainEdges
<1>12. CASE UnlessRecreated(c)
  BY <1>1, <1>2, <1>3, <1>12 DEF UnlessRecreated, StandsDown
<1>13. CASE DrainEntities(c)
  <2>1. Recalling([Goes(c, "entities") EXCEPT !.events = Progressed(call[c])])
    BY <1>1, <1>2
  <2> QED
    BY <1>5, <1>13, <2>1 DEF DrainEntities
<1>14. CASE DrainVertices(c)
  BY <1>1, <1>5, <1>14 DEF DrainVertices
<1>15. CASE RemoveFromIndex(c)
  BY <1>1, <1>4, <1>15 DEF RemoveFromIndex
<1> QED
  BY <1>0, <1>6, <1>7, <1>8, <1>9, <1>10, <1>11, <1>12, <1>13, <1>14, <1>15, CosmosDeletesOnly DEF Deletes

-----------------------------------------------------------------------------
(* What a step stores, and what it says of it.                             *)

\* Neo4j tells by the token which call has stored an item.
IsSigned(d) ==
  \A c \in Clients : Op(c) \in {"entity", "edge"} /\ d.by = Token(c, 0, 0) => d = NewItem(c, d.of)

Signs(c) == provider = "neo4j" => \A r \in Repositories : \A d \in data'[r] : d \in data[r] \/ IsSigned(d)

LEMMA SignsNothing ==
  ASSUME Keeps, NEW c, UNCHANGED data \/ \E gone : ChangesData(Repo(c), Without(Repo(c), gone))
  PROVE  Signs(c)
BY DEF Signs, ChangesData, Keeps, Without

LEMMA SignsAdded ==
  ASSUME Keeps, NEW c, NEW added, ChangesData(Repo(c), data[Repo(c)] \cup added), \A d \in added : IsSigned(d)
  PROVE  Signs(c)
BY DEF Signs, ChangesData, Keeps

\* Tokens of other writes.
LEMMA OthersToken ==
  ASSUME NEW d, NEW m, NEW i, NEW j, d.by = Token(m, i, j), m \notin Clients \/ Op(m) \notin {"entity", "edge"}
  PROVE  IsSigned(d)
BY DEF IsSigned, Token

LEMMA StoresSigned ==
  ASSUME Keeps, NEW c \in Clients, Op(c) = "import", NEW rows, NEW i, NEW j,
         ChangesData(Repo(c), Stores(c, rows, Token(c, i, j)))
  PROVE  Signs(c)
<1> DEFINE added == IF request[c].insert THEN {ItemOf(c, row, Token(c, i, j)) : row \in rows}
                    ELSE {ItemOf(c, row, Token(None, 0, 0)) : row \in {w \in rows : StoredUnder(c, w) = {}}}
<1>1. Stores(c, rows, Token(c, i, j)) = data[Repo(c)] \cup added
  BY DEF Stores
<1>2. ASSUME NEW d \in added PROVE d.by = Token(c, i, j) \/ d.by = Token(None, 0, 0)
  BY DEF ItemOf, Item
<1>3. None \notin Clients
  BY LifeAssumption
<1> HIDE DEF added
<1>4. \A d \in added : IsSigned(d)
  BY <1>2, <1>3, OthersToken
<1> QED
  BY <1>1, <1>4, SignsAdded

LEMMA Neo4jDrainsSign ==
  ASSUME Keeps, NEW c,
         \/ DrainRelationships(c) \/ DetachEntities(c) \/ DrainChangeLog(c) \/ SweepNodes(c)
         \/ DeleteByIds(c) \/ DeleteTypeBatch(c) \/ DeleteEdgesOfPage(c)
  PROVE  Signs(c)
<1> DEFINE Takings == UNCHANGED data \/ \E gone : ChangesData(Repo(c), Without(Repo(c), gone))
<1>1. ASSUME NEW gone, NEW cl, Drains(c, Repo(c), gone, cl) PROVE Takings
  BY <1>1 DEF Drains
<1>2. ASSUME NEW nodes, NEW next, DrainNodes(c, nodes, next) PROVE Takings
  BY <1>1, <1>2 DEF DrainNodes
<1> HIDE DEF Takings
<1>3. CASE DrainRelationships(c) \/ DetachEntities(c) \/ DrainChangeLog(c) \/ SweepNodes(c)
  <2>1. Takings
    BY <1>1, <1>2, <1>3 DEF DrainRelationships, DetachEntities, DrainChangeLog, SweepNodes
  <2> QED
    BY <2>1, SignsNothing DEF Takings
<1>4. CASE DeleteByIds(c)
  BY <1>4, SignsNothing DEF DeleteByIds
<1>5. CASE DeleteTypeBatch(c)
  BY <1>5, SignsNothing DEF DeleteTypeBatch
<1>6. CASE DeleteEdgesOfPage(c)
  <2>1. UNCHANGED data \/ \E edges, cl : Drains(c, Repo(c), edges, cl)
    BY <1>6 DEF DeleteEdgesOfPage
  <2>2. Takings
    BY <1>1, <2>1 DEF Takings
  <2> QED
    BY <2>2, SignsNothing DEF Takings
<1> QED
  BY <1>3, <1>4, <1>5, <1>6

LEMMA SignsStep ==
  ASSUME Base, NEW c \in Clients, Step(c) \/ Trouble(c)
  PROVE  Signs(c)
<1>0. Keeps /\ Fits(c, call[c], c \in alive)
  BY DEF Base, Local
<1>1. CASE BeginDelete(c) \/ ReadVersion(c) \/ Fails(c)
  BY <1>0, <1>1, SignsNothing DEF BeginDelete, ReadVersion, Fails, store
<1>2. CASE \/ CreateRepository(c) \/ ReadRepositoryToken(c) \/ DetachMarker(c) \/ DetachVocabulary(c)
           \/ AssertBeforeClear(c) \/ ReadToken(c) \/ ReadSaveOutcome(c) \/ BeginImport(c) \/ EndImport(c)
  BY <1>0, <1>2, SignsNothing DEF CreateRepository, ReadRepositoryToken, DetachMarker, DetachVocabulary,
     AssertBeforeClear, ReadToken, ReadSaveOutcome, BeginImport, EndImport, Unmarked, store
<1>3. CASE AddItem(c)
  <2> DEFINE d == NewItem(c, marker[Repo(c)])
             added == {d}
  <2>1. d.of = marker[Repo(c)] /\ d.by = Token(c, 0, 0)
    BY DEF NewItem, Item
  <2>2. IsSigned(d)
    BY <2>1 DEF IsSigned, Token
  <2>3. UNCHANGED data \/ ChangesData(Repo(c), data[Repo(c)] \cup added)
    BY <1>3 DEF AddItem
  <2> HIDE DEF d
  <2>4. \A e \in added : IsSigned(e)
    BY <2>2
  <2> HIDE DEF added
  <2> QED
    BY <1>0, <2>3, <2>4, SignsNothing, SignsAdded
<1>4. CASE SaveVocabulary(c)
  <2> DEFINE d == ChangeRecord(c, "record", marker[Repo(c)])
             added == {d}
  <2>1. d.by = Token(c, 0, 0)
    BY DEF ChangeRecord, Item
  <2>2. UNCHANGED data \/ ChangesData(Repo(c), data[Repo(c)] \cup added)
    BY <1>4 DEF SaveVocabulary
  <2>3. Op(c) = "save"
    BY <1>0, <1>4 DEF SaveVocabulary, Fits, PcFits
  <2> HIDE DEF d
  <2>4. \A e \in added : IsSigned(e)
    BY <2>1, <2>3, OthersToken
  <2> HIDE DEF added
  <2> QED
    BY <1>0, <2>2, <2>4, SignsNothing, SignsAdded
<1>5. ASSUME call[c].pc = "importing", NEW k, SendChunk(c, k) \/ ImportRow(c, k) PROVE Signs(c)
  <2>1. Op(c) = "import"
    BY <1>0, <1>5 DEF Fits, PcFits
  <2>2. UNCHANGED data \/ \E rows, i, j : ChangesData(Repo(c), Stores(c, rows, Token(c, i, j)))
    <3>1. CASE SendChunk(c, k)
      BY <3>1 DEF SendChunk
    <3>2. CASE ImportRow(c, k)
      BY <3>2 DEF ImportRow, RowToken
    <3> QED
      BY <1>5, <3>1, <3>2
  <2> QED
    BY <1>0, <2>1, <2>2, SignsNothing, StoresSigned
<1>6. ASSUME NEW k, Dispatch(c, k) \/ CountCarrying(c, k) \/ ReadTokens(c, k) \/ ChunkFails(c, k)
      PROVE  Signs(c)
  BY <1>0, <1>6, SignsNothing DEF Dispatch, CountCarrying, ReadTokens, ChunkFails, Unmarked, store
<1>7. CASE provider # "neo4j"
  BY <1>7 DEF Signs
<1> QED
  BY <1>0, <1>1, <1>2, <1>3, <1>4, <1>5, <1>6, <1>7, Neo4jDrainsSign
     DEF Step, Trouble, Neo4jStep, ImportStep, ImportTrouble

\* A call that adds answers so when its item is stored, or when it finds an item under its
\* own token.
Stored(c, of) ==
  \/ NewItem(c, of) \in data'[Repo(c)]
  \/ provider = "neo4j" /\ UNCHANGED data /\ of = marker[Repo(c)] /\ \E d \in data[Repo(c)] : OwnToken(c, d)

AddsTruly(c) ==
  Op(c) \in {"entity", "edge"} /\ call'[c].reply = "created" =>
    /\ call'[c].gate \in {call[c].gate, marker[Repo(c)]}
    /\ provider # "cosmosdb" => call'[c].gate = marker[Repo(c)]
    /\ Stored(c, call'[c].gate)

LEMMA CreatedIs ==
  ASSUME NEW c, IsCall(call[c]), NEW of
  PROVE  /\ Created(c, of).gate = of /\ Created(c, of).reply = "created"
         /\ [Created(c, of) EXCEPT !.wrote = call[c].wrote].gate = of
BY DEF Created, Replies, IsCall, Fields

LEMMA ReplyAdds ==
  ASSUME Keeps, NEW c \in Clients, IsCall(call[c]), NEW reply, reply # "created", Becomes(c, Replies(c, reply))
  PROVE  AddsTruly(c)
BY ReplyKeeps DEF AddsTruly

LEMMA GoAdds ==
  ASSUME Keeps, NEW c \in Clients, IsCall(call[c]), call[c].reply # "created", NEW pc, Becomes(c, Goes(c, pc))
  PROVE  AddsTruly(c)
BY GoKeeps DEF AddsTruly

LEMMA CreatedAdds ==
  ASSUME Keeps, NEW c \in Clients, Repo(c) \in Repositories, IsCall(call[c]), call[c].reply # "created", NEW of,
         of \in {call[c].gate, marker[Repo(c)]}, provider # "cosmosdb" => of = marker[Repo(c)],
         ChangesData(Repo(c), data[Repo(c)] \cup {NewItem(c, of)}), NEW pc,
         Submitted(c, Created(c, of), pc) \/ Answered(c, Created(c, of))
  PROVE  AddsTruly(c)
<1> DEFINE d == Created(c, of)
<1>1. d.gate = of
  BY CreatedIs
<1> HIDE DEF d
<1>2. NewItem(c, of) \in data'[Repo(c)]
  BY DEF ChangesData, Keeps
<1>3. CASE Submitted(c, d, pc)
  <2>1. call'[c] = d \/ call'[c].reply = call[c].reply
    BY <1>3, SubmittedGate
  <2> QED
    BY <1>1, <1>2, <2>1 DEF AddsTruly, Stored
<1>4. CASE Answered(c, d)
  <2> DEFINE failed == [Replies(c, "failed") EXCEPT !.stored = d.stored, !.recorded = d.recorded]
  <2>1. failed.reply = "failed"
    BY RepliesIs DEF IsCall, Fields
  <2> HIDE DEF failed
  <2>2. Becomes(c, d) \/ Becomes(c, failed)
    BY <1>4 DEF Answered, failed
  <2>3. call'[c] = d \/ call'[c].reply = "failed"
    BY <2>1, <2>2, BecomesIs
  <2> QED
    BY <1>1, <1>2, <2>3 DEF AddsTruly, Stored
<1> QED
  BY <1>3, <1>4 DEF d

LEMMA CosmosAddsTruly ==
  ASSUME Keeps, NEW c \in Clients, Repo(c) \in Repositories, IsCall(call[c]), call[c].reply # "created",
         provider = "cosmosdb", CheckAndAdd(c) \/ Land(c)
  PROVE  AddsTruly(c)
<1>1. CASE CheckAndAdd(c)
  <2> DEFINE d == [Goes(c, "land") EXCEPT !.gate = marker[Repo(c)]]
  <2>1. d.reply = call[c].reply
    BY GoesIs DEF IsCall, Fields
  <2> HIDE DEF d
  <2>2. Becomes(c, d) \/ \E reply \in {"missing", "duplicate", "not_found"} : Becomes(c, Replies(c, reply))
    BY <1>1 DEF CheckAndAdd, Missing, d
  <2>3. CASE Becomes(c, d)
    BY <2>1, <2>3, BecomesIs DEF AddsTruly
  <2> QED
    BY <2>2, <2>3, ReplyAdds
<1>2. CASE Land(c)
  <2>1. CASE /\ ChangesData(Repo(c), data[Repo(c)] \cup {NewItem(c, call[c].gate)})
             /\ Submitted(c, Created(c, call[c].gate), "again")
    BY <2>1, CreatedAdds
  <2>2. CASE \E reply \in {"duplicate", "failed"} : Becomes(c, Replies(c, reply))
    BY <2>2, ReplyAdds
  <2> QED
    BY <1>2, <2>1, <2>2 DEF Land
<1> QED
  BY <1>1, <1>2

LEMMA Neo4jAddsOnly ==
  ASSUME NEW c \in Clients, Fits(c, call[c], c \in alive), Op(c) \in {"entity", "edge"}, provider = "neo4j",
         Step(c) \/ Trouble(c)
  PROVE  AddItem(c) \/ ReadToken(c) \/ Fails(c) \/ ReadSaveOutcome(c)
<1> USE DEF Fits, PcFits
<1>1. ~BeginDelete(c) /\ ~ReadVersion(c)
  BY DEF BeginDelete, ReadVersion
<1>2. /\ ~CreateRepository(c) /\ ~ReadRepositoryToken(c) /\ ~DetachMarker(c) /\ ~DrainRelationships(c)
      /\ ~DetachEntities(c) /\ ~DrainChangeLog(c) /\ ~SweepNodes(c) /\ ~DetachVocabulary(c)
      /\ ~AssertBeforeClear(c)
  BY DEF CreateRepository, ReadRepositoryToken, DetachMarker, DrainRelationships, DetachEntities,
         DrainChangeLog, SweepNodes, DetachVocabulary, AssertBeforeClear
<1>3. ~DeleteByIds(c) /\ ~DeleteTypeBatch(c) /\ ~DeleteEdgesOfPage(c) /\ ~SaveVocabulary(c)
  BY DEF DeleteByIds, DeleteTypeBatch, DeleteEdgesOfPage, SaveVocabulary
<1>4. ~ImportStep(c) /\ ~ImportTrouble(c)
  BY DEF ImportStep, ImportTrouble, BeginImport, EndImport
<1> QED
  BY <1>1, <1>2, <1>3, <1>4 DEF Step, Trouble, Neo4jStep

LEMMA Neo4jAddsTruly ==
  ASSUME Keeps, NEW c \in Clients, Repo(c) \in Repositories, IsCall(call[c]), call[c].reply # "created",
         provider = "neo4j", AddItem(c) \/ ReadToken(c) \/ ReadSaveOutcome(c)
  PROVE  AddsTruly(c)
<1>1. CASE AddItem(c)
  <2>1. CASE /\ ChangesData(Repo(c), data[Repo(c)] \cup {NewItem(c, marker[Repo(c)])})
             /\ Submitted(c, Created(c, marker[Repo(c)]), "again")
    BY <2>1, CreatedAdds
  <2>2. CASE Obstacle(c) \in {"missing", "not_found"} /\ Becomes(c, Replies(c, Obstacle(c)))
    BY <2>2, ReplyAdds
  <2>3. CASE Becomes(c, Goes(c, "token"))
    BY <2>3, GoAdds
  <2> QED
    BY <1>1, <2>1, <2>2, <2>3 DEF AddItem
<1>2. CASE ReadToken(c)
  <2> DEFINE d == [Created(c, marker[Repo(c)]) EXCEPT !.wrote = call[c].wrote]
  <2>1. d.gate = marker[Repo(c)]
    BY CreatedIs
  <2> HIDE DEF d
  <2>2. /\ UNCHANGED data
        /\ \/ (\E e \in data[Repo(c)] : OwnToken(c, e)) /\ Becomes(c, d)
           \/ Becomes(c, Replies(c, "duplicate"))
    BY <1>2 DEF ReadToken, Unmarked, store, d
  <2>3. CASE (\E e \in data[Repo(c)] : OwnToken(c, e)) /\ Becomes(c, d)
    <3>1. call'[c].gate = marker[Repo(c)]
      BY <2>1, <2>3, BecomesIs
    <3> QED
      BY <2>2, <2>3, <3>1 DEF AddsTruly, Stored
  <2> QED
    BY <2>2, <2>3, ReplyAdds
<1>3. CASE ReadSaveOutcome(c)
  <2>1. \E reply \in {"missing", "saved", "conflict"} : Becomes(c, Replies(c, reply))
    BY <1>3 DEF ReadSaveOutcome, Missing
  <2> QED
    BY <2>1, ReplyAdds
<1> QED
  BY <1>1, <1>2, <1>3

LEMMA SqlAddsOnly ==
  ASSUME NEW c \in Clients, Fits(c, call[c], c \in alive), Op(c) \in {"entity", "edge"}, provider = "sqlserver",
         Step(c) \/ Trouble(c)
  PROVE  \/ AssertForCreate(c) \/ LookForEntity(c) \/ ReadPreconditions(c) \/ InsertRow(c)
         \/ ExplainForeignKey(c) \/ Fails(c)
<1> USE DEF Fits, PcFits
<1>1. ~BeginDelete(c) /\ ~ReadVersion(c)
  BY DEF BeginDelete, ReadVersion
<1>2. /\ ~LookForRepository(c) /\ ~InsertRepository(c) /\ ~InsertVocabulary(c) /\ ~DeleteRepository(c)
      /\ ~AssertForClear(c) /\ ~DeleteRelationships(c) /\ ~DeleteEntities(c)
      /\ ~DeleteEntityEdges(c) /\ ~DeleteEntityRow(c) /\ ~ExplainMiss(c) /\ ~GuardedDelete(c)
  BY DEF LookForRepository, InsertRepository, InsertVocabulary, DeleteRepository, AssertForClear,
         DeleteRelationships, DeleteEntities, DeleteEntityEdges, DeleteEntityRow, ExplainMiss, GuardedDelete
<1>3. ~UpdateVocabulary(c) /\ ~ImportInOneTransaction(c)
  BY DEF UpdateVocabulary, ImportInOneTransaction
<1> QED
  BY <1>1, <1>2, <1>3 DEF Step, Trouble, SqlServerStep

LEMMA SqlAddsTruly ==
  ASSUME Keeps, NEW c \in Clients, Repo(c) \in Repositories, IsCall(call[c]), call[c].reply # "created",
         provider = "sqlserver",
         AssertForCreate(c) \/ LookForEntity(c) \/ ReadPreconditions(c) \/ InsertRow(c) \/ ExplainForeignKey(c)
  PROVE  AddsTruly(c)
<1> DEFINE Refusals == {"missing", "duplicate", "not_found", "failed"}
<1>1. ASSUME \/ \E reply \in Refusals : Becomes(c, Replies(c, reply))
             \/ \E pc : Becomes(c, Goes(c, pc))
      PROVE  AddsTruly(c)
  BY <1>1, ReplyAdds, GoAdds
<1>2. CASE AssertForCreate(c)
  BY <1>1, <1>2 DEF AssertForCreate, Missing
<1>3. CASE LookForEntity(c)
  BY <1>1, <1>3 DEF LookForEntity
<1>4. CASE ReadPreconditions(c)
  BY <1>1, <1>4 DEF ReadPreconditions, Missing
<1>5. CASE ExplainForeignKey(c)
  BY <1>1, <1>5 DEF ExplainForeignKey, Missing
<1>6. CASE InsertRow(c)
  <2>1. CASE /\ ChangesData(Repo(c), data[Repo(c)] \cup {NewItem(c, marker[Repo(c)])})
             /\ Answered(c, Created(c, marker[Repo(c)]))
    BY <2>1, CreatedAdds
  <2> QED
    BY <1>1, <1>6, <2>1 DEF InsertRow
<1> QED
  BY <1>2, <1>3, <1>4, <1>5, <1>6

LEMMA AddsTrulyStep ==
  ASSUME Base, NEW c \in Clients, Step(c) \/ Trouble(c), UNCHANGED provider
  PROVE  AddsTruly(c)
<1> SUFFICES ASSUME Op(c) \in {"entity", "edge"} PROVE AddsTruly(c)
  BY DEF AddsTruly
<1>0. Keeps /\ Fits(c, call[c], c \in alive) /\ IsCall(call[c]) /\ Repo(c) \in Repositories
  BY RequestOf DEF Base, Local, Fits, None
<1>1. call[c].reply # "created"
  BY <1>0, StepIs DEF Acts, Fits, None
<1>2. CASE Fails(c)
  BY <1>0, <1>2, ReplyAdds DEF Fails
<1>3. CASE provider = "cosmosdb"
  BY <1>0, <1>1, <1>2, <1>3, CosmosWritesOnly, CosmosAddsTruly DEF Landing
<1>4. CASE provider = "neo4j"
  BY <1>0, <1>1, <1>2, <1>4, Neo4jAddsOnly, Neo4jAddsTruly
<1>5. CASE provider = "sqlserver"
  BY <1>0, <1>1, <1>2, <1>5, SqlAddsOnly, SqlAddsTruly
<1> QED
  BY <1>3, <1>4, <1>5 DEF Base, Requests

-----------------------------------------------------------------------------
(* Whose the vocabularies are in CosmosDB.                                 *)

\* A vocabulary goes with the vertices that a delete drains, comes with a create, and is
\* replaced by a save, which leaves it with its repository.
Sweeps(c) == Op(c) = "delete" /\ call[c].pc = "vertex batch"

Inherits(c) ==
  /\ swept' = swept \/ Sweeps(c)
  /\ \A r \in Repositories :
       /\ \A v \in vocabulary'[r] :
            (\E w \in vocabulary[r] : v.of = w.of) \/ (vocabulary[r] = {} /\ v.of = c /\ Op(c) = "create")
       /\ vocabulary'[r] = {} => vocabulary[r] = {} \/ Sweeps(c)

LEMMA InheritsAll ==
  ASSUME NEW c, UNCHANGED <<vocabulary, swept>>
  PROVE  Inherits(c)
BY DEF Inherits

LEMMA InheritsStep ==
  ASSUME Base, NEW c \in Clients, Step(c) \/ Trouble(c), provider = "cosmosdb"
  PROVE  Inherits(c)
<1>0. Keeps /\ Fits(c, call[c], c \in alive)
  BY DEF Base, Local
<1>1. ASSUME Quiet(c) PROVE Inherits(c)
  BY <1>1, InheritsAll DEF Quiet
<1>2. CASE BeginDelete(c) \/ ReadVersion(c) \/ Fails(c)
  BY <1>0, <1>1, <1>2, CommonQuiet
<1>3. CASE CosmosImportStep(c) \/ CosmosImportTrouble(c)
  BY <1>0, <1>1, <1>3, CosmosImportQuiet
<1>4. CASE WriteMarker(c) \/ DropMarker(c)
  BY <1>4, InheritsAll DEF WriteMarker, DropMarker
<1>5. CASE WriteVocabulary(c)
  <2> DEFINE own == [of |-> c, by |-> c, version |-> 0]
  <2>1. /\ UNCHANGED swept
        /\ \/ UNCHANGED vocabulary
           \/ vocabulary[Repo(c)] = {} /\ vocabulary' = [vocabulary EXCEPT ![Repo(c)] = {own}]
    BY <1>5 DEF WriteVocabulary
  <2>2. Op(c) = "create"
    BY <1>0, <1>5 DEF WriteVocabulary, Fits, PcFits
  <2>3. own.of = c
    OBVIOUS
  <2> HIDE DEF own
  <2> QED
    BY <1>0, <2>1, <2>2, <2>3, InheritsAll DEF Inherits, Keeps
<1>6. CASE DrainVertices(c)
  <2>1. Sweeps(c)
    BY <1>0, <1>6 DEF DrainVertices, Sweeps, Fits, PcFits
  <2>2. UNCHANGED vocabulary \/ \E batch : vocabulary' = [vocabulary EXCEPT ![Repo(c)] = @ \ batch]
    BY <1>6 DEF DrainVertices
  <2>3. \A r \in Repositories : vocabulary'[r] \subseteq vocabulary[r]
    BY <1>0, <2>2 DEF Keeps
  <2> QED
    BY <2>1, <2>3 DEF Inherits
<1>7. CASE CompareAndSet(c)
  <2> DEFINE saved == [of |-> c, by |-> c, version |-> call[c].version + 1]
             next == {[saved EXCEPT !.of = v.of] : v \in call[c].seen}
  <2>1. /\ UNCHANGED swept
        /\ \/ UNCHANGED vocabulary
           \/ vocabulary[Repo(c)] = call[c].seen /\ vocabulary' = [vocabulary EXCEPT ![Repo(c)] = next]
    BY <1>7 DEF CompareAndSet
  <2>2. \A v \in next : \E w \in call[c].seen : v.of = w.of
    OBVIOUS
  <2>3. next = {} => call[c].seen = {}
    OBVIOUS
  <2> HIDE DEF next
  <2> QED
    BY <1>0, <2>1, <2>2, <2>3, InheritsAll DEF Inherits, Keeps
<1> QED
  BY <1>0, <1>1, <1>2, <1>3, <1>4, <1>5, <1>6, <1>7, CosmosQuiet
     DEF Step, Trouble, CosmosStep, Creates, Deletes, Writes, Saves

-----------------------------------------------------------------------------
(* What is stored in a repository that lives stays.                        *)

Keeping(c) ==
  /\ Moved(c) /\ GoesOn(c) /\ Takes(c) /\ Recalls(c) /\ Signs(c) /\ AddsTruly(c)
  /\ provider = "cosmosdb" => Inherits(c)
  /\ call[c].pc # "done"

LEMMA KeepingStep ==
  ASSUME Base, Guarded, WellMade, Next
  PROVE  \E c \in Clients : Keeping(c)
<1>1. PICK c \in Clients : Step(c) \/ Trouble(c)
  BY DEF Next
<1>2. UNCHANGED <<provider, request>>
  BY DEF Next, Observed
<1>3. Moved(c)
  BY <1>1, <1>2, MovedBy
<1>4. GoesOn(c) /\ Takes(c) /\ Recalls(c) /\ Signs(c) /\ AddsTruly(c)
  BY <1>1, <1>2, GoesOnStep, TakesStep, RecallsStep, SignsStep, AddsTrulyStep
<1>5. (provider = "cosmosdb" => Inherits(c)) /\ call[c].pc # "done"
  BY <1>1, <1>2, InheritsStep, StepIs DEF Acts
<1> QED
  BY <1>3, <1>4, <1>5 DEF Keeping

\* Neo4j's items that carry the token of a call that adds are what it adds.
Signed == provider = "neo4j" => \A r \in Repositories : \A d \in data[r] : IsSigned(d)

\* In Neo4j the vocabulary of what a delete has found stands in the way of a create for as
\* long as the delete drains.
Neo4jWaits ==
  provider = "neo4j" /\ ~BlindDelete => \A d \in Clients : Op(d) = "delete" =>
    /\ call[d].pc \in {"drop"} \cup Draining => vocabulary[Repo(d)] # {}
    /\ call[d].pc \in Draining => marker[Repo(d)] = None

\* In CosmosDB the vocabulary stays until a delete has drained relationships and entities.
WaitsFor(d) ==
  /\ call[d].pc \in {"idle"} \cup Early => swept = {}
  /\ call[d].pc \in Early =>
       vocabulary[Repo(d)] # {} /\ \A v \in vocabulary[Repo(d)] : v.of \in call[d].stood
  /\ call[d].pc \in {"probe", "edges"} => marker[Repo(d)] \in call[d].stood \cup {None}
  /\ call[d].pc = "idle" =>
       /\ \A r \in Repositories : marker[r] = None => data[r] = {}
       /\ \A c \in Clients : Op(c) \in Landing => call[c].gate \in {None, marker[Repo(c)]}

CosmosWaits ==
  provider = "cosmosdb" =>
    /\ \A r \in Repositories : \A v, w \in vocabulary[r] : v.of = w.of
    /\ ~BlindDelete => \A d \in Clients : Op(d) = "delete" => WaitsFor(d)

\* What a call has stored is there while the repository lives that it stored it in.
NothingRemoved == \A d \in DOMAIN request : request[d].op \notin Removals

Exempt(c) == BlindDelete /\ (provider = "neo4j" \/ (provider = "cosmosdb" /\ Op(c) = "edge"))

\* A delete's batch has taken it, which looked for a marker before there was one.
IsCaught(d) == provider = "cosmosdb" /\ \E a \in Clients : Op(a) = "delete" /\ d \in call[a].caught

Stays(c, m) ==
  /\ Known(m)
  /\ marker[Repo(c)] = m /\ ~MadeAgain(m) => NewItem(c, m) \in data[Repo(c)] \/ IsCaught(NewItem(c, m))

Held ==
  \A c \in Clients :
    \/ Exempt(c)
    \/ NothingRemoved /\ Op(c) \in {"entity", "edge"} /\ call[c].reply = "created" /\ call[c].gate # None
       => Stays(c, call[c].gate)

Lasts == Signed /\ Neo4jWaits /\ CosmosWaits /\ Held

LEMMA OneDelete ==
  ASSUME Requests, ~BlindDelete, NEW c \in Clients, NEW d \in Clients, Op(c) = "delete", Op(d) = "delete"
  PROVE  c = d
<1>1. c \in DOMAIN request /\ d \in DOMAIN request
  BY RequestOf DEF None
<1> QED
  BY <1>1 DEF BlindDelete, Several

\* A delete that goes on blindly has done so.
LEMMA BlindStays ==
  ASSUME NEW c, Keeping(c), BlindDelete
  PROVE  BlindDelete'
<1>1. UNCHANGED request /\ \A d \in Clients : d # c => call'[d] = call[d]
  BY DEF Keeping, Moved
<1>2. CASE Several("delete")
  BY <1>1, <1>2, SameRequest DEF BlindDelete
<1>3. CASE \E d \in Clients : Op(d) = "delete" /\ call[d].pc # "idle" /\ call[d].stood = {}
  <2>1. PICK d \in Clients : Op(d) = "delete" /\ call[d].pc # "idle" /\ call[d].stood = {}
    BY <1>3
  <2>2. call'[d].pc # "idle" /\ call'[d].stood = {}
    BY <1>1, <2>1 DEF Keeping, Moved, DeleteMoves, GoesOn
  <2> QED
    BY <1>1, <2>1, <2>2, SameRequest DEF BlindDelete
<1> QED
  BY <1>2, <1>3 DEF BlindDelete

LEMMA SignedNext ==
  ASSUME Signed, NEW c, Keeping(c)
  PROVE  Signed'
<1>1. UNCHANGED <<provider, request>>
  BY DEF Keeping, Moved
<1> SUFFICES ASSUME provider = "neo4j", NEW r \in Repositories, NEW d \in data'[r]
             PROVE  IsSigned(d)'
  BY <1>1 DEF Signed
<1>2. IsSigned(d)
  BY DEF Signed, Keeping, Signs
<1> QED
  BY <1>1, <1>2, SameRequest DEF IsSigned, NewItem

LEMMA Neo4jWaitsNext ==
  ASSUME Base, Base', Neo4jKept, Neo4jOwns, Neo4jWaits, NEW c, Keeping(c)
  PROVE  Neo4jWaits'
<1>1. UNCHANGED <<provider, request>> /\ c \in Clients /\ \A d \in Clients : d # c => call'[d] = call[d]
  BY DEF Keeping, Moved
<1> SUFFICES ASSUME provider = "neo4j", ~BlindDelete', NEW d \in Clients, Op(d) = "delete"
             PROVE  /\ call'[d].pc \in {"drop"} \cup Draining => vocabulary'[Repo(d)] # {}
                    /\ call'[d].pc \in Draining => marker'[Repo(d)] = None
  BY <1>1, SameRequest DEF Neo4jWaits, Repo, Op
<1> DEFINE r == Repo(d)
<1>2. ~BlindDelete /\ r \in Repositories
  BY BlindStays, RequestOf DEF Base, None
<1>3. /\ call[d].pc \in {"drop"} \cup Draining => vocabulary[r] # {}
      /\ call[d].pc \in Draining => marker[r] = None
  BY <1>2 DEF Neo4jWaits
<1>4. Op(c) = "delete" => c = d
  BY <1>1, <1>2, OneDelete DEF Base
<1>5. vocabulary[r] # {} /\ call[d].pc # "last" => vocabulary'[r] # {}
  BY <1>2, <1>4 DEF Keeping, Moved, VocabularyGoes
<1>6. CASE c # d
  <2>1. call'[d] = call[d]
    BY <1>1, <1>6
  <2>2. vocabulary[r] # {} /\ marker[r] = None => marker'[r] = None
    BY <1>2, <1>6 DEF Keeping, Moved, Marks, Drops, Makes
  <2> QED
    BY <1>3, <1>5, <2>1, <2>2 DEF Draining
<1>7. CASE c = d
  <2>1. call'[d].pc # "done" => call'[d].reply = None
    BY DEF Base, Local, Fits
  <2>2. CASE call'[d].pc \in Draining
    <3>1. call[d].pc \in Draining \cup {"drop"}
      BY <1>7, <2>2 DEF Keeping, GoesOn
    <3>2. Past(call'[d])
      BY <2>1, <2>2 DEF Past, Draining, None
    <3>3. Past(call[d]) \/ marker'[r] = None
      BY <1>7, <3>2 DEF Keeping, Moved, DeleteMoves
    <3>4. marker'[r] = None
      BY <1>2, <1>3, <1>7, <3>1, <3>3 DEF Past, Keeping, Moved, Marks, Drops, Makes
    <3> QED
      BY <1>3, <1>5, <2>2, <3>1, <3>4 DEF Draining
  <2>3. CASE call'[d].pc = "drop"
    <3>1. call[d].pc \in {"drop", "idle"}
      BY <1>7, <2>3 DEF Keeping, GoesOn
    <3>2. CASE call[d].pc = "idle"
      <4>1. call[d].stood = {}
        BY <3>2 DEF Base, Local, Fits, NoCall
      <4>2. call'[d].stood # {}
        BY <1>1, <2>3, SameRequest DEF BlindDelete
      <4>3. Standing(r) # {}
        BY <1>7, <4>1, <4>2 DEF Keeping, Moved, DeleteMoves
      <4>4. marker[r] # None \/ data[r] # {}
        BY <4>3 DEF Standing
      <4>5. ~Several("delete")
        BY <1>2 DEF BlindDelete
      <4>6. vocabulary[r] # {}
        BY <1>2, <4>4, <4>5 DEF Neo4jKept, Neo4jOwns
      <4> QED
        BY <1>5, <2>3, <3>2, <4>6 DEF Draining
    <3> QED
      BY <1>3, <1>5, <2>3, <3>1, <3>2 DEF Draining
  <2> QED
    BY <2>2, <2>3
<1> QED
  BY <1>6, <1>7

\* What a vocabulary leaves behind is of the same repository.
LEMMA VocabulariesInherit ==
  ASSUME NEW c, Inherits(c), NEW r \in Repositories, NEW stood,
         vocabulary[r] # {}, \A v \in vocabulary[r] : v.of \in stood, ~Sweeps(c)
  PROVE  vocabulary'[r] # {} /\ \A v \in vocabulary'[r] : v.of \in stood
BY DEF Inherits

LEMMA CosmosWaitsNext ==
  ASSUME Base, Base', WellMade, CosmosKept, CosmosWaits, NEW c, Keeping(c)
  PROVE  CosmosWaits'
<1>1. /\ UNCHANGED <<provider, request>> /\ c \in Clients /\ \A d \in Clients : d # c => call'[d] = call[d]
      /\ Marks(c) /\ DeleteMoves(c) /\ GoesOn(c) /\ Steady(c) /\ Puts(c)
  BY DEF Keeping, Moved
<1> SUFFICES ASSUME provider = "cosmosdb" PROVE CosmosWaits'
  BY <1>1 DEF CosmosWaits
<1>2. Inherits(c)
  BY DEF Keeping
<1>3. ASSUME NEW r \in Repositories, NEW v \in vocabulary'[r], NEW w \in vocabulary'[r] PROVE v.of = w.of
  BY <1>2 DEF Inherits, CosmosWaits
<1>4. ASSUME ~BlindDelete', NEW d \in Clients, Op(d) = "delete" PROVE WaitsFor(d)'
  <2> DEFINE r == Repo(d)
  <2>1. ~BlindDelete /\ r \in Repositories
    BY <1>4, BlindStays, RequestOf DEF Base, None
  <2>2. WaitsFor(d)
    BY <1>4, <2>1 DEF CosmosWaits
  <2>3. Op(c) = "delete" => c = d
    BY <1>1, <1>4, <2>1, OneDelete DEF Base
  <2>4. call'[d].pc # "done" => call'[d].reply = None
    BY DEF Base, Local, Fits
  <2>5. call'[d].pc \in Early => call[d].pc \in {"idle"} \cup Early
    BY <1>1, <1>4 DEF GoesOn
  <2>6. ASSUME call'[d].pc \in {"idle"} \cup Early PROVE swept' = {} /\ swept = {} /\ ~Sweeps(c)
    <3>1. call[d].pc \in {"idle"} \cup Early
      BY <1>1, <1>4, <2>5, <2>6 DEF GoesOn
    <3>2. ~Sweeps(c)
      BY <2>3, <3>1 DEF Sweeps, Early
    <3> QED
      BY <1>2, <2>2, <3>1, <3>2 DEF Inherits, WaitsFor
  <2>7. ASSUME call'[d].pc \in Early
        PROVE  vocabulary'[r] # {} /\ \A v \in vocabulary'[r] : v.of \in call'[d].stood
    <3>1. ~Sweeps(c) /\ swept = {}
      BY <2>6, <2>7
    <3>2. CASE call[d].pc \in Early
      <4>1. call'[d].stood = call[d].stood
        BY <1>1, <1>4, <3>2 DEF DeleteMoves, Early
      <4>2. vocabulary[r] # {} /\ \A v \in vocabulary[r] : v.of \in call[d].stood
        BY <2>2, <3>2 DEF WaitsFor
      <4> QED
        BY <1>2, <2>1, <3>1, <4>1, <4>2, VocabulariesInherit
    <3>3. CASE call[d].pc = "idle"
      <4>1. d = c
        BY <1>1, <2>7, <3>3 DEF Early
      <4>2. call[d].stood = {}
        BY <3>3 DEF Base, Local, Fits, NoCall
      <4>3. call'[d].stood # {}
        BY <1>1, <1>4, <2>7, SameRequest DEF BlindDelete, Early
      <4>4. call'[d].stood = Standing(r) /\ Standing(r) # {}
        BY <1>1, <1>4, <4>1, <4>2, <4>3 DEF DeleteMoves
      <4>5. marker[r] # None
        BY <2>1, <2>2, <3>3, <4>4 DEF WaitsFor, Standing
      <4>6. marker[r] \in Standing(r)
        BY <4>5 DEF Standing
      <4>7. PICK v \in vocabulary[r] : v.of = marker[r]
        BY <2>1, <3>1, <4>5 DEF CosmosKept, HasIts
      <4>8. vocabulary[r] # {} /\ \A w \in vocabulary[r] : w.of \in Standing(r)
        BY <2>1, <4>6, <4>7 DEF CosmosWaits
      <4> QED
        BY <1>2, <2>1, <3>1, <4>4, <4>8, VocabulariesInherit
    <3> QED
      BY <2>5, <2>7, <3>2, <3>3
  <2>8. ASSUME call'[d].pc \in {"probe", "edges"} PROVE marker'[r] \in call'[d].stood \cup {None}
    <3>1. call'[d].pc \in Early /\ Past(call'[d])
      BY <2>4, <2>8 DEF Early, Past, None
    <3>2. CASE d = c
      <4>1. marker'[r] \in {marker[r], None}
        BY <1>1, <1>4, <2>1, <3>2 DEF Marks, Drops, Makes
      <4>2. CASE Past(call[c])
        <5>1. call[d].pc \in {"probe", "edges"}
          BY <2>5, <3>1, <3>2, <4>2 DEF Past, Early
        <5>2. call'[d].stood = call[d].stood
          BY <1>1, <1>4, <3>2, <5>1 DEF DeleteMoves
        <5> QED
          BY <2>2, <4>1, <5>1, <5>2 DEF WaitsFor
      <4> QED
        BY <1>1, <1>4, <3>1, <3>2, <4>2 DEF DeleteMoves
    <3>3. CASE d # c
      <4>1. call'[d] = call[d]
        BY <1>1, <3>3
      <4>2. Makes(c, r) /\ r = Repo(c) => c \in call[d].stood
        <5> SUFFICES ASSUME Makes(c, r), r = Repo(c) PROVE c \in call[d].stood
          OBVIOUS
        <5>1. call[c].pc = "marker" /\ swept = {}
          BY <2>6, <3>1 DEF Makes
        <5>2. PICK v \in vocabulary[r] : v.of = c
          BY <1>1, <5>1 DEF CosmosKept, WaitsWithIts
        <5> QED
          BY <2>2, <3>1, <4>1, <5>2 DEF WaitsFor
      <4>3. marker[r] \in call[d].stood \cup {None}
        BY <2>2, <2>8, <4>1 DEF WaitsFor
      <4> QED
        BY <1>1, <2>1, <4>1, <4>2, <4>3 DEF Marks, Drops, Makes
    <3> QED
      BY <3>2, <3>3
  <2>9. ASSUME call'[d].pc = "idle"
        PROVE  /\ \A q \in Repositories : marker'[q] = None => data'[q] = {}
               /\ \A e \in Clients : Op(e) \in Landing => call'[e].gate \in {None, marker'[Repo(e)]}
    <3>1. d # c /\ Op(c) # "delete"
      BY <1>1, <1>4, <2>3, <2>9 DEF GoesOn
    <3>2. call[d].pc = "idle"
      BY <1>1, <2>9, <3>1
    <3>3. /\ \A q \in Repositories : marker[q] = None => data[q] = {}
          /\ \A e \in Clients : Op(e) \in Landing => call[e].gate \in {None, marker[Repo(e)]}
      BY <2>2, <3>2 DEF WaitsFor
    <3>4. \A q \in Repositories : marker'[q] = marker[q] \/ marker[q] = None
      BY <1>1, <3>1 DEF Marks, Drops, Makes
    <3>5. ASSUME NEW q \in Repositories, marker'[q] = None PROVE data'[q] = {}
      <4>1. marker[q] = None
        BY <3>4, <3>5
      <4>2. data[q] = {}
        BY <3>3, <4>1
      <4> SUFFICES ASSUME NEW x \in data'[q] PROVE FALSE
        OBVIOUS
      <4>3. q = Repo(c) /\ Fresh(c, x)
        BY <1>1, <4>2 DEF Puts
      <4>4. x.of # None /\ (x.of = marker[q] \/ (Op(c) \in Landing /\ x.of = call[c].gate))
        BY <4>3 DEF Fresh
      <4> QED
        BY <1>1, <3>3, <4>1, <4>3, <4>4
    <3>6. ASSUME NEW e \in Clients, Op(e) \in Landing PROVE call'[e].gate \in {None, marker'[Repo(e)]}
      <4>1. call'[e].gate \in {call[e].gate, marker[Repo(e)]}
        BY <1>1, <3>6 DEF Steady
      <4>2. call[e].gate \in {None, marker[Repo(e)]}
        BY <3>3, <3>6
      <4>3. Repo(e) \in Repositories
        BY <3>6, RequestOf DEF Base, Landing, None
      <4> QED
        BY <3>4, <4>1, <4>2, <4>3
    <3> QED
      BY <3>5, <3>6
  <2> QED
    BY <1>1, <2>6, <2>7, <2>8, <2>9, SameRequest DEF WaitsFor
<1> QED
  BY <1>1, <1>3, <1>4, SameRequest DEF CosmosWaits

\* No delete takes what is stored in the repository that lives.
LEMMA NothingTaken ==
  ASSUME Base, DroppedForGood, CosmosWaits, Neo4jWaits, NEW a, Keeping(a), NothingRemoved,
         NEW c \in Clients, ~Exempt(c), Op(c) \in {"entity", "edge"}, NEW m, m # None, ~MadeAgain(m),
         NEW r \in Repositories, marker[r] = m, marker'[r] = m,
         NEW d \in data[r], d.kind = Op(c)
  PROVE  d \in data'[r] \/ IsCaught(d)'
<1>1. a \in Clients /\ Op(a) # None /\ Takes(a)
  BY DEF Keeping, Moved
<1>2. Op(a) \notin Removals
  BY <1>1, RequestOf DEF Base, NothingRemoved
<1>c. /\ UNCHANGED provider /\ Op(a)' = Op(a)
      /\ provider = "cosmosdb" /\ Op(a) = "delete" /\ d \in call'[a].caught => IsCaught(d)'
  BY <1>1, SameRequest DEF Keeping, Moved, IsCaught
<1> SUFFICES ASSUME r = Repo(a), Op(a) = "delete", MayDrain(a, d),
                    ~(provider = "cosmosdb" /\ d \in call'[a].caught)
             PROVE  FALSE
  BY <1>1, <1>2, <1>c DEF Takes, MayTake
<1>3. CASE provider = "cosmosdb"
  <2>1. d.kind = "edge" /\ call[a].pc = "edges"
    BY <1>3 DEF MayDrain
  <2>2. ~BlindDelete
    BY <1>3, <2>1 DEF Exempt
  <2>3. WaitsFor(a)
    BY <1>1, <1>3, <2>2 DEF CosmosWaits
  <2>4. m \in call[a].stood
    BY <2>1, <2>3 DEF WaitsFor
  <2>5. Past(call[a])
    BY <1>1, <2>1 DEF Base, Local, Fits, Past, None
  <2> QED
    BY <1>1, <2>4, <2>5 DEF DroppedForGood
<1>4. CASE provider = "neo4j"
  <2>1. ~BlindDelete /\ call[a].pc \in Draining
    BY <1>4 DEF Exempt, MayDrain
  <2> QED
    BY <1>1, <1>4, <2>1 DEF Neo4jWaits
<1>5. CASE provider = "sqlserver"
  BY <1>5 DEF MayDrain
<1> QED
  BY <1>3, <1>4, <1>5 DEF Base, Requests

LEMMA CaughtForGood ==
  ASSUME NEW a, Keeping(a), NEW d, IsCaught(d)
  PROVE  IsCaught(d)'
<1>1. UNCHANGED <<provider, request>> /\ \A e \in Clients : e # a => call'[e] = call[e]
  BY DEF Keeping, Moved
<1>2. PICK e \in Clients : Op(e) = "delete" /\ d \in call[e].caught
  BY DEF IsCaught
<1>3. provider = "cosmosdb" /\ Op(e)' = Op(e)
  BY <1>1, SameRequest DEF IsCaught
<1>4. d \in call'[e].caught
  BY <1>1, <1>2, <1>3 DEF Keeping, Recalls
<1> QED
  BY <1>1, <1>2, <1>3, <1>4 DEF IsCaught

LEMMA HeldNext ==
  ASSUME Base, WellMade, Owns, Signed, CosmosWaits, Neo4jWaits, Held, NEW a, Keeping(a)
  PROVE  Held'
<1>1. /\ UNCHANGED <<provider, request>> /\ a \in Clients /\ \A d \in Clients : d # a => call'[d] = call[d]
      /\ Marks(a) /\ Moved(a)
  BY DEF Keeping, Moved
<1> SUFFICES ASSUME NEW c \in Clients, ~Exempt(c)', NothingRemoved, Op(c) \in {"entity", "edge"},
                    call'[c].reply = "created", NEW m, m = call'[c].gate, m # None
             PROVE  /\ Known(m)'
                    /\ marker'[Repo(c)] = m /\ ~MadeAgain(m)' =>
                         NewItem(c, m) \in data'[Repo(c)] \/ IsCaught(NewItem(c, m))'
  BY <1>1, SameRequest DEF Held, Stays, NothingRemoved, NewItem
<1> DEFINE r == Repo(c)
<1>2. r \in Repositories /\ ~Exempt(c)
  BY <1>1, BlindStays, SameRequest, RequestOf DEF Base, Exempt, None
<1>3. NewItem(c, m).kind = Op(c)
  BY NewItemIs
<1>i. PICK item : item = NewItem(c, m)
  OBVIOUS
<1>j. NewItem(c, m)' = item
  BY <1>1, <1>i, SameRequest DEF NewItem
<1>k. (IsCaught(NewItem(c, m)) => IsCaught(item)) /\ (IsCaught(item)' => IsCaught(NewItem(c, m))')
  BY <1>i, <1>j DEF IsCaught
<1>4. CASE c # a
  <2>1. call'[c] = call[c]
    BY <1>1, <1>4
  <2>2. Known(m) /\ (marker[r] = m /\ ~MadeAgain(m) => NewItem(c, m) \in data[r] \/ IsCaught(NewItem(c, m)))
    BY <1>2, <2>1 DEF Held, Stays
  <2>3. Known(m)' /\ (MadeAgain(m) => MadeAgain(m)')
    BY <1>1, <2>2, KnownStays
  <2>4. ASSUME marker'[r] = m, ~MadeAgain(m)' PROVE NewItem(c, m) \in data'[r] \/ IsCaught(NewItem(c, m))'
    <3>1. ~Makes(a, r)
      BY <1>1, <2>2, <2>4 DEF Makes, Known, MadeAgain
    <3>2. marker[r] = m
      BY <1>1, <1>2, <2>4, <3>1 DEF Marks, Drops
    <3>3. ~MadeAgain(m) /\ (NewItem(c, m) \in data[r] \/ IsCaught(NewItem(c, m)))
      BY <2>2, <2>3, <2>4, <3>2
    <3>4. IsCaught(item) => IsCaught(item)'
      BY CaughtForGood
    <3>5. item \in data[r] => item \in data'[r] \/ IsCaught(item)'
      BY <1>2, <1>3, <1>i, <2>4, <3>2, <3>3, NothingTaken DEF Owns
    <3> QED
      BY <1>i, <1>k, <3>3, <3>4, <3>5
  <2> QED
    BY <2>3, <2>4
<1>5. CASE c = a
  <2>1. /\ m \in {call[c].gate, marker[r]} /\ (provider # "cosmosdb" => m = marker[r])
        /\ Stored(c, m)
    BY <1>5 DEF Keeping, AddsTruly
  <2>2. Known(m)
    BY <1>2, <2>1 DEF WellMade, Sources, Landing
  <2>3. CASE NewItem(c, m) \in data'[r]
    BY <1>1, <2>2, <2>3, KnownStays
  <2>4. CASE provider = "neo4j" /\ UNCHANGED data /\ m = marker[r] /\ \E d \in data[r] : OwnToken(c, d)
    <3>1. PICK d \in data[r] : d.by = Token(c, 0, 0)
      BY <2>4 DEF OwnToken
    <3>2. d = NewItem(c, d.of)
      BY <1>2, <2>4, <3>1 DEF Signed, IsSigned
    <3>3. d.of = m
      BY <1>2, <2>4 DEF Exempt, BlindDelete, Owns, Neo4jOwns
    <3> QED
      BY <1>1, <2>2, <2>4, <3>2, <3>3, KnownStays
  <2> QED
    BY <2>1, <2>3, <2>4 DEF Stored
<1> QED
  BY <1>4, <1>5

LEMMA LastsNext ==
  ASSUME Base, Base', Kept, WellMade, Owns, Lasts, Next
  PROVE  Lasts'
<1>1. PICK c \in Clients : Keeping(c)
  BY KeepingStep DEF Kept
<1>2. Signed' /\ Neo4jWaits' /\ CosmosWaits' /\ Held'
  BY <1>1, SignedNext, Neo4jWaitsNext, CosmosWaitsNext, HeldNext DEF Lasts, Kept, Owns
<1> QED
  BY <1>2 DEF Lasts

LEMMA LastsStutters ==
  ASSUME Lasts, UNCHANGED vars
  PROVE  Lasts'
<1>1. UNCHANGED <<provider, marker, vocabulary, data, request, call, swept>>
  BY DEF vars, store, history
<1>2. BlindDelete' = BlindDelete
  BY <1>1 DEF BlindDelete, Several, Op
<1>3. Signed'
  BY <1>1 DEF Lasts, Signed, IsSigned, NewItem, Op
<1>4. Neo4jWaits'
  BY <1>1, <1>2 DEF Lasts, Neo4jWaits, Op, Repo
<1>5. CosmosWaits'
  BY <1>1, <1>2 DEF Lasts, CosmosWaits, WaitsFor, Op, Repo
<1>6. Held'
  BY <1>1, <1>2 DEF Lasts, Held, Exempt, Stays, IsCaught, Known, MadeAgain, NothingRemoved, NewItem, Op, Repo
<1> QED
  BY <1>3, <1>4, <1>5, <1>6 DEF Lasts

LEMMA LastsInit == Init => Lasts
<1> SUFFICES ASSUME Init PROVE Lasts
  OBVIOUS
<1>1. PICK plan \in Plans :
        /\ marker = [r \in Repositories |-> IF r \in plan.live THEN First ELSE None]
        /\ data = [r \in Repositories |-> IF r \in plan.live THEN plan.data ELSE {}]
  BY DEF Init
<1>2. /\ vocabulary = [r \in Repositories |->
           IF marker[r] = None THEN {} ELSE {[of |-> First, by |-> First, version |-> 0]}]
      /\ call = [c \in Clients |-> NoCall] /\ swept = {}
  BY DEF Init
<1>3. \A c \in Clients : call[c].pc = "idle" /\ call[c].gate = None /\ call[c].reply = None
  BY <1>2 DEF NoCall
<1>4. Signed
  <2>1. \A r \in Repositories : \A d \in data[r] : d.by[1] = First
    BY <1>1, LifeAssumption
  <2>2. \A c \in Clients : Token(c, 0, 0)[1] # First
    BY LifeAssumption DEF Token
  <2> QED
    BY <2>1, <2>2 DEF Signed, IsSigned
<1>5. Neo4jWaits
  BY <1>3 DEF Neo4jWaits, Draining
<1>6. CosmosWaits
  <2>1. \A r \in Repositories : \A v, w \in vocabulary[r] : v.of = w.of
    BY <1>2
  <2>2. \A r \in Repositories : marker[r] = None => data[r] = {}
    BY <1>1 DEF First, None
  <2>3. \A d \in Clients : WaitsFor(d)
    BY <1>2, <1>3, <2>2 DEF WaitsFor, Early
  <2> QED
    BY <2>1, <2>3 DEF CosmosWaits
<1>7. Held
  BY <1>3 DEF Held, None
<1> QED
  BY <1>4, <1>5, <1>6, <1>7 DEF Lasts

LEMMA LastsHolds == Spec => []Lasts
<1>1. Base /\ Base' /\ Kept /\ WellMade /\ Owns /\ Lasts /\ [Next]_vars => Lasts'
  BY LastsNext, LastsStutters
<1> QED
  BY LastsInit, <1>1, BaseHolds, KeptHolds, OwnsHolds, PTL DEF Spec

LEMMA HeldIsEnough == Lasts => LiveKeepsItsData
<1> SUFFICES ASSUME Held, NEW c \in Clients, ~Exempt(c) PROVE IsKept(c)
  BY DEF Lasts, LiveKeepsItsData, Exempt
<1> SUFFICES ASSUME call[c].reply = "created", Op(c) \in {"entity", "edge"},
                    marker[Repo(c)] = call[c].gate, call[c].gate # None, ~MadeAgain(call[c].gate), NothingRemoved
             PROVE  NewItem(c, call[c].gate) \in data[Repo(c)] \cup Caught
  BY DEF IsKept, NothingRemoved, Removals
<1> QED
  BY DEF Held, Stays, IsCaught, Caught

\* What a call stored in a repository that lives, with an answer, is in it unless a call was
\* made to remove it: no delete of an earlier repository with the id takes it while it goes
\* on draining, but for what Neo4j's drains and CosmosDB's batches of relationships take
\* when a delete found nothing or several overlap, and for what a batch of vertices of
\* CosmosDB takes when the repository is made inside that batch (deleteRepository).
THEOREM LiveDataStay == Spec => []LiveKeepsItsData
BY LastsHolds, HeldIsEnough, PTL

=============================================================================
