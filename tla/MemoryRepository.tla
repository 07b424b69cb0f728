--------------------------- MODULE MemoryRepository ---------------------------
(***************************************************************************)
(* The operations of a repository handle on entities and relationships:    *)
(* MemoryRepository over EntityManager and RelationshipManager.  Calls run *)
(* side by side on one store; each reads, picks a slug, computes an        *)
(* embedding, writes, tells the event handlers and updates the search      *)
(* index, and the others run at the awaits in between.                     *)
(*                                                                         *)
(* The vocabulary accepts every input: a refusal comes before any write    *)
(* and changes nothing.  Handlers and the search provider may fail.        *)
(***************************************************************************)
EXTENDS MemoryStore, SequencesExt

CONSTANTS
  Clients,
  Models,       \* embedding models
  Embeddable,   \* the contents that the text to embed takes, by type
  Plans,        \* what may be asked for, see the assumption
  MAX_SLUG_CONFLICT_RETRIES,
  BatchSize     \* entities that reembedAll takes per page

Keep == "keep"  \* a type or label that an update does not name

Mint == 0       \* an id that an input does not name

EntityInput == [type : Types, label : Labels, id : Ids \cup {Mint}, content : Contents]

EntityPatch == [type : Types \cup {Keep}, label : Labels \cup {Keep}, set : Contents,
                clear : Contents, reembed : BOOLEAN]

ArchiveRow == [item : {"entity"}, id : Ids, entity : Entity] \cup
              [item : {"relationship"}, id : RelationshipIds, rel : Relationship]

Request ==
  [op : {"create"}, inputs : Seq(EntityInput)] \cup
  [op : {"update"}, id : Ids, patch : EntityPatch] \cup
  [op : {"delete"}, ids : SUBSET Ids] \cup
  [op : {"reembed"}, model : Models, threshold : SUBSET Nat] \cup  \* failures that stop it
  [op : {"relate"}, id : RelationshipIds, rel : Relationship] \cup
  [op : {"unrelate"}, ids : SUBSET RelationshipIds] \cup
  [op : {"purge"}, type : Types \cup Kinds] \cup
  [op : {"clear"}] \cup
  [op : {"import"}, rows : Seq(ArchiveRow)] \cup
  [op : {"merge"}, conflict : {"skip", "overwrite", "rename"}, rows : Seq(ArchiveRow)]

NamesItself(e) == e.slug[1] = e.type /\ e.slug[2] = e.label

\* Requests have their declared types, and the entities found at the start have slugs
\* that name them.
ASSUME RepositoryAssumption ==
  /\ MAX_SLUG_CONFLICT_RETRIES \in Nat
  /\ BatchSize \in Nat \ {0}
  /\ \A plan \in Plans :
       /\ DOMAIN plan.asked \subseteq Clients
       /\ \A c \in DOMAIN plan.asked : plan.asked[c] \in Request
       /\ plan.faults \in Nat  \* bound on cancellations and failures
       /\ plan.model \in Models
       /\ \A i \in DOMAIN plan.entities : NamesItself(plan.entities[i])

VARIABLES
  request,    \* what each client asks for
  call,       \* what its call keeps
  model,      \* the embedding provider of the handle
  metadata,   \* the model recorded on the repository
  documents,  \* the search index: the text indexed for an entity
  announced,  \* entities named by search:index_failed
  minted,     \* ids used so far; they are generated in their order
  faults,     \* failures still to come
  contended,  \* history: entities that two calls have worked on at once
  unheard     \* history: entities whose write nobody tells the search index: a failing
              \* handler ended the call, or it did not go through the handle

aside == <<request, model, metadata, documents, announced, minted, faults, unheard>>

vars == <<storeVars, call, aside, contended>>

-----------------------------------------------------------------------------
\* The text embedded is the label, the summary and the properties that the type
\* declares embeddable.
Embedding(type, label, content, m) ==
  [label |-> label, content |-> content \cap Embeddable[type], model |-> m]

VectorOf(e, m) == Embedding(e.type, e.label, e.content, m)

Document(e) == [type |-> e.type, label |-> e.label, content |-> e.content]

NoCall == [
  pc      |-> "idle",
  member  |-> 1,      \* create: the input being written
  n       |-> 1,      \* the number of the slug candidate
  slug    |-> <<>>,   \* the slug picked
  vector  |-> <<>>,   \* the embedding computed
  refused |-> {},     \* slugs the store refused
  read    |-> <<>>,   \* update: the entity as it was read
  created |-> <<>>,   \* results: the entities stored
  todo    |-> <<>>,   \* documents to index, or vectors to write
  offset  |-> 0,      \* reembedAll: where the next page starts
  total   |-> 0,      \* ... the number of entities counted at its start
  failed  |-> {},     \* ... the entities it reports as failed
  failures |-> 0,     \* ... and how often it did
  counted |-> {},     \* history: ... the entities counted
  ended   |-> {},     \* history: ... and the clients whose calls had ended by then
  wrote   |-> {},     \* history: entities the call has stored
  reply   |-> "none"]

Op(c) == IF c \in DOMAIN request THEN request[c].op ELSE "none"

Running(c) == call[c].pc \notin {"idle", "done"}

Becomes(c, cl) == call' = [call EXCEPT ![c] = cl]

Answer(cl, reply) == [cl EXCEPT !.pc = "done", !.reply = reply]

Indexing(cl, reply) == [cl EXCEPT !.pc = "index", !.reply = reply]

Fault == faults > 0 /\ faults' = faults - 1

\* The type and label that the write is to store.
Wanted(c) ==
  IF Op(c) = "create" THEN request[c].inputs[call[c].member]
  ELSE [f \in {"type", "label"} |->
          IF request[c].patch[f] = Keep THEN call[c].read[f] ELSE request[c].patch[f]]

\* null removes a property, a value sets it; the rest is what was read.
MergedContent(c) ==
  (call[c].read.content \ request[c].patch.clear) \cup request[c].patch.set

ChangesContent(patch) == patch.set \cup patch.clear # {}

\* A label or contents given, the text to embed may have changed.  A type given alone
\* leaves the embedding as it is.
NeedsReembed(patch) == patch.reembed \/ patch.label # Keep \/ ChangesContent(patch)

Embeds(c) ==
  IF Op(c) = "create" THEN VectorOf(Wanted(c), model)
  ELSE IF NeedsReembed(request[c].patch)
       THEN Embedding(Wanted(c).type, Wanted(c).label, MergedContent(c), model)
       ELSE <<>>

-----------------------------------------------------------------------------
BeginCreate(c) ==
  /\ Op(c) = "create" /\ call[c].pc = "idle"
  /\ Becomes(c, IF request[c].inputs = <<>> THEN Answer(call[c], "created")
                ELSE [call[c] EXCEPT !.pc = "hook"])
  /\ UNCHANGED <<storeVars, aside>>

\* update reads the entity; its merge and its slug come from this copy.
BeginUpdate(c) ==
  LET i == request[c].id IN
  /\ Op(c) = "update" /\ call[c].pc = "idle"
  /\ Becomes(c, IF i \in Stored THEN [call[c] EXCEPT !.pc = "hook", !.read = entities[i]]
                ELSE Answer(call[c], "not_found"))
  /\ UNCHANGED <<storeVars, aside>>

\* A failure once a member is stored is partial; the members stored are reported
\* and indexed.
FailedUnindexed(cl, reply) ==
  IF cl.created = <<>> THEN Answer(cl, reply) ELSE Answer(cl, "partial")
Failed(cl, reply) == IF cl.created = <<>> THEN Answer(cl, reply) ELSE Indexing(cl, "partial")

\* A type or a label that changes takes the slug with it.
RelabelsOnly(c) == Wanted(c).label # call[c].read.label
Renames(c) == Wanted(c).label # call[c].read.label \/ Wanted(c).type # call[c].read.type

\* A hook lets the write pass or cancels it; a slug is picked if the write needs one.
Hook(c) ==
  /\ call[c].pc = "hook"
  /\ \/ /\ Becomes(c, IF Op(c) = "create" \/ Renames(c)
                      THEN [call[c] EXCEPT !.pc = "pick", !.n = 1, !.refused = {}]
                      ELSE [call[c] EXCEPT !.pc = "write", !.vector = Embeds(c)])
        /\ UNCHANGED <<storeVars, aside>>
     \/ /\ Fault
        /\ Becomes(c, Failed(call[c], "cancelled"))
        /\ UNCHANGED <<storeVars, request, model, metadata, documents, announced, minted, unheard>>

Candidate(c) == <<Wanted(c).type, Wanted(c).label, call[c].n>>

Taken(c, s) ==
  \/ s \in call[c].refused
  \/ /\ Op(c) = "update" => s # call[c].read.slug
     /\ SlugHolder(s) # {}

\* Candidates are tried one read at a time.  The embedding is computed once, with
\* the provider of that moment.
PickSlug(c) ==
  /\ call[c].pc = "pick" /\ call[c].n <= MaxSuffix
  /\ Becomes(c, IF Taken(c, Candidate(c)) THEN [call[c] EXCEPT !.n = @ + 1]
       ELSE [call[c] EXCEPT !.pc = "write", !.slug = Candidate(c),
              !.vector = IF call[c].refused = {} THEN Embeds(c) ELSE @])
  /\ UNCHANGED <<storeVars, aside>>

\* The store refuses the slug: pick another one, a bounded number of times.
SlugConflict(c) ==
  IF Cardinality(call[c].refused) < MAX_SLUG_CONFLICT_RETRIES
  THEN [call[c] EXCEPT !.pc = "pick", !.n = 1, !.refused = @ \cup {call[c].slug}]
  ELSE Failed(call[c], "slug_conflict")

\* The member is among the results before the handlers of entity:created run.
WroteMember(c, i, e) ==
  [call[c] EXCEPT !.created = Append(@, i),
                  !.todo = Append(@, [id |-> i, document |-> <<Document(e)>>]),
                  !.wrote = @ \cup {i}]

\* A handler that throws ends the batch.
HandlerFailsUnreported(c, i, e) == Failed([call[c] EXCEPT !.wrote = @ \cup {i}], "handler")
HandlerFails(c, i, e) == Failed(WroteMember(c, i, e), "handler")

NextMember(c, cl) ==
  IF call[c].member < Len(request[c].inputs)
  THEN [cl EXCEPT !.pc = "hook", !.member = @ + 1]
  ELSE Indexing(cl, "created")

\* Ids bounds the ids that are generated.
WriteCreate(c) ==
  LET input == request[c].inputs[call[c].member]
      i == IF input.id = Mint THEN minted + 1 ELSE input.id
      e == [type |-> input.type, label |-> input.label, slug |-> call[c].slug,
            content |-> input.content, vector |-> call[c].vector]
  IN
  /\ Op(c) = "create" /\ call[c].pc = "write"
  /\ \/ /\ i \in Ids /\ CreateEntity(i, e)
        /\ minted' = IF input.id = Mint THEN i ELSE minted
        /\ \/ /\ Becomes(c, NextMember(c, WroteMember(c, i, e)))
              /\ UNCHANGED faults
           \/ Fault /\ Becomes(c, HandlerFails(c, i, e))
        /\ UNCHANGED <<request, model, metadata, documents, announced, unheard>>
     \/ /\ i \in Stored
        /\ Becomes(c, Failed(call[c], "duplicate"))
        /\ UNCHANGED <<storeVars, aside>>
     \/ /\ i \notin Stored /\ RefusesSlug(i, e.slug)
        /\ Becomes(c, SlugConflict(c))
        /\ UNCHANGED <<storeVars, aside>>

\* Only the fields named are written, over what the store holds by now.
Updates(c) ==
  LET patch == request[c].patch
      named == [type    |-> Wanted(c).type # call[c].read.type,
                label   |-> patch.label # Keep,
                slug    |-> call[c].slug # <<>>,
                content |-> ChangesContent(patch),
                vector  |-> call[c].vector # <<>>]
      all == [type |-> patch.type, label |-> patch.label, slug |-> call[c].slug,
              content |-> MergedContent(c), vector |-> call[c].vector]
  IN Restrict(all, {f \in DOMAIN all : named[f]})

WriteUpdate(c) ==
  LET i == request[c].id
      refused == call[c].slug # <<>> /\ call[c].slug # entities[i].slug /\ RefusesSlug(i, call[c].slug)
  IN
  /\ Op(c) = "update" /\ call[c].pc = "write"
  /\ \/ /\ UpdateEntity(i, Updates(c))
        /\ \/ /\ Becomes(c, [Indexing(call[c], "updated") EXCEPT
                    !.todo = <<[id |-> i, document |-> <<Document(Merged(i, Updates(c)))>>]>>])
              /\ UNCHANGED <<faults, unheard>>
           \/ /\ Fault
              /\ Becomes(c, Answer(call[c], "handler"))
              /\ unheard' = unheard \cup {i}
        /\ UNCHANGED <<request, model, metadata, documents, announced, minted>>
     \/ /\ i \notin Stored
        /\ Becomes(c, Answer(call[c], "not_found"))
        /\ UNCHANGED <<storeVars, aside>>
     \/ /\ i \in Stored /\ refused
        /\ Becomes(c, IF call[c].slug = call[c].read.slug
                      THEN Answer(call[c], "slug_conflict") ELSE SlugConflict(c))
        /\ UNCHANGED <<storeVars, aside>>

\* What is gone leaves the index; the ids that were not stored are reported as failed.
Delete(c) ==
  LET gone == request[c].ids \cap Stored
      remove == [i \in gone |-> [id |-> i, document |-> <<>>]]
  IN
  /\ Op(c) = "delete" /\ call[c].pc = "idle"
  /\ \/ /\ DeleteEntities(request[c].ids)
        /\ \/ /\ Becomes(c, [Indexing(call[c], "deleted") EXCEPT
                    !.todo = SetToSeq({remove[i] : i \in gone}), !.failed = request[c].ids \ gone])
              /\ UNCHANGED <<faults, unheard>>
           \/ /\ Fault /\ gone # {}
              /\ Becomes(c, Answer(call[c], "handler"))
              /\ unheard' = unheard \cup gone
     \/ /\ Fault
        /\ Becomes(c, Answer(call[c], "cancelled"))
        /\ UNCHANGED <<storeVars, unheard>>
  /\ UNCHANGED <<request, model, metadata, documents, announced, minted>>

\* Indexing is best-effort: the write stands, the failure is announced.
Index(c) ==
  LET next == Head(call[c].todo) IN
  /\ call[c].pc = "index" /\ call[c].todo # <<>>
  /\ \/ /\ documents' = IF next.document = <<>> THEN Drop(documents, {next.id})
                        ELSE Put(documents, next.id, next.document[1])
        /\ UNCHANGED <<faults, announced>>
     \/ /\ Fault
        /\ announced' = announced \cup {next.id}
        /\ UNCHANGED documents
  /\ Becomes(c, [call[c] EXCEPT !.todo = Tail(@)])
  /\ UNCHANGED <<storeVars, request, model, metadata, minted, unheard>>

Return(c) ==
  /\ call[c].pc = "index" /\ call[c].todo = <<>>
  /\ Becomes(c, [call[c] EXCEPT !.pc = "done"])
  /\ UNCHANGED <<storeVars, aside>>

-----------------------------------------------------------------------------
\* reembedAll changes the handle's provider, records the model and counts.
BeginReembed(c) ==
  /\ Op(c) = "reembed" /\ call[c].pc = "idle"
  /\ model' = request[c].model
  /\ metadata' = request[c].model
  /\ Becomes(c, [call[c] EXCEPT !.pc = "page", !.total = Cardinality(Stored), !.counted = Stored,
                                !.ended = {d \in Clients : call[d].pc = "done"}])
  /\ UNCHANGED <<storeVars, request, documents, announced, minted, faults, unheard>>

\* Pages follow the order of the entity map, up to the number counted at the start.
MoreButTheLast(cl) == cl.offset + BatchSize < cl.total /\ cl.offset < Len(order)
MorePages(cl) == cl.offset < cl.total /\ cl.offset < Len(order)

\* After a page, enough failures stop it.
Stops(c) == call[c].offset > 0 /\ \E n \in request[c].threshold : call[c].failures >= n

\* The entities of the next page are read and their texts embedded, unless the
\* provider fails every retry.  Before a page or after one, an abort signal or a
\* progress handler that throws ends the call; the model is not recorded then.
Page(c) ==
  LET cl == call[c]
      page == SubSeq(order, cl.offset + 1, IF cl.offset + BatchSize < Len(order)
                                           THEN cl.offset + BatchSize ELSE Len(order))
      vectors == [k \in DOMAIN page |->
                    [id |-> page[k], vector |-> VectorOf(entities[page[k]], model)]]
  IN
  /\ cl.pc = "page"
  /\ \/ /\ MorePages(cl) /\ ~Stops(c)
        /\ Becomes(c, [cl EXCEPT !.pc = "vectors", !.todo = vectors, !.offset = @ + Len(page)])
        /\ UNCHANGED <<faults, metadata>>
     \/ /\ MorePages(cl) /\ ~Stops(c) /\ Fault
        /\ Becomes(c, [cl EXCEPT !.failed = @ \cup ToSet(page), !.failures = @ + Len(page),
                                 !.offset = @ + Len(page)])
        /\ UNCHANGED metadata
     \/ /\ MorePages(cl) => Stops(c)
        /\ metadata' = model
        /\ Becomes(c, Answer(cl, IF MorePages(cl) THEN "stopped" ELSE "reembedded"))
        /\ UNCHANGED faults
     \/ /\ cl.total > 0 /\ ~Stops(c) /\ Fault
        /\ Becomes(c, Answer(cl, "aborted"))
        /\ UNCHANGED metadata
  /\ UNCHANGED <<storeVars, request, model, documents, announced, minted, unheard>>

\* Vectors are written one by one; an entity that is gone by now is reported, to a
\* handler that may throw.
WriteVector(c) ==
  LET next == Head(call[c].todo)
      written == [call[c] EXCEPT !.todo = Tail(@),
                    !.pc = IF Len(call[c].todo) = 1 THEN "page" ELSE "vectors"]
      missed == [written EXCEPT !.failed = @ \cup {next.id}, !.failures = @ + 1]
  IN
  /\ call[c].pc = "vectors"
  /\ \/ /\ UpdateEntity(next.id, [vector |-> next.vector])
        /\ Becomes(c, written)
        /\ UNCHANGED faults
     \/ /\ next.id \notin Stored
        /\ \/ Becomes(c, missed) /\ UNCHANGED faults
           \/ Fault /\ Becomes(c, Answer(missed, "aborted"))
        /\ UNCHANGED storeVars
  /\ UNCHANGED <<request, model, metadata, documents, announced, minted, unheard>>

-----------------------------------------------------------------------------
\* createRelationships looks for both endpoints, then writes; an endpoint may go in
\* between.
BeginRelate(c) ==
  /\ Op(c) = "relate" /\ call[c].pc = "idle"
  /\ Becomes(c, IF {request[c].rel.source, request[c].rel.target} \subseteq Stored
                THEN [call[c] EXCEPT !.pc = "relate"] ELSE Answer(call[c], "not_found"))
  /\ UNCHANGED <<storeVars, aside>>

WriteRelationship(c) ==
  /\ call[c].pc = "relate"
  /\ \/ /\ CreateRelationship(request[c].id, request[c].rel)
        /\ \/ Becomes(c, Answer(call[c], "related")) /\ UNCHANGED faults
           \/ Fault /\ Becomes(c, Answer(call[c], "partial"))
     \/ /\ RefusesRelationship(request[c].id, request[c].rel)
        /\ Becomes(c, Answer(call[c], "refused"))
        /\ UNCHANGED <<storeVars, faults>>
  /\ UNCHANGED <<request, model, metadata, documents, announced, minted, unheard>>

RemoveRelationships(c) ==
  /\ Op(c) = "unrelate" /\ call[c].pc = "idle"
  /\ DeleteRelationships(request[c].ids)
  /\ Becomes(c, Answer(call[c], "removed"))
  /\ UNCHANGED aside

\* Data goes without the handle: a type with its declaration (VocabularyEngine), or
\* all contents (DeepMemory).  The search index is not told.
Purge(c) ==
  /\ call[c].pc = "idle"
  /\ \/ Op(c) = "purge" /\ DeleteEntitiesByType(request[c].type)
     \/ Op(c) = "purge" /\ DeleteRelationshipsByType(request[c].type)
     \/ Op(c) = "clear" /\ DeleteAllContents
  /\ Becomes(c, Answer(call[c], "purged"))
  /\ unheard' = unheard \cup (Stored \ Stored')
  /\ UNCHANGED <<request, model, metadata, documents, announced, minted, faults>>

-----------------------------------------------------------------------------
Step(c) ==
  \/ BeginCreate(c) \/ BeginUpdate(c) \/ Hook(c) \/ PickSlug(c)
  \/ WriteCreate(c) \/ WriteUpdate(c) \/ Delete(c) \/ Index(c) \/ Return(c)
  \/ BeginReembed(c) \/ Page(c) \/ WriteVector(c)
  \/ BeginRelate(c) \/ WriteRelationship(c) \/ RemoveRelationships(c)
  \/ Purge(c)

\* The entities a call in progress has to do with.
WorksOn(c) ==
  IF ~Running(c) THEN {}
  ELSE CASE Op(c) = "create" -> call[c].wrote
         [] Op(c) = "update" -> {request[c].id}
         [] Op(c) = "delete" -> request[c].ids
         [] Op(c) = "reembed" -> Ids
         [] OTHER -> {}

Contention == {i \in Ids : \E c, d \in Clients : c # d /\ i \in WorksOn(c) \cap WorksOn(d)}

Init ==
  /\ \E plan \in Plans :
       /\ entities = plan.entities
       /\ order = plan.order
       /\ relationships = plan.relationships
       /\ request = plan.asked
       /\ faults = plan.faults
       /\ model = plan.model
  /\ StoreInit
  /\ metadata = model
  /\ call = [c \in Clients |-> NoCall]
  /\ documents = [i \in Stored |-> Document(entities[i])]
  /\ announced = {}
  /\ minted = Cardinality(Stored)
  /\ contended = {} /\ unheard = {}

Next ==
  /\ \E c \in Clients : Step(c)
  /\ contended' = contended \cup Contention'

Spec == Init /\ [][Next]_vars

-----------------------------------------------------------------------------
TypeOK ==
  /\ StoreTypeOK
  /\ order \in Seq(Ids) /\ ToSet(order) = Stored /\ Len(order) = Cardinality(Stored)
  /\ model \in Models /\ metadata \in Models
  /\ announced \cup contended \cup unheard \subseteq Ids
  /\ DOMAIN documents \subseteq Ids
  /\ minted \in 0..Cardinality(Ids)
  /\ \A c \in Clients : call[c].created \in Seq(Ids) /\ call[c].failed \subseteq Ids \cup RelationshipIds

\* What an archive wrote keeps the slug and the vector of its row.
Imported == UNION {call[c].wrote : c \in {d \in Clients : Op(d) \in {"import", "merge"}}}

AtRest(i) == \A c \in Clients : i \notin WorksOn(c)

\* The search index has the current text of every stored entity and nothing else,
\* for every entity no two calls worked on at once: through partial failures,
\* retries and refusals, unless search:index_failed named it or its write ended in a
\* handler that threw or did not go through the handle (indexBestEffort,
\* createEntities' handling of a BatchPartialFailureError, deleteEntities).
IndexAgrees ==
  \A i \in Ids \ (contended \cup announced \cup unheard) : AtRest(i) =>
    /\ i \in Stored <=> i \in DOMAIN documents
    /\ i \in Stored => documents[i] = Document(entities[i])

\* A slug names the type and the label of its entity, whatever slugs were refused and
\* picked again, unless two calls worked on the entity at once or an archive wrote it
\* (createSlugPicker, writeWithSlugRetry).
SlugNamesEntity == \A i \in Stored \ (contended \cup Imported) : NamesItself(entities[i])

\* A batch reports what it stored, no more and no less: all of it, the part before a
\* failure, or nothing when it answers with a plain error (BatchPartialFailureError).
ReportIsTruth ==
  \A c \in Clients : Op(c) = "create" /\ call[c].pc = "done" =>
    /\ ToSet(call[c].created) = call[c].wrote
    /\ call[c].reply = "created" <=> Len(call[c].created) = Len(request[c].inputs) /\ call[c].reply # "partial"
    /\ call[c].reply \notin {"created", "partial"} => call[c].wrote = {}

NoneDeletes == \A c \in Clients : Op(c) \notin {"delete", "purge", "clear"}

NoOtherReembeds(c) == \A d \in Clients \ {c} : Op(d) = "reembed" => call[d].pc = "idle"

\* Entities whose type alone an update may have changed since the re-embedding counted.
Retyped(c) ==
  LET retypes == {d \in Clients \ call[c].ended :
                    Op(d) = "update" /\ request[d].patch.type # Keep /\ ~NeedsReembed(request[d].patch)}
  IN {request[d].id : d \in retypes}

\* reembedAll pages by offset against a count taken once, and when it comes through all
\* pages no entity it counted keeps an embedding of an older model or text, unless it is
\* reported as failed, another call worked on it meanwhile, an archive wrote it, an
\* update gave it a type and nothing else, entities were deleted or another
\* re-embedding has begun.  (Aborted or stopped by failures, it promises nothing.)
ReembedReachesAll ==
  \A c \in Clients :
    Op(c) = "reembed" /\ call[c].reply = "reembedded" /\ NoneDeletes /\ NoOtherReembeds(c) =>
      \A i \in call[c].counted \ (call[c].failed \cup contended \cup Imported \cup Retyped(c)) :
        entities[i].vector = VectorOf(entities[i], model)

=============================================================================
