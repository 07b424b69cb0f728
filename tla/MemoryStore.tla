----------------------------- MODULE MemoryStore -----------------------------
(***************************************************************************)
(* The entities and relationships of one repository as                     *)
(* InMemoryStorageProvider keeps them: maps by id, and an index of slugs    *)
(* that writes maintain and lookups confirm.  Each operation runs without   *)
(* an await and is one step.  An operation that the code refuses is not     *)
(* enabled; Refuses... say why.                                             *)
(***************************************************************************)
EXTENDS Naturals, FiniteSets, Sequences

CONSTANTS
  Ids,              \* entity ids
  RelationshipIds,
  Types, Labels,    \* entity types and labels
  Contents,         \* what else an entity holds: properties, summary, data
  Vectors,          \* embeddings
  Kinds,            \* relationship types
  MaxSuffix         \* bound on the number that makes a slug unique

ASSUME StoreAssumption == MaxSuffix \in Nat \ {0}

VARIABLES
  entities,       \* stored entities by id
  slugIndex,      \* the index: the id recorded for a slug
  order,          \* the ids in the order the entity map iterates
  relationships,  \* stored relationships by id
  doubled         \* history: slugs that a bulk import gave to an entity while another had them

storeVars == <<entities, slugIndex, order, relationships, doubled>>

\* A slug names a type and a label, with a number when that is taken; the numbers
\* above MaxSuffix stand for the slugs of imported copies.
Slugs == Types \X Labels \X (1..2 * MaxSuffix)

Entity == [type : Types, label : Labels, slug : Slugs, content : Contents, vector : Vectors]

Relationship == [kind : Kinds, source : Ids, target : Ids]

PartialFunction(f, S, T) == DOMAIN f \subseteq S /\ f \in [DOMAIN f -> T]

StoreTypeOK ==
  /\ PartialFunction(entities, Ids, Entity)
  /\ PartialFunction(slugIndex, Slugs, Ids)
  /\ PartialFunction(relationships, RelationshipIds, Relationship)
  /\ doubled \subseteq Slugs

Put(f, key, value) == [k \in DOMAIN f \cup {key} |-> IF k = key THEN value ELSE f[k]]

Drop(f, keys) == [k \in DOMAIN f \ keys |-> f[k]]

Stored == DOMAIN entities

\* The index hit counts only if the entity it names still has the slug.
SlugHolder(s) ==
  {i \in Stored : s \in DOMAIN slugIndex /\ slugIndex[s] = i /\ entities[i].slug = s}

-----------------------------------------------------------------------------
AcceptsAnySlug(i, s) == FALSE
RefusesSlug(i, s) == SlugHolder(s) \ {i} # {}

CreateEntity(i, e) ==
  /\ i \notin Stored
  /\ ~RefusesSlug(i, e.slug)
  /\ entities' = Put(entities, i, e)
  /\ slugIndex' = Put(slugIndex, e.slug, i)
  /\ order' = Append(order, i)
  /\ UNCHANGED <<relationships, doubled>>

\* Fields that "updates" does not name keep what the store holds by now.
Merged(i, updates) ==
  [f \in DOMAIN entities[i] |-> IF f \in DOMAIN updates THEN updates[f] ELSE entities[i][f]]

UpdateEntity(i, updates) ==
  LET e == Merged(i, updates)
      moves == e.slug # entities[i].slug
  IN
  /\ i \in Stored
  /\ moves => ~RefusesSlug(i, e.slug)
  /\ entities' = [entities EXCEPT ![i] = e]
  /\ slugIndex' = IF moves THEN Put(Drop(slugIndex, {entities[i].slug}), e.slug, i)
                           ELSE slugIndex
  /\ UNCHANGED <<order, relationships, doubled>>

\* Entities take their relationships with them.
DeleteEntities(ids) ==
  LET gone == ids \cap Stored
      keeps(i) == i \notin gone
  IN
  /\ entities' = Drop(entities, gone)
  /\ slugIndex' = Drop(slugIndex, {entities[i].slug : i \in gone})
  /\ order' = SelectSeq(order, keeps)
  /\ relationships' = Drop(relationships, {r \in DOMAIN relationships :
                        {relationships[r].source, relationships[r].target} \cap gone # {}})
  /\ UNCHANGED doubled

DeleteEntitiesByType(type) == DeleteEntities({i \in Stored : entities[i].type = type})

DeleteAllContents ==
  /\ entities' = <<>>
  /\ slugIndex' = <<>>
  /\ order' = <<>>
  /\ relationships' = <<>>
  /\ UNCHANGED doubled

RefusesKnownIds(r, rel) == r \in DOMAIN relationships
RefusesRelationship(r, rel) ==
  r \in DOMAIN relationships \/ ~({rel.source, rel.target} \subseteq Stored)

CreateRelationship(r, rel) ==
  /\ ~RefusesRelationship(r, rel)
  /\ relationships' = Put(relationships, r, rel)
  /\ UNCHANGED <<entities, slugIndex, order, doubled>>

DeleteRelationships(rs) ==
  /\ relationships' = Drop(relationships, rs)
  /\ UNCHANGED <<entities, slugIndex, order, doubled>>

DeleteRelationshipsByType(kind) ==
  DeleteRelationships({r \in DOMAIN relationships : relationships[r].kind = kind})

\* A row of a bulk import is not checked against the slugs in use: it may take
\* another entity's, and the index with it.
ImportEntity(i, e) ==
  /\ entities' = Put(entities, i, e)
  /\ slugIndex' = Put(slugIndex, e.slug, i)
  /\ order' = IF i \in Stored THEN order ELSE Append(order, i)
  /\ doubled' = doubled \cup ({entities[j].slug : j \in Stored \ {i}} \cap {e.slug})
  /\ UNCHANGED relationships

RefusesRow(r, rel, insertOnly) ==
  \/ ~({rel.source, rel.target} \subseteq Stored)
  \/ r \in DOMAIN relationships /\ (insertOnly \/ relationships[r] # rel)

\* A row may overwrite a relationship with the same type and endpoints, unless
\* every id has to be new.
ImportRelationship(r, rel, insertOnly) ==
  /\ ~RefusesRow(r, rel, insertOnly)
  /\ relationships' = Put(relationships, r, rel)
  /\ UNCHANGED <<entities, slugIndex, order, doubled>>

-----------------------------------------------------------------------------
\* What a repository may be found with: writes by other hands that kept to the rules.
StoreInit ==
  /\ \A i, j \in Stored : i # j => entities[i].slug # entities[j].slug
  /\ slugIndex = [s \in {entities[i].slug : i \in Stored} |->
                    CHOOSE i \in Stored : entities[i].slug = s]
  /\ \A r \in DOMAIN relationships :
       {relationships[r].source, relationships[r].target} \subseteq Stored
  /\ doubled = {}
  /\ StoreTypeOK
  /\ order \in Seq(Ids) /\ Len(order) = Cardinality(Stored)
  /\ Stored = {order[k] : k \in DOMAIN order}

StoreNext ==
  \/ \E i \in Ids, e \in Entity : CreateEntity(i, e) \/ ImportEntity(i, e)
  \/ \E i \in Stored, type \in Types, label \in Labels, slug \in Slugs, content \in Contents,
        vector \in Vectors, fields \in SUBSET {"type", "label", "slug", "content", "vector"} :
       UpdateEntity(i, [f \in fields |->
         [type |-> type, label |-> label, slug |-> slug, content |-> content, vector |-> vector][f]])
  \/ \E ids \in SUBSET Ids : DeleteEntities(ids)
  \/ \E type \in Types : DeleteEntitiesByType(type)
  \/ DeleteAllContents
  \/ \E r \in RelationshipIds, rel \in Relationship, insertOnly \in BOOLEAN :
       CreateRelationship(r, rel) \/ ImportRelationship(r, rel, insertOnly)
  \/ \E rs \in SUBSET RelationshipIds : DeleteRelationships(rs)
  \/ \E kind \in Kinds : DeleteRelationshipsByType(kind)

StoreSpec == StoreInit /\ [][StoreNext]_storeVars

-----------------------------------------------------------------------------
\* A slug belongs to one entity, and a lookup finds the entity that has it, so
\* that the entity map and the slug index agree after any sequence of writes
\* (createEntity, updateEntity, deleteEntities, slugHolder): but for the slugs that
\* rows of a bulk import took from other entities (importBulk), whose lookups find
\* one of the entities that have them or none, and which spoil no other slug.
Directory == INSTANCE SlugDirectory WITH
  Ids <- Ids,
  Slugs <- Slugs,
  named <- [i \in Stored |-> entities[i].slug],
  found <- [s \in Slugs |-> SlugHolder(s)],
  doubled <- doubled

ImplementsDirectory == Directory!Spec

\* No relationship outlives an entity it connects, whether the entity goes by id,
\* by type or between the check of the endpoints and the write (createRelationship).
NoDanglingRelationship ==
  \A r \in DOMAIN relationships :
    {relationships[r].source, relationships[r].target} \subseteq Stored

=============================================================================
