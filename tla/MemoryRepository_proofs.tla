----------------------- MODULE MemoryRepository_proofs -----------------------
(***************************************************************************)
(* Proofs about MemoryStore, MemoryRepository and RepositoryImporter.  The *)
(* store: the slug index finds every entity by its slug, relationships     *)
(* keep their endpoints, and the store implements the directory of slugs.  *)
(* The calls on it, imports among them: a batch reports what it stored, a  *)
(* slug names its entity, the search index follows the entities, a         *)
(* re-embedding reaches all of them, and a merge that runs alone comes     *)
(* through.                                                                *)
(***************************************************************************)
EXTENDS RepositoryImporter, FiniteSetTheorems, TLAPS

\* What lookups rest on: the index names every entity under the entity's slug, unless an
\* import gave that slug to another.  It may name an entity under a slug it has left (an
\* import moved it); slugHolder passes that over.
SlugsIndexed ==
  \A i \in Stored : entities[i].slug \notin doubled =>
    entities[i].slug \in DOMAIN slugIndex /\ slugIndex[entities[i].slug] = i

AreFunctions ==
  /\ entities = [i \in DOMAIN entities |-> entities[i]]
  /\ slugIndex = [s \in DOMAIN slugIndex |-> slugIndex[s]]
  /\ relationships = [r \in DOMAIN relationships |-> relationships[r]]

\* The part of the invariant that does not depend on what the values are.
StoreInv == AreFunctions /\ SlugsIndexed /\ NoDanglingRelationship

\* Under the invariant, a slug that is not refused is no other entity's, or was doubled.
LEMMA NotRefusedIsFree ==
  ASSUME SlugsIndexed, NEW i, NEW s, ~RefusesSlug(i, s)
  PROVE  s \notin doubled => \A j \in Stored \ {i} : entities[j].slug # s
BY DEF SlugsIndexed, RefusesSlug, SlugHolder

\* Each operation keeps the invariant.
LEMMA CreateKeepsInv ==
  ASSUME StoreInv, NEW i, NEW e, CreateEntity(i, e)
  PROVE  StoreInv'
<1>1. /\ i \notin Stored
      /\ entities' = Put(entities, i, e)
      /\ slugIndex' = Put(slugIndex, e.slug, i)
      /\ relationships' = relationships /\ doubled' = doubled
  BY DEF CreateEntity
<1>2. e.slug \notin doubled => \A j \in Stored : entities[j].slug # e.slug
  BY NotRefusedIsFree DEF StoreInv, CreateEntity
<1>3. Stored' = Stored \cup {i} /\ entities'[i] = e /\ \A j \in Stored : entities'[j] = entities[j]
  BY <1>1 DEF Put, Stored
<1>4. /\ DOMAIN slugIndex' = DOMAIN slugIndex \cup {e.slug} /\ slugIndex'[e.slug] = i
      /\ \A s \in DOMAIN slugIndex \ {e.slug} : slugIndex'[s] = slugIndex[s]
  BY <1>1 DEF Put
<1>5. SlugsIndexed'
  BY <1>1, <1>2, <1>3, <1>4 DEF SlugsIndexed, StoreInv
<1>6. AreFunctions'
  BY <1>1 DEF Put, AreFunctions, StoreInv
<1>7. NoDanglingRelationship'
  BY <1>1, <1>3 DEF NoDanglingRelationship, StoreInv
<1> QED BY <1>5, <1>6, <1>7 DEF StoreInv

LEMMA UpdateKeepsInv ==
  ASSUME StoreInv, NEW i, NEW updates, UpdateEntity(i, updates)
  PROVE  StoreInv'
<1> DEFINE e == Merged(i, updates)
           moves == e.slug # entities[i].slug
<1>1. /\ i \in Stored
      /\ moves => ~RefusesSlug(i, e.slug)
      /\ entities' = [entities EXCEPT ![i] = e]
      /\ slugIndex' = IF moves THEN Put(Drop(slugIndex, {entities[i].slug}), e.slug, i)
                               ELSE slugIndex
      /\ relationships' = relationships /\ doubled' = doubled
  BY DEF UpdateEntity
<1> HIDE DEF e
<1>2. Stored' = Stored /\ entities'[i] = e /\ \A j \in Stored \ {i} : entities'[j] = entities[j]
  BY <1>1 DEF Stored, StoreInv, AreFunctions
<1>3. SlugsIndexed'
  <2>1. CASE ~moves
    BY <1>1, <1>2, <2>1 DEF SlugsIndexed, StoreInv
  <2>2. CASE moves
    <3>1. e.slug \notin doubled => \A j \in Stored \ {i} : entities[j].slug # e.slug
      BY <1>1, <2>2, NotRefusedIsFree DEF StoreInv
    <3>2. \A j \in Stored \ {i} : entities[j].slug \notin doubled => entities[j].slug # entities[i].slug
      BY <1>1 DEF SlugsIndexed, StoreInv
    <3> DEFINE rest == Drop(slugIndex, {entities[i].slug})
    <3>3. /\ DOMAIN rest = DOMAIN slugIndex \ {entities[i].slug}
          /\ \A s \in DOMAIN slugIndex \ {entities[i].slug} : rest[s] = slugIndex[s]
      BY DEF Drop
    <3>4. slugIndex' = Put(rest, e.slug, i)
      BY <1>1, <2>2
    <3> HIDE DEF rest
    <3>5. /\ DOMAIN slugIndex' = DOMAIN rest \cup {e.slug} /\ slugIndex'[e.slug] = i
          /\ \A s \in DOMAIN rest \ {e.slug} : slugIndex'[s] = rest[s]
      BY <3>4 DEF Put
    <3>6. entities'[i].slug \in DOMAIN slugIndex' /\ slugIndex'[entities'[i].slug] = i
      BY <1>2, <3>5
    <3>7. ASSUME NEW j \in Stored', entities'[j].slug \notin doubled', j # i
          PROVE  entities'[j].slug \in DOMAIN slugIndex' /\ slugIndex'[entities'[j].slug] = j
      <4>1. j \in Stored \ {i} /\ entities'[j] = entities[j] /\ entities[j].slug \notin doubled
        BY <1>1, <1>2, <3>7
      <4>2. entities[j].slug \in DOMAIN slugIndex /\ slugIndex[entities[j].slug] = j
        BY <4>1 DEF SlugsIndexed, StoreInv
      <4> QED BY <3>1, <3>2, <3>3, <3>5, <4>1, <4>2
    <3>8. ASSUME NEW j \in Stored', entities'[j].slug \notin doubled'
          PROVE  entities'[j].slug \in DOMAIN slugIndex' /\ slugIndex'[entities'[j].slug] = j
      BY <3>6, <3>7, <3>8
    <3> QED BY <3>8 DEF SlugsIndexed
  <2> QED BY <2>1, <2>2
<1>4. AreFunctions'
  <2>1. slugIndex' = [s \in DOMAIN slugIndex' |-> slugIndex'[s]]
    BY <1>1 DEF Put, AreFunctions, StoreInv
  <2> QED BY <1>1, <2>1 DEF AreFunctions, StoreInv
<1>5. NoDanglingRelationship'
  BY <1>1, <1>2 DEF NoDanglingRelationship, StoreInv
<1> QED BY <1>3, <1>4, <1>5 DEF StoreInv

LEMMA DeleteKeepsInv ==
  ASSUME StoreInv, NEW ids, DeleteEntities(ids)
  PROVE  StoreInv'
<1> DEFINE gone == ids \cap Stored
           slugs == {entities[i].slug : i \in gone}
           cut == {r \in DOMAIN relationships :
                     {relationships[r].source, relationships[r].target} \cap gone # {}}
<1>1. /\ entities' = Drop(entities, gone)
      /\ slugIndex' = Drop(slugIndex, slugs)
      /\ relationships' = Drop(relationships, cut) /\ doubled' = doubled
  BY DEF DeleteEntities
<1>2. Stored' = Stored \ gone /\ \A j \in Stored \ gone : entities'[j] = entities[j]
  BY <1>1 DEF Drop, Stored
<1>3. /\ DOMAIN slugIndex' = DOMAIN slugIndex \ slugs
      /\ \A s \in DOMAIN slugIndex \ slugs : slugIndex'[s] = slugIndex[s]
  BY <1>1 DEF Drop
<1>4. \A j \in Stored \ gone : entities[j].slug \notin doubled => entities[j].slug \notin slugs
  BY DEF SlugsIndexed, StoreInv
<1>5. SlugsIndexed'
  BY <1>1, <1>2, <1>3, <1>4 DEF SlugsIndexed, StoreInv
<1>6. AreFunctions'
  BY <1>1 DEF Drop, AreFunctions
<1>7. /\ DOMAIN relationships' = DOMAIN relationships \ cut
      /\ \A r \in DOMAIN relationships \ cut : relationships'[r] = relationships[r]
  BY <1>1 DEF Drop
<1>8. NoDanglingRelationship'
  BY <1>2, <1>7 DEF NoDanglingRelationship, StoreInv
<1> QED BY <1>5, <1>6, <1>8 DEF StoreInv

LEMMA ClearKeepsInv ==
  ASSUME DeleteAllContents
  PROVE  StoreInv'
<1>1. /\ DOMAIN entities' = {} /\ DOMAIN relationships' = {}
      /\ entities' = <<>> /\ slugIndex' = <<>> /\ relationships' = <<>>
  BY DEF DeleteAllContents
<1> QED BY <1>1 DEF StoreInv, AreFunctions, SlugsIndexed, NoDanglingRelationship, Stored

LEMMA RelateKeepsInv ==
  ASSUME StoreInv, NEW r, NEW rel, NEW insertOnly,
         CreateRelationship(r, rel) \/ ImportRelationship(r, rel, insertOnly)
  PROVE  StoreInv'
<1>1. /\ relationships' = Put(relationships, r, rel)
      /\ entities' = entities /\ slugIndex' = slugIndex /\ doubled' = doubled
      /\ {rel.source, rel.target} \subseteq Stored
  BY DEF CreateRelationship, ImportRelationship, RefusesRelationship, RefusesRow
<1>2. /\ DOMAIN relationships' = DOMAIN relationships \cup {r} /\ relationships'[r] = rel
      /\ \A q \in DOMAIN relationships \ {r} : relationships'[q] = relationships[q]
  BY <1>1 DEF Put
<1>3. NoDanglingRelationship'
  BY <1>1, <1>2 DEF NoDanglingRelationship, StoreInv, Stored
<1>4. AreFunctions'
  BY <1>1 DEF Put, AreFunctions, StoreInv
<1> QED BY <1>1, <1>3, <1>4 DEF StoreInv, SlugsIndexed, Stored

LEMMA UnrelateKeepsInv ==
  ASSUME StoreInv, NEW rs, DeleteRelationships(rs)
  PROVE  StoreInv'
<1>1. /\ relationships' = Drop(relationships, rs)
      /\ entities' = entities /\ slugIndex' = slugIndex /\ doubled' = doubled
  BY DEF DeleteRelationships
<1>2. /\ DOMAIN relationships' = DOMAIN relationships \ rs
      /\ \A q \in DOMAIN relationships \ rs : relationships'[q] = relationships[q]
  BY <1>1 DEF Drop
<1> QED BY <1>1, <1>2
        DEF Drop, StoreInv, AreFunctions, SlugsIndexed, NoDanglingRelationship, Stored

LEMMA ImportKeepsInv ==
  ASSUME StoreInv, NEW i, NEW e, ImportEntity(i, e)
  PROVE  StoreInv'
<1>1. /\ entities' = Put(entities, i, e)
      /\ slugIndex' = Put(slugIndex, e.slug, i)
      /\ relationships' = relationships
      /\ doubled' = doubled \cup ({entities[j].slug : j \in Stored \ {i}} \cap {e.slug})
  BY DEF ImportEntity
<1>2. /\ Stored' = Stored \cup {i} /\ entities'[i] = e
      /\ \A j \in Stored \ {i} : entities'[j] = entities[j]
  BY <1>1 DEF Put, Stored
<1>0. \A j \in Stored \ {i} : entities[j].slug \notin doubled' => entities[j].slug \notin doubled \cup {e.slug}
  BY <1>1
<1>3. /\ DOMAIN slugIndex' = DOMAIN slugIndex \cup {e.slug} /\ slugIndex'[e.slug] = i
      /\ \A s \in DOMAIN slugIndex \ {e.slug} : slugIndex'[s] = slugIndex[s]
  BY <1>1 DEF Put
<1>4. SlugsIndexed'
  BY <1>0, <1>2, <1>3 DEF SlugsIndexed, StoreInv
<1>5. AreFunctions'
  BY <1>1 DEF Put, AreFunctions, StoreInv
<1>6. NoDanglingRelationship'
  BY <1>1, <1>2 DEF NoDanglingRelationship, StoreInv
<1> QED BY <1>4, <1>5, <1>6 DEF StoreInv

LEMMA StutterKeepsInv ==
  ASSUME StoreInv, UNCHANGED storeVars
  PROVE  StoreInv'
BY DEF StoreInv, AreFunctions, SlugsIndexed, NoDanglingRelationship, Stored, storeVars

LEMMA StepKeepsInv ==
  ASSUME StoreInv, [StoreNext]_storeVars
  PROVE  StoreInv'
<1>1. CASE UNCHANGED storeVars
  BY <1>1, StutterKeepsInv
<1>2. CASE \E i \in Ids, e \in Entity : CreateEntity(i, e) \/ ImportEntity(i, e)
  BY <1>2, CreateKeepsInv, ImportKeepsInv
<1>3. CASE \E i, updates : UpdateEntity(i, updates)
  BY <1>3, UpdateKeepsInv
<1>4. CASE \E ids : DeleteEntities(ids)
  BY <1>4, DeleteKeepsInv
<1>5. CASE DeleteAllContents
  BY <1>5, ClearKeepsInv
<1>6. CASE \E r, rel, insertOnly : CreateRelationship(r, rel) \/ ImportRelationship(r, rel, insertOnly)
  BY <1>6, RelateKeepsInv
<1>7. CASE \E rs : DeleteRelationships(rs)
  BY <1>7, UnrelateKeepsInv
<1> QED BY <1>1, <1>2, <1>3, <1>4, <1>5, <1>6, <1>7
        DEF StoreNext, DeleteEntitiesByType, DeleteRelationshipsByType

LEMMA InitHasInv ==
  ASSUME StoreInit
  PROVE  StoreInv
<1>1. AreFunctions
  BY DEF StoreInit, StoreTypeOK, PartialFunction, AreFunctions
<1>2. NoDanglingRelationship
  BY DEF StoreInit, NoDanglingRelationship
<1>3. ASSUME NEW i \in Stored
      PROVE  entities[i].slug \in DOMAIN slugIndex /\ slugIndex[entities[i].slug] = i
  <2>1. \A j \in Stored : entities[j].slug = entities[i].slug => j = i
    BY DEF StoreInit
  <2>2. slugIndex = [s \in {entities[j].slug : j \in Stored} |->
                       CHOOSE j \in Stored : entities[j].slug = s]
    BY DEF StoreInit
  <2>3. entities[i].slug \in {entities[j].slug : j \in Stored}
    OBVIOUS
  <2>4. (CHOOSE j \in Stored : entities[j].slug = entities[i].slug) = i
    BY <2>1
  <2> QED BY <2>2, <2>3, <2>4
<1> QED BY <1>1, <1>2, <1>3 DEF StoreInv, SlugsIndexed

\* The maps, the slug index and the relationships agree in every state: whatever writes
\* came before, an entity is found by its slug and a relationship has its endpoints.
THEOREM StoreKeepsInv == StoreSpec => []StoreInv
<1>1. StoreInit => StoreInv
  BY InitHasInv
<1>2. StoreInv /\ [StoreNext]_storeVars => StoreInv'
  BY StepKeepsInv
<1> QED BY <1>1, <1>2, PTL DEF StoreSpec

\* No relationship ever names an entity that is not stored, however creations,
\* deletions and imports of entities and relationships follow one another.
THEOREM NoRelationshipDangles == StoreSpec => []NoDanglingRelationship
BY StoreKeepsInv, PTL DEF StoreInv

-----------------------------------------------------------------------------
\* What the store holds has its type.
LEMMA MergedHasType ==
  ASSUME StoreTypeOK, NEW i \in Stored, NEW updates, NEW all \in Entity,
         NEW fields \in SUBSET {"type", "label", "slug", "content", "vector"},
         updates = [f \in fields |-> all[f]]
  PROVE  Merged(i, updates) \in Entity
<1>1. entities[i] \in Entity
  BY DEF StoreTypeOK, PartialFunction, Stored
<1>2. DOMAIN entities[i] = {"type", "label", "slug", "content", "vector"}
  BY <1>1 DEF Entity
<1>3. /\ DOMAIN updates = fields
      /\ \A f \in fields : updates[f] = all[f]
  OBVIOUS
<1>4. Merged(i, updates) = [f \in {"type", "label", "slug", "content", "vector"} |->
                              IF f \in fields THEN all[f] ELSE entities[i][f]]
  BY <1>2, <1>3 DEF Merged
<1> QED BY <1>1, <1>4 DEF Entity

LEMMA StepKeepsType ==
  ASSUME StoreTypeOK, StoreNext
  PROVE  StoreTypeOK'
<1>0. /\ DOMAIN entities \subseteq Ids /\ entities \in [DOMAIN entities -> Entity]
      /\ DOMAIN slugIndex \subseteq Slugs /\ slugIndex \in [DOMAIN slugIndex -> Ids]
      /\ DOMAIN relationships \subseteq RelationshipIds
      /\ relationships \in [DOMAIN relationships -> Relationship]
      /\ doubled \subseteq Slugs
  BY DEF StoreTypeOK, PartialFunction
<1>1. ASSUME NEW i \in Ids, NEW e \in Entity, CreateEntity(i, e) \/ ImportEntity(i, e)
      PROVE  StoreTypeOK'
  <2>1. /\ entities' = Put(entities, i, e) /\ slugIndex' = Put(slugIndex, e.slug, i)
        /\ relationships' = relationships /\ doubled' \subseteq doubled \cup {e.slug}
    BY <1>1 DEF CreateEntity, ImportEntity
  <2>2. e.slug \in Slugs
    BY DEF Entity
  <2>3. PartialFunction(entities, Ids, Entity)'
    BY <1>0, <2>1 DEF PartialFunction, Put
  <2>4. PartialFunction(slugIndex, Slugs, Ids)'
    BY <1>0, <2>1, <2>2 DEF PartialFunction, Put
  <2> QED BY <1>0, <2>1, <2>2, <2>3, <2>4 DEF StoreTypeOK, PartialFunction
<1>2. ASSUME NEW i \in Stored, NEW e \in Entity, NEW updates,
             UpdateEntity(i, updates), Merged(i, updates) \in Entity
      PROVE  StoreTypeOK'
  <2> DEFINE m == Merged(i, updates)
  <2>1. /\ entities' = [entities EXCEPT ![i] = m]
        /\ \/ slugIndex' = Put(Drop(slugIndex, {entities[i].slug}), m.slug, i)
           \/ slugIndex' = slugIndex
        /\ relationships' = relationships /\ doubled' = doubled
    BY <1>2 DEF UpdateEntity
  <2>2. m \in Entity /\ m.slug \in Slugs /\ i \in Ids
    BY <1>0, <1>2 DEF Entity, Stored
  <2> HIDE DEF m
  <2>3. PartialFunction(entities, Ids, Entity)'
    BY <1>0, <2>1, <2>2 DEF PartialFunction
  <2>4. PartialFunction(slugIndex, Slugs, Ids)'
    BY <1>0, <2>1, <2>2 DEF PartialFunction, Put, Drop
  <2> QED BY <1>0, <2>1, <2>3, <2>4 DEF StoreTypeOK, PartialFunction
<1>3. ASSUME NEW ids, DeleteEntities(ids)
      PROVE  StoreTypeOK'
  <2>1. \E gone, slugs, cut : /\ entities' = Drop(entities, gone)
                              /\ slugIndex' = Drop(slugIndex, slugs)
                              /\ relationships' = Drop(relationships, cut)
                              /\ doubled' = doubled
    BY <1>3 DEF DeleteEntities
  <2> QED BY <1>0, <2>1 DEF StoreTypeOK, PartialFunction, Drop
<1>4. ASSUME DeleteAllContents
      PROVE  StoreTypeOK'
  BY <1>4 DEF DeleteAllContents, StoreTypeOK, PartialFunction
<1>5. ASSUME NEW r \in RelationshipIds, NEW rel \in Relationship, NEW insertOnly,
             CreateRelationship(r, rel) \/ ImportRelationship(r, rel, insertOnly)
      PROVE  StoreTypeOK'
  <2>1. /\ relationships' = Put(relationships, r, rel)
        /\ entities' = entities /\ slugIndex' = slugIndex /\ doubled' = doubled
    BY <1>5 DEF CreateRelationship, ImportRelationship
  <2>2. PartialFunction(relationships, RelationshipIds, Relationship)'
    BY <1>0, <2>1 DEF PartialFunction, Put
  <2> QED BY <1>0, <2>1, <2>2 DEF StoreTypeOK, PartialFunction
<1>6. ASSUME NEW rs, DeleteRelationships(rs)
      PROVE  StoreTypeOK'
  <2>1. /\ relationships' = Drop(relationships, rs)
        /\ entities' = entities /\ slugIndex' = slugIndex /\ doubled' = doubled
    BY <1>6 DEF DeleteRelationships
  <2>2. PartialFunction(relationships, RelationshipIds, Relationship)'
    BY <1>0, <2>1 DEF PartialFunction, Drop
  <2> QED BY <1>0, <2>1, <2>2 DEF StoreTypeOK, PartialFunction
<1>7. ASSUME NEW i \in Stored, NEW type \in Types, NEW label \in Labels, NEW slug \in Slugs,
             NEW content \in Contents, NEW vector \in Vectors,
             NEW fields \in SUBSET {"type", "label", "slug", "content", "vector"},
             UpdateEntity(i, [f \in fields |-> [type |-> type, label |-> label, slug |-> slug,
                                                content |-> content, vector |-> vector][f]])
      PROVE  StoreTypeOK'
  <2> DEFINE all == [type |-> type, label |-> label, slug |-> slug, content |-> content,
                     vector |-> vector]
             updates == [f \in fields |-> all[f]]
  <2>1. all \in Entity
    BY DEF Entity
  <2>2. UpdateEntity(i, updates)
    BY <1>7
  <2> HIDE DEF all
  <2>3. Merged(i, updates) \in Entity
    BY <2>1, MergedHasType
  <2> HIDE DEF updates
  <2> QED BY <1>2, <2>1, <2>2, <2>3
<1> QED BY <1>1, <1>3, <1>4, <1>5, <1>6, <1>7
        DEF StoreNext, DeleteEntitiesByType, DeleteRelationshipsByType

\* Every map keeps its type, the slug index among them.
THEOREM StoreTypeCorrect == StoreSpec => []StoreTypeOK
<1>1. StoreInit => StoreTypeOK
  BY DEF StoreInit
<1>2. StoreTypeOK /\ [StoreNext]_storeVars => StoreTypeOK'
  <2>1. ASSUME StoreTypeOK, UNCHANGED storeVars
        PROVE  StoreTypeOK'
    BY <2>1 DEF StoreTypeOK, PartialFunction, storeVars
  <2> QED BY <2>1, StepKeepsType
<1> QED BY <1>1, <1>2, PTL DEF StoreSpec

-----------------------------------------------------------------------------
\* Lookups answer with the entities that have the slug.
LEMMA LookupAnswers ==
  ASSUME StoreInv
  PROVE  \A s : /\ SlugHolder(s) \subseteq {i \in Stored : entities[i].slug = s}
                /\ \A i, j \in SlugHolder(s) : i = j
                /\ s \notin doubled => SlugHolder(s) = {i \in Stored : entities[i].slug = s}
BY DEF StoreInv, SlugsIndexed, SlugHolder

named == [i \in Stored |-> entities[i].slug]

found == [s \in Slugs |-> SlugHolder(s)]

LEMMA DirectoryAnswers ==
  ASSUME StoreInv
  PROVE  Directory!Answers
<1>1. DOMAIN named = Stored /\ \A i \in Stored : named[i] = entities[i].slug
  BY DEF named
<1>2. \A s \in Slugs : Directory!Holders(s) = {i \in Stored : entities[i].slug = s}
  BY <1>1 DEF Directory!Holders, named
<1>3. ASSUME NEW f, f = [s \in Slugs |-> SlugHolder(s)], NEW s \in Slugs
      PROVE  /\ f[s] \subseteq Directory!Holders(s)
             /\ \A i, j \in f[s] : i = j
             /\ s \notin doubled => f[s] = Directory!Holders(s)
  <2>1. f[s] = SlugHolder(s)
    BY <1>3
  <2>2. /\ SlugHolder(s) \subseteq {i \in Stored : entities[i].slug = s}
        /\ \A i, j \in SlugHolder(s) : i = j
        /\ s \notin doubled => SlugHolder(s) = {i \in Stored : entities[i].slug = s}
    BY LookupAnswers
  <2>3. Directory!Holders(s) = {i \in Stored : entities[i].slug = s}
    BY <1>2
  <2> QED BY <2>1, <2>2, <2>3
<1>4. \A s \in Slugs :
        /\ [t \in Slugs |-> SlugHolder(t)][s] \subseteq Directory!Holders(s)
        /\ \A i, j \in [t \in Slugs |-> SlugHolder(t)][s] : i = j
        /\ s \notin doubled => [t \in Slugs |-> SlugHolder(t)][s] = Directory!Holders(s)
  BY <1>3
<1> QED BY <1>4 DEF Directory!Answers

LEMMA DirectoryAnswersNext ==
  ASSUME StoreInv'
  PROVE  Directory!Answers'
<1>1. DOMAIN named' = Stored' /\ \A i \in Stored' : named'[i] = entities'[i].slug
  BY DEF named
<1>2. \A s \in Slugs : Directory!Holders(s)' = {i \in Stored' : entities'[i].slug = s}
  BY <1>1 DEF Directory!Holders, named
<1>3. \A s : /\ SlugHolder(s)' \subseteq {i \in Stored' : entities'[i].slug = s}
             /\ \A i, j \in SlugHolder(s)' : i = j
             /\ s \notin doubled' => SlugHolder(s)' = {i \in Stored' : entities'[i].slug = s}
  BY DEF StoreInv, SlugsIndexed, SlugHolder
<1>4. ASSUME NEW f, f = [s \in Slugs |-> SlugHolder(s)'], NEW s \in Slugs
      PROVE  /\ f[s] \subseteq Directory!Holders(s)'
             /\ \A i, j \in f[s] : i = j
             /\ s \notin doubled' => f[s] = Directory!Holders(s)'
  <2>1. f[s] = SlugHolder(s)'
    BY <1>4
  <2> QED BY <1>2, <1>3, <2>1
<1>5. \A s \in Slugs :
        /\ [t \in Slugs |-> SlugHolder(t)'][s] \subseteq Directory!Holders(s)'
        /\ \A i, j \in [t \in Slugs |-> SlugHolder(t)'][s] : i = j
        /\ s \notin doubled' => [t \in Slugs |-> SlugHolder(t)'][s] = Directory!Holders(s)'
  BY <1>4
<1> QED BY <1>5 DEF Directory!Answers

\* A step of the store is one of the directory, or changes no slug.  Only an import gives
\* an entity a slug that another has, and notes it.
Notes(i) ==
  doubled' \in {doubled, doubled \cup ({entities[j].slug : j \in Stored \ {i}} \cap {entities'[i].slug})}

LEMMA NamesOne ==
  ASSUME StoreInv, StoreInv', NEW i \in Ids,
         Stored' = Stored \cup {i}, entities'[i].slug \in Slugs, Notes(i),
         \A j \in Stored \ {i} : entities'[j] = entities[j]
  PROVE  Directory!Next
<1> PICK s \in Slugs : s = entities'[i].slug
  OBVIOUS
<1>1. DOMAIN named = Stored /\ \A j \in Stored : named[j] = entities[j].slug
  BY DEF named
<1>2. named' = [j \in DOMAIN named \cup {i} |-> IF j = i THEN s ELSE named[j]]
  BY <1>1 DEF named
<1>3. Directory!Gives(i, s)
  BY <1>1, <1>2 DEF Directory!Gives, named
<1>4. Directory!Free(s, i) <=> \A j \in Stored \ {i} : entities[j].slug # s
  BY <1>1 DEF Directory!Free, named
<1>5. CASE doubled' = doubled
  <2>1. s \notin doubled' => \A j \in Stored' \ {i} : entities'[j].slug # s
    BY DEF StoreInv, SlugsIndexed
  <2>2. s \notin doubled => \A j \in Stored \ {i} : entities[j].slug # s
    BY <1>5, <2>1
  <2>3. Directory!Name(i, s)
    BY <1>3, <1>4, <1>5, <2>2 DEF Directory!Name
  <2> QED BY <2>3, DirectoryAnswersNext DEF Directory!Next
<1>6. CASE doubled' # doubled
  <2>1. doubled' = doubled \cup ({entities[j].slug : j \in Stored \ {i}} \cap {s})
    BY <1>6 DEF Notes
  <2>2. \E j \in Stored \ {i} : entities[j].slug = s
    BY <1>6, <2>1
  <2>3. doubled' = doubled \cup {s}
    BY <2>1, <2>2
  <2>4. Directory!Claim(i, s)
    BY <1>3, <1>4, <2>2, <2>3 DEF Directory!Claim
  <2> QED BY <2>4, DirectoryAnswersNext DEF Directory!Next
<1> QED BY <1>5, <1>6

LEMMA RemovesSome ==
  ASSUME StoreInv', NEW gone \in SUBSET Ids, doubled' = doubled,
         Stored' = Stored \ gone, \A j \in Stored \ gone : entities'[j] = entities[j]
  PROVE  Directory!Next
<1>1. DOMAIN named = Stored /\ \A j \in Stored : named[j] = entities[j].slug
  BY DEF named
<1>2. named' = [j \in DOMAIN named \ gone |-> named[j]]
  BY <1>1 DEF named
<1>3. Directory!Remove(gone)
  BY <1>2 DEF Directory!Remove, named
<1>4. Directory!Answers'
  BY DirectoryAnswersNext
<1> QED BY <1>3, <1>4 DEF Directory!Next

\* Relationships are not the directory's business: the entities removed may be none.
LEMMA StepRefines ==
  ASSUME StoreInv, StoreInv', StoreTypeOK, StoreTypeOK', StoreNext
  PROVE  Directory!Next
<1>0. /\ Stored \subseteq Ids /\ \A i \in Stored : entities[i] \in Entity
      /\ Stored' \subseteq Ids /\ \A i \in Stored' : entities'[i].slug \in Slugs
  BY DEF StoreTypeOK, PartialFunction, Stored, Entity
<1>1. ASSUME NEW i \in Ids, NEW e \in Entity, CreateEntity(i, e) \/ ImportEntity(i, e)
      PROVE  Directory!Next
  <2>1. /\ entities' = Put(entities, i, e)
        /\ doubled' \in {doubled, doubled \cup ({entities[j].slug : j \in Stored \ {i}} \cap {e.slug})}
    BY <1>1 DEF CreateEntity, ImportEntity
  <2>2. entities'[i] = e
    BY <2>1 DEF Put
  <2>3. Stored' = Stored \cup {i} /\ \A j \in Stored \ {i} : entities'[j] = entities[j]
    BY <2>1 DEF Put, Stored
  <2> QED BY <1>0, <2>1, <2>2, <2>3, NamesOne DEF Notes
<1>2. ASSUME NEW i \in Stored, NEW updates, UpdateEntity(i, updates)
      PROVE  Directory!Next
  <2>1. entities' = [entities EXCEPT ![i] = Merged(i, updates)] /\ doubled' = doubled
    BY <1>2 DEF UpdateEntity
  <2>2. Stored' = Stored \cup {i} /\ \A j \in Stored \ {i} : entities'[j] = entities[j]
    BY <2>1 DEF Stored, StoreInv, AreFunctions
  <2> QED BY <1>0, <2>1, <2>2, NamesOne DEF Notes
<1>3. ASSUME NEW ids, DeleteEntities(ids)
      PROVE  Directory!Next
  <2> DEFINE gone == ids \cap Stored
  <2>1. entities' = Drop(entities, gone) /\ doubled' = doubled /\ gone \in SUBSET Ids
    BY <1>0, <1>3 DEF DeleteEntities
  <2> HIDE DEF gone
  <2>2. Stored' = Stored \ gone /\ \A j \in Stored \ gone : entities'[j] = entities[j]
    BY <2>1 DEF Drop, Stored
  <2> QED BY <2>1, <2>2, RemovesSome
<1>4. ASSUME DeleteAllContents
      PROVE  Directory!Next
  <2>1. Stored' = Stored \ Stored /\ doubled' = doubled
    BY <1>4 DEF DeleteAllContents, Stored
  <2> QED BY <1>0, <2>1, RemovesSome
<1>5. ASSUME entities' = entities, doubled' = doubled
      PROVE  Directory!Next
  <2>1. PICK gone \in SUBSET Ids : gone = {}
    OBVIOUS
  <2>2. Stored' = Stored \ gone /\ \A j \in Stored \ gone : entities'[j] = entities[j]
    BY <1>5, <2>1 DEF Stored
  <2> QED BY <1>5, <2>2, RemovesSome
<1>6. ASSUME NEW r, NEW rel, NEW insertOnly,
             CreateRelationship(r, rel) \/ ImportRelationship(r, rel, insertOnly)
      PROVE  Directory!Next
  BY <1>5, <1>6 DEF CreateRelationship, ImportRelationship
<1>7. ASSUME NEW rs, DeleteRelationships(rs)
      PROVE  Directory!Next
  BY <1>5, <1>7 DEF DeleteRelationships
<1> QED BY <1>1, <1>2, <1>3, <1>4, <1>6, <1>7
        DEF StoreNext, DeleteEntitiesByType, DeleteRelationshipsByType

LEMMA StutterRefines ==
  ASSUME UNCHANGED storeVars
  PROVE  UNCHANGED <<named, found, doubled>>
BY DEF storeVars, named, found, Stored, SlugHolder

LEMMA InitRefines ==
  ASSUME StoreInit
  PROVE  Directory!Init
<1>1. StoreInv /\ StoreTypeOK
  BY InitHasInv DEF StoreInit
<1>2. /\ DOMAIN named = Stored /\ Stored \subseteq Ids
      /\ \A i \in Stored : named[i] = entities[i].slug /\ entities[i].slug \in Slugs
  BY <1>1 DEF named, StoreTypeOK, PartialFunction, Stored, Entity
<1>3. named \in [DOMAIN named -> Slugs]
  BY <1>2 DEF named
<1>4. \A i \in DOMAIN named : Directory!Free(named[i], i)
  BY <1>2 DEF Directory!Free, StoreInit, named
<1>5. Directory!Answers
  BY <1>1, DirectoryAnswers
<1> QED BY <1>2, <1>3, <1>4, <1>5 DEF Directory!Init, StoreInit, named

\* A repository's slugs are a directory: one slug to an entity, one entity to a slug,
\* and lookups that agree, after any sequence of the store's operations; a row of a bulk
\* import that takes another entity's slug (importBulk does not look) ends that for this
\* slug and for no other.
THEOREM StoreImplementsDirectory == StoreSpec => ImplementsDirectory
<1>1. StoreInit => Directory!Init
  BY InitRefines
<1>2. StoreInv /\ StoreInv' /\ StoreTypeOK /\ StoreTypeOK' /\ [StoreNext]_storeVars
        => [Directory!Next]_<<named, found, doubled>>
  BY StepRefines, StutterRefines
<1> QED BY <1>1, <1>2, StoreKeepsInv, StoreTypeCorrect, PTL
        DEF StoreSpec, ImplementsDirectory, Directory!Spec, named, found

-----------------------------------------------------------------------------
\* The steps of the calls, seen from the store: each is one operation of the store, or
\* leaves it alone.
StoreEffect ==
  \/ UNCHANGED storeVars
  \/ \E i, e : CreateEntity(i, e) \/ ImportEntity(i, e)
  \/ \E i, updates : UpdateEntity(i, updates)
  \/ \E ids : DeleteEntities(ids)
  \/ DeleteAllContents
  \/ \E r, rel, insertOnly : CreateRelationship(r, rel) \/ ImportRelationship(r, rel, insertOnly)
  \/ \E rs : DeleteRelationships(rs)

LEMMA EffectKeepsInv ==
  ASSUME StoreInv, StoreEffect
  PROVE  StoreInv'
<1>1. CASE UNCHANGED storeVars
  BY <1>1, StutterKeepsInv
<1>2. CASE \E i, e : CreateEntity(i, e) \/ ImportEntity(i, e)
  BY <1>2, CreateKeepsInv, ImportKeepsInv
<1>3. CASE \E i, updates : UpdateEntity(i, updates)
  BY <1>3, UpdateKeepsInv
<1>4. CASE \E ids : DeleteEntities(ids)
  BY <1>4, DeleteKeepsInv
<1>5. CASE DeleteAllContents
  BY <1>5, ClearKeepsInv
<1>6. CASE \E r, rel, insertOnly : CreateRelationship(r, rel) \/ ImportRelationship(r, rel, insertOnly)
  BY <1>6, RelateKeepsInv
<1>7. CASE \E rs : DeleteRelationships(rs)
  BY <1>7, UnrelateKeepsInv
<1> QED BY <1>1, <1>2, <1>3, <1>4, <1>5, <1>6, <1>7 DEF StoreEffect

LEMMA StepsAreStoreSteps ==
  ASSUME NEW c, Step(c) \/ ImportStep(c)
  PROVE  StoreEffect
<1>1. CASE BeginCreate(c) \/ BeginUpdate(c) \/ Hook(c) \/ PickSlug(c)
  BY <1>1 DEF BeginCreate, BeginUpdate, Hook, PickSlug, StoreEffect
<1>2. CASE WriteCreate(c)
  BY <1>2 DEF WriteCreate, StoreEffect
<1>3. CASE WriteUpdate(c)
  BY <1>3 DEF WriteUpdate, StoreEffect
<1>4. CASE Delete(c)
  BY <1>4 DEF Delete, StoreEffect
<1>5. CASE Index(c) \/ Return(c) \/ BeginReembed(c) \/ Page(c)
  BY <1>5 DEF Index, Return, BeginReembed, Page, StoreEffect
<1>6. CASE WriteVector(c)
  BY <1>6 DEF WriteVector, StoreEffect
<1>7. CASE BeginRelate(c) \/ WriteRelationship(c)
  BY <1>7 DEF BeginRelate, WriteRelationship, StoreEffect
<1>8. CASE RemoveRelationships(c)
  BY <1>8 DEF RemoveRelationships, StoreEffect
<1>9. CASE Purge(c)
  BY <1>9 DEF Purge, DeleteEntitiesByType, DeleteRelationshipsByType, StoreEffect
<1>10. CASE BeginImport(c) \/ LookUp(c) \/ TrySlug(c) \/ LookUpRelationship(c)
  BY <1>10 DEF BeginImport, LookUp, TrySlug, LookUpRelationship, StoreEffect
<1>11. CASE ImportRow(c)
  BY <1>11 DEF ImportRow, StoreEffect
<1>12. CASE MergeEntity(c)
  BY <1>12 DEF MergeEntity, MergeWrite, StoreEffect
<1>13. CASE MergeRelationship(c)
  BY <1>13 DEF MergeRelationship, StoreEffect
<1> QED BY <1>1, <1>2, <1>3, <1>4, <1>5, <1>6, <1>7, <1>8, <1>9, <1>10, <1>11, <1>12, <1>13
        DEF Step, ImportStep

LEMMA ImportStepKeepsStore ==
  ASSUME StoreInv, [ImportNext]_vars
  PROVE  StoreInv'
<1>1. CASE UNCHANGED vars
  BY <1>1, StutterKeepsInv DEF vars
<1>2. CASE ImportNext
  BY <1>2, StepsAreStoreSteps, EffectKeepsInv DEF ImportNext
<1> QED BY <1>1, <1>2

LEMMA CallsKeepStore == ImportSpec => []StoreInv
<1>1. Init => StoreInv
  BY InitHasInv DEF Init
<1>2. StoreInv /\ [ImportNext]_vars => StoreInv'
  BY ImportStepKeepsStore
<1> QED BY <1>1, <1>2, PTL DEF ImportSpec

\* No relationship ever names an entity that is not stored, whatever calls and imports
\* run side by side: between the check of its endpoints and the write of a relationship,
\* among others (createRelationships, importStreamMerge, deleteEntities, purges).
THEOREM CallsLeaveNothingDangling == ImportSpec => []NoDanglingRelationship
BY CallsKeepStore, PTL DEF StoreInv

-----------------------------------------------------------------------------
\* What is asked for stays what it was, with the types it was declared with.
RequestsTyped == DOMAIN request \subseteq Clients /\ \A c \in DOMAIN request : request[c] \in Request

LEMMA OpsKnown ==
  ASSUME RequestsTyped, NEW c
  PROVE  Op(c) \in {"none", "create", "update", "delete", "reembed", "relate", "unrelate",
                    "purge", "clear", "import", "merge"}
BY DEF RequestsTyped, Request, Op

LEMMA AskedCreate ==
  ASSUME RequestsTyped, NEW c, Op(c) = "create"
  PROVE  /\ request[c].inputs \in Seq(EntityInput)
         /\ \A k \in DOMAIN request[c].inputs :
              LET input == request[c].inputs[k] IN
              input.type \in Types /\ input.label \in Labels /\ input.id \in Ids \cup {Mint}
<1>1. request[c].inputs \in Seq(EntityInput)
  BY DEF RequestsTyped, Request, Op
<1>2. \A k \in DOMAIN request[c].inputs : request[c].inputs[k] \in EntityInput
  BY <1>1
<1> QED BY <1>1, <1>2 DEF EntityInput

LEMMA AskedUpdate ==
  ASSUME RequestsTyped, NEW c, Op(c) = "update"
  PROVE  /\ request[c].id \in Ids
         /\ request[c].patch.type \in Types \cup {Keep}
         /\ request[c].patch.label \in Labels \cup {Keep}
BY DEF RequestsTyped, Request, Op, EntityPatch

LEMMA AskedDelete ==
  ASSUME RequestsTyped, NEW c, Op(c) = "delete"
  PROVE  request[c].ids \subseteq Ids
BY DEF RequestsTyped, Request, Op

LEMMA AskedImport ==
  ASSUME RequestsTyped, NEW c, Op(c) \in {"import", "merge"}
  PROVE  /\ request[c].rows \in Seq(ArchiveRow)
         /\ Op(c) = "merge" => request[c].conflict \in {"skip", "overwrite", "rename"}
BY DEF RequestsTyped, Request, Op

EntityFields == {"type", "label", "slug", "content", "vector"}

\* The fields that have a declared type here are those that make a slug.
ShapedEntity(e) ==
  /\ e = [f \in EntityFields |-> e[f]]
  /\ e.type \in Types /\ e.label \in Labels /\ e.slug \in Slugs

LEMMA RowShaped ==
  ASSUME NEW row \in ArchiveRow, IsEntity(row)
  PROVE  row.id \in Ids /\ ShapedEntity(row.entity)
<1>1. row \in [item : {"entity"}, id : Ids, entity : Entity]
  BY DEF ArchiveRow, IsEntity
<1>2. row.entity \in [type : Types, label : Labels, slug : Slugs, content : Contents, vector : Vectors]
  BY <1>1 DEF Entity
<1>3. row.entity = [f \in {"type", "label", "slug", "content", "vector"} |-> row.entity[f]]
  BY <1>2
<1> QED BY <1>1, <1>2, <1>3 DEF ShapedEntity, EntityFields

EntitiesShaped == Stored \subseteq Ids /\ \A i \in Stored : ShapedEntity(entities[i])

-----------------------------------------------------------------------------
\* The record that a call keeps.
CallFields == {"pc", "member", "n", "slug", "vector", "refused", "read", "created", "todo",
               "offset", "total", "failed", "failures", "counted", "ended", "wrote", "reply"}

IsCall(cl) == cl = [f \in CallFields |-> cl[f]]

Same(cl, other, fields) == \A f \in fields : cl[f] = other[f]

LEMMA NoCallFields ==
  /\ IsCall(NoCall) /\ NoCall.pc = "idle" /\ NoCall.member = 1 /\ NoCall.slug = <<>>
  /\ NoCall.created = <<>> /\ NoCall.todo = <<>> /\ NoCall.wrote = {} /\ NoCall.reply = "none"
  /\ NoCall.offset = 0 /\ NoCall.ended = {}
BY DEF NoCall, IsCall, CallFields

LEMMA AnswerFields ==
  ASSUME NEW cl, IsCall(cl), NEW reply
  PROVE  LET a == Answer(cl, reply) IN
         /\ IsCall(a) /\ a.pc = "done" /\ a.reply = reply
         /\ Same(a, cl, CallFields \ {"pc", "reply"})
BY DEF Answer, IsCall, CallFields, Same

LEMMA IndexingFields ==
  ASSUME NEW cl, IsCall(cl), NEW reply
  PROVE  LET a == Indexing(cl, reply) IN
         /\ IsCall(a) /\ a.pc = "index" /\ a.reply = reply
         /\ Same(a, cl, CallFields \ {"pc", "reply"})
BY DEF Indexing, IsCall, CallFields, Same

LEMMA FailedFields ==
  ASSUME NEW cl, IsCall(cl), NEW reply
  PROVE  LET a == Failed(cl, reply) IN
         /\ IsCall(a)
         /\ \/ cl.created = <<>> /\ a.pc = "done" /\ a.reply = reply
            \/ cl.created # <<>> /\ a.pc = "index" /\ a.reply = "partial"
         /\ Same(a, cl, CallFields \ {"pc", "reply"})
<1>1. CASE cl.created = <<>>
  BY <1>1, AnswerFields DEF Failed
<1>2. CASE cl.created # <<>>
  <2>1. Failed(cl, reply) = Indexing(cl, "partial")
    BY <1>2 DEF Failed
  <2> DEFINE a == Indexing(cl, "partial")
  <2>2. /\ IsCall(a) /\ a.pc = "index" /\ a.reply = "partial"
        /\ Same(a, cl, CallFields \ {"pc", "reply"})
    BY IndexingFields
  <2> QED BY <1>2, <2>1, <2>2
<1> QED BY <1>1, <1>2

LEMMA ConflictFields ==
  ASSUME NEW c, IsCall(call[c])
  PROVE  LET a == SlugConflict(c) IN
         /\ IsCall(a)
         /\ \/ a.pc = "pick" /\ a.n = 1 /\ a.refused # {} /\ a.reply = call[c].reply
            \/ call[c].created = <<>> /\ a.pc = "done" /\ a.reply = "slug_conflict"
            \/ call[c].created # <<>> /\ a.pc = "index" /\ a.reply = "partial"
         /\ Same(a, call[c], CallFields \ {"pc", "n", "refused", "reply"})
<1> DEFINE again == [call[c] EXCEPT !.pc = "pick", !.n = 1, !.refused = @ \cup {call[c].slug}]
<1>1. /\ IsCall(again) /\ again.pc = "pick" /\ again.n = 1 /\ again.reply = call[c].reply
      /\ again.refused = call[c].refused \cup {call[c].slug}
      /\ Same(again, call[c], CallFields \ {"pc", "n", "refused"})
  BY DEF IsCall, CallFields, Same
<1>2. again.refused # {}
  BY <1>1
<1>3. SlugConflict(c) = again \/ SlugConflict(c) = Failed(call[c], "slug_conflict")
  BY DEF SlugConflict
<1> HIDE DEF again
<1>4. CASE SlugConflict(c) = again
  BY <1>1, <1>2, <1>4 DEF Same
<1>5. CASE SlugConflict(c) = Failed(call[c], "slug_conflict")
  BY <1>5, FailedFields DEF Same
<1> QED BY <1>3, <1>4, <1>5

LEMMA WroteFields ==
  ASSUME NEW c, NEW i, NEW e, IsCall(call[c])
  PROVE  LET a == WroteMember(c, i, e) IN
         /\ IsCall(a)
         /\ a.created = Append(call[c].created, i)
         /\ a.todo = Append(call[c].todo, [id |-> i, document |-> <<Document(e)>>])
         /\ a.wrote = call[c].wrote \cup {i}
         /\ Same(a, call[c], CallFields \ {"created", "todo", "wrote"})
BY DEF WroteMember, IsCall, CallFields, Same

LEMMA NextMemberFields ==
  ASSUME NEW c, NEW cl, IsCall(cl)
  PROVE  LET a == NextMember(c, cl) IN
         /\ IsCall(a)
         /\ \/ /\ call[c].member < Len(request[c].inputs)
               /\ a.pc = "hook" /\ a.member = cl.member + 1 /\ a.reply = cl.reply
            \/ /\ ~(call[c].member < Len(request[c].inputs))
               /\ a.pc = "index" /\ a.member = cl.member /\ a.reply = "created"
         /\ Same(a, cl, CallFields \ {"pc", "member", "reply"})
<1> DEFINE next == [cl EXCEPT !.pc = "hook", !.member = @ + 1]
<1>1. /\ IsCall(next) /\ next.pc = "hook" /\ next.member = cl.member + 1 /\ next.reply = cl.reply
      /\ Same(next, cl, CallFields \ {"pc", "member"})
  BY DEF IsCall, CallFields, Same
<1>2. NextMember(c, cl) = IF call[c].member < Len(request[c].inputs) THEN next
                          ELSE Indexing(cl, "created")
  BY DEF NextMember
<1> HIDE DEF next
<1>3. CASE call[c].member < Len(request[c].inputs)
  BY <1>1, <1>2, <1>3 DEF Same
<1>4. CASE ~(call[c].member < Len(request[c].inputs))
  BY <1>2, <1>4, IndexingFields DEF Same, CallFields
<1> QED BY <1>3, <1>4

LEMMA NextRowFields ==
  ASSUME NEW c, NEW cl, IsCall(cl)
  PROVE  LET a == NextRow(c, cl) IN
         /\ IsCall(a)
         /\ \/ /\ call[c].member < Len(request[c].rows)
               /\ a.pc = "row" /\ a.member = cl.member + 1 /\ a.reply = cl.reply
            \/ /\ ~(call[c].member < Len(request[c].rows))
               /\ a.pc = "done" /\ a.member = cl.member /\ a.reply = "imported"
         /\ Same(a, cl, CallFields \ {"pc", "member", "reply"})
<1> DEFINE next == [cl EXCEPT !.pc = "row", !.member = @ + 1]
<1>1. /\ IsCall(next) /\ next.pc = "row" /\ next.member = cl.member + 1 /\ next.reply = cl.reply
      /\ Same(next, cl, CallFields \ {"pc", "member"})
  BY DEF IsCall, CallFields, Same
<1>2. NextRow(c, cl) = IF call[c].member < Len(request[c].rows) THEN next
                       ELSE Answer(cl, "imported")
  BY DEF NextRow
<1> HIDE DEF next
<1>3. CASE call[c].member < Len(request[c].rows)
  BY <1>1, <1>2, <1>3 DEF Same
<1>4. CASE ~(call[c].member < Len(request[c].rows))
  BY <1>2, <1>4, AnswerFields DEF Same, CallFields
<1> QED BY <1>3, <1>4

-----------------------------------------------------------------------------
\* Sequences.
IsSeq(s) == s \in Seq(ToSet(s))

LEMMA EmptyIsSeq == IsSeq(<<>>) /\ ToSet(<<>>) = {}
BY DEF IsSeq, ToSet

LEMMA SeqIsSeq ==
  ASSUME NEW S, NEW s \in Seq(S)
  PROVE  IsSeq(s) /\ ToSet(s) \subseteq S
BY DEF IsSeq, ToSet

LEMMA AppendIsSeq ==
  ASSUME NEW s, IsSeq(s), NEW x
  PROVE  /\ IsSeq(Append(s, x)) /\ ToSet(Append(s, x)) = ToSet(s) \cup {x}
         /\ Len(Append(s, x)) = Len(s) + 1 /\ Append(s, x) # <<>>
<1> DEFINE T == ToSet(s) \cup {x}
           a == Append(s, x)
<1>1. s \in Seq(T)
  BY DEF IsSeq
<1>2. a \in Seq(T) /\ Len(a) = Len(s) + 1 /\ a[Len(a)] = x /\ \A k \in 1..Len(s) : a[k] = s[k]
  BY <1>1
<1>3. DOMAIN s = 1..Len(s) /\ DOMAIN a = 1..Len(a) /\ Len(s) \in Nat
  BY <1>1, <1>2
<1> HIDE DEF a
<1>4. \A y \in T : y \in ToSet(a)
  <2>1. Len(a) \in DOMAIN a
    BY <1>2, <1>3
  <2>2. \A k \in DOMAIN s : k \in DOMAIN a /\ a[k] = s[k]
    BY <1>2, <1>3
  <2> QED BY <1>2, <2>1, <2>2 DEF ToSet
<1>5. \A y \in ToSet(a) : y \in T
  <2> SUFFICES ASSUME NEW k \in DOMAIN a
               PROVE  a[k] \in T
    BY DEF ToSet
  <2> QED BY <1>2, <1>3
<1>6. ToSet(a) = T
  BY <1>4, <1>5
<1>7. a # <<>>
  BY <1>2, <1>3
<1> QED BY <1>2, <1>6, <1>7 DEF IsSeq, a

LEMMA TailIsSeq ==
  ASSUME NEW s, IsSeq(s), s # <<>>
  PROVE  /\ IsSeq(Tail(s)) /\ ToSet(s) = ToSet(Tail(s)) \cup {Head(s)}
         /\ Len(Tail(s)) = Len(s) - 1 /\ Len(s) \in Nat \ {0}
<1> DEFINE T == ToSet(s)
           t == Tail(s)
<1>1. s \in Seq(T)
  BY DEF IsSeq
<1>2. /\ t \in Seq(T) /\ Len(s) \in Nat \ {0} /\ Len(t) = Len(s) - 1 /\ Head(s) = s[1]
      /\ \A k \in 1..Len(t) : t[k] = s[k + 1]
  BY <1>1
<1>3. DOMAIN s = 1..Len(s) /\ DOMAIN t = 1..Len(t)
  BY <1>1, <1>2
<1> HIDE DEF t
<1>4. \A y \in T : y \in ToSet(t) \cup {Head(s)}
  <2> SUFFICES ASSUME NEW k \in DOMAIN s, s[k] # Head(s)
               PROVE  s[k] \in ToSet(t)
    BY DEF ToSet
  <2>1. k - 1 \in DOMAIN t /\ t[k - 1] = s[k]
    BY <1>2, <1>3
  <2> QED BY <2>1 DEF ToSet
<1>5. ToSet(t) \subseteq T
  BY <1>2 DEF ToSet
<1>6. Head(s) \in T
  BY <1>2, <1>3 DEF ToSet
<1>7. IsSeq(t)
  BY <1>2, SeqIsSeq
<1>8. T = ToSet(t) \cup {Head(s)}
  BY <1>4, <1>5, <1>6
<1> QED BY <1>2, <1>7, <1>8 DEF t

LEMMA SetToSeqIsSeq ==
  ASSUME NEW S, IsFiniteSet(S)
  PROVE  IsSeq(SetToSeq(S)) /\ ToSet(SetToSeq(S)) = S
<1> DEFINE n == Cardinality(S)
           s == SetToSeq(S)
<1>1. n \in Nat
  BY FS_CardinalityType
<1>2. IsFiniteSet(1..n) /\ Cardinality(1..n) = n
  BY <1>1, FS_Interval
<1>3. ExistsBijection(1..n, S)
  BY <1>2, FS_SameCardinalityBij
<1>4. PICK f \in [1..n -> S] : f \in Injection(1..n, S)
  BY <1>3 DEF ExistsBijection, Bijection, Injection
<1>5. \E g \in [1..n -> S] : IsInjective(g)
  <2>1. IsInjective(f)
    BY <1>4 DEF Injection
  <2> QED BY <1>4, <2>1
<1>6. s \in [1..n -> S] /\ IsInjective(s)
  BY <1>5 DEF SetToSeq
<1> HIDE DEF s
<1>7. s \in Injection(1..n, S)
  BY <1>6 DEF Injection, IsInjective
<1>8. s \in Surjection(1..n, S)
  BY <1>2, <1>7, FS_Injection
<1>9. s \in Seq(S) /\ DOMAIN s = 1..n
  BY <1>1, <1>6
<1>10. \A x \in S : x \in ToSet(s)
  BY <1>8, <1>9 DEF Surjection, ToSet
<1> QED BY <1>9, <1>10, SeqIsSeq DEF s

-----------------------------------------------------------------------------
\* Where a call may stand, and what its record holds there.
Indexed(c) == {x.id : x \in ToSet(call[c].todo)}

\* A batch: the members stored so far are the ones before the current one, and the
\* reply says whether they are all, some or none.
CreateShaped(c) == Op(c) = "create" =>
  /\ call[c].pc \in {"idle", "hook", "pick", "write", "index", "done"}
  /\ call[c].created \in Seq(Ids) /\ ToSet(call[c].created) = call[c].wrote
  /\ IsSeq(call[c].todo) /\ Indexed(c) \subseteq call[c].wrote
  /\ call[c].pc = "idle" => call[c].created = <<>> /\ call[c].member = 1
  /\ call[c].pc \in {"hook", "pick", "write"} =>
       /\ call[c].member \in 1..Len(request[c].inputs)
       /\ Len(call[c].created) = call[c].member - 1
  /\ call[c].created = <<>> \/ call[c].pc = "done" => call[c].todo = <<>>
  /\ call[c].pc \in {"index", "done"} =>
       \/ call[c].reply = "created" /\ Len(call[c].created) = Len(request[c].inputs)
       \/ call[c].reply = "partial" /\ call[c].created # <<>>
       \/ /\ call[c].reply \notin {"created", "partial"}
          /\ call[c].created = <<>> /\ request[c].inputs # <<>>
  /\ call[c].pc = "pick" => call[c].n \in Nat \ {0}
  /\ call[c].pc = "write" =>
       LET input == request[c].inputs[call[c].member] IN
       call[c].slug \in Slugs /\ call[c].slug[1] = input.type /\ call[c].slug[2] = input.label

\* An update has a slug to write exactly if it renames the entity it read.
UpdateShaped(c) == Op(c) = "update" =>
  /\ call[c].pc \in {"idle", "hook", "pick", "write", "index", "done"}
  /\ call[c].created = <<>>
  /\ IsSeq(call[c].todo) /\ Indexed(c) \subseteq {request[c].id}
  /\ call[c].pc # "index" => call[c].todo = <<>>
  /\ call[c].pc \in {"hook", "pick", "write"} => ShapedEntity(call[c].read)
  /\ call[c].pc \in {"idle", "hook"} => call[c].slug = <<>>
  /\ call[c].pc = "pick" => Renames(c) /\ call[c].n \in Nat \ {0}
  /\ call[c].pc = "write" =>
       \/ ~Renames(c) /\ call[c].slug = <<>>
       \/ /\ Renames(c) /\ call[c].slug \in Slugs
          /\ call[c].slug[1] = Wanted(c).type /\ call[c].slug[2] = Wanted(c).label

DeleteShaped(c) == Op(c) = "delete" =>
  /\ call[c].pc \in {"idle", "index", "done"}
  /\ IsSeq(call[c].todo) /\ Indexed(c) \subseteq request[c].ids
  /\ call[c].pc # "index" => call[c].todo = <<>>

ImportShaped(c) == Op(c) \in {"import", "merge"} =>
  /\ call[c].pc \in {"idle", "row", "merge", "copy", "relationship", "done"}
  /\ call[c].pc \in {"merge", "copy", "relationship"} => Op(c) = "merge"
  /\ call[c].pc = "idle" => call[c].member = 1
  /\ call[c].pc \in {"row", "merge", "copy", "relationship"} =>
       call[c].member \in 1..Len(request[c].rows)
  /\ call[c].pc \in {"merge", "copy"} => IsEntity(Row(c)) /\ call[c].n \in Nat \ {0}
  /\ call[c].pc = "copy" =>
       CopySlug(c) \in Slugs /\ call[c].read # <<>> /\ request[c].conflict = "rename"
  /\ call[c].pc = "relationship" => ~IsEntity(Row(c))
  /\ call[c].wrote \subseteq unheard

OthersShaped(c) ==
  /\ Op(c) = "reembed" => call[c].pc \in {"idle", "page", "vectors", "done"}
  /\ Op(c) = "relate" => call[c].pc \in {"idle", "relate", "done"}
  /\ Op(c) \in {"unrelate", "purge", "clear"} => call[c].pc \in {"idle", "done"}
  /\ Op(c) = "none" => call[c].pc = "idle"

CallShaped(c) ==
  /\ IsCall(call[c])
  /\ CreateShaped(c) /\ UpdateShaped(c) /\ DeleteShaped(c) /\ ImportShaped(c) /\ OthersShaped(c)

Shaped ==
  /\ RequestsTyped
  /\ EntitiesShaped
  /\ IsFiniteSet(Stored)
  /\ call = [c \in Clients |-> call[c]]
  /\ \A c \in Clients : CallShaped(c)

\* A call that takes no step stays as it is.
LEMMA OtherStaysShaped ==
  ASSUME NEW c, CallShaped(c), request' = request, call'[c] = call[c], unheard \subseteq unheard'
  PROVE  CallShaped(c)'
BY DEF CallShaped, CreateShaped, UpdateShaped, DeleteShaped, ImportShaped, OthersShaped,
       Op, Indexed, Renames, Wanted, Row, CopySlug

\* What a step of a call does to the record of the call and to those of the others.
LEMMA OwnRecord ==
  ASSUME Shaped, NEW c \in Clients, NEW cl, Becomes(c, cl)
  PROVE  /\ call' = [d \in Clients |-> call'[d]] /\ call'[c] = cl
         /\ \A d \in Clients \ {c} : call'[d] = call[d]
BY DEF Shaped, Becomes

LEMMA WantedTyped ==
  ASSUME Shaped, NEW c \in Clients, call[c].pc \in {"hook", "pick", "write"}
  PROVE  Wanted(c).type \in Types /\ Wanted(c).label \in Labels
<1>1. Op(c) \in {"create", "update"} /\ CreateShaped(c) /\ UpdateShaped(c)
  BY OpsKnown DEF Shaped, CallShaped, DeleteShaped, ImportShaped, OthersShaped
<1>2. CASE Op(c) = "create"
  <2>1. call[c].member \in 1..Len(request[c].inputs)
    BY <1>1, <1>2 DEF CreateShaped
  <2>2. request[c].inputs \in Seq(EntityInput)
    BY <1>2, AskedCreate DEF Shaped
  <2>3. call[c].member \in DOMAIN request[c].inputs
    BY <2>1, <2>2
  <2> QED BY <1>2, <2>3, AskedCreate DEF Shaped, Wanted
<1>3. CASE Op(c) = "update"
  <2>1. ShapedEntity(call[c].read)
    BY <1>1, <1>3 DEF UpdateShaped
  <2>2. /\ Wanted(c).type = IF request[c].patch.type = Keep THEN call[c].read.type ELSE request[c].patch.type
        /\ Wanted(c).label = IF request[c].patch.label = Keep THEN call[c].read.label ELSE request[c].patch.label
    BY <1>3 DEF Wanted
  <2> QED BY <1>3, <2>1, <2>2, AskedUpdate DEF Shaped, ShapedEntity
<1> QED BY <1>1, <1>2, <1>3

LEMMA CandidateTyped ==
  ASSUME Shaped, NEW c \in Clients, call[c].pc = "pick", call[c].n \in Nat \ {0}, call[c].n <= MaxSuffix
  PROVE  /\ Candidate(c) \in Slugs /\ Candidate(c) # <<>>
         /\ Candidate(c)[1] = Wanted(c).type /\ Candidate(c)[2] = Wanted(c).label
BY WantedTyped, StoreAssumption DEF Candidate, Slugs

LEMMA ShapeByOp ==
  ASSUME NEW c, request' = request, IsCall(call'[c]), CreateShaped(c)', UpdateShaped(c)',
         DeleteShaped(c)', ImportShaped(c)', OthersShaped(c)'
  PROVE  CallShaped(c)'
BY DEF CallShaped

\* Only the part for its own operation speaks of a call.
LEMMA CreateShapeIsAll ==
  ASSUME NEW c, request' = request, Op(c) = "create", IsCall(call'[c]), CreateShaped(c)'
  PROVE  CallShaped(c)'
BY DEF CallShaped, UpdateShaped, DeleteShaped, ImportShaped, OthersShaped, Op

LEMMA UpdateShapeIsAll ==
  ASSUME NEW c, request' = request, Op(c) = "update", IsCall(call'[c]), UpdateShaped(c)'
  PROVE  CallShaped(c)'
BY DEF CallShaped, CreateShaped, DeleteShaped, ImportShaped, OthersShaped, Op

LEMMA DeleteShapeIsAll ==
  ASSUME NEW c, request' = request, Op(c) = "delete", IsCall(call'[c]), DeleteShaped(c)'
  PROVE  CallShaped(c)'
BY DEF CallShaped, CreateShaped, UpdateShaped, ImportShaped, OthersShaped, Op

LEMMA ImportShapeIsAll ==
  ASSUME NEW c, request' = request, Op(c) \in {"import", "merge"}, IsCall(call'[c]), ImportShaped(c)'
  PROVE  CallShaped(c)'
BY DEF CallShaped, CreateShaped, UpdateShaped, DeleteShaped, OthersShaped, Op

LEMMA OthersShapeIsAll ==
  ASSUME NEW c, request' = request, Op(c) \in {"reembed", "relate", "unrelate", "purge", "clear"},
         IsCall(call'[c]), OthersShaped(c)'
  PROVE  CallShaped(c)'
BY DEF CallShaped, CreateShaped, UpdateShaped, DeleteShaped, ImportShaped, Op

\* The operation that a call at a given place carries out.
LEMMA OpAt ==
  ASSUME Shaped, NEW c \in Clients
  PROVE  /\ call[c].pc \in {"hook", "pick", "write"} => Op(c) \in {"create", "update"}
         /\ call[c].pc = "index" => Op(c) \in {"create", "update", "delete"}
         /\ call[c].pc \in {"page", "vectors"} => Op(c) = "reembed"
         /\ call[c].pc = "relate" => Op(c) = "relate"
         /\ call[c].pc \in {"merge", "copy", "relationship"} => Op(c) = "merge"
         /\ call[c].pc = "row" => Op(c) \in {"import", "merge"}
BY OpsKnown DEF Shaped, CallShaped, CreateShaped, UpdateShaped, DeleteShaped, ImportShaped, OthersShaped

LEMMA ShapedBeginCreate ==
  ASSUME Shaped, NEW c \in Clients, BeginCreate(c)
  PROVE  CallShaped(c)'
<1> DEFINE next == [call[c] EXCEPT !.pc = "hook"]
           inputs == request[c].inputs
<1>1. Op(c) = "create" /\ call[c].pc = "idle" /\ request' = request /\ call'[c] = IF inputs = <<>> THEN Answer(call[c], "created") ELSE next
  BY OwnRecord DEF BeginCreate, aside
<1>2. /\ IsCall(call[c]) /\ call[c].created = <<>> /\ call[c].todo = <<>> /\ call[c].member = 1
      /\ CreateShaped(c)
  BY <1>1 DEF Shaped, CallShaped, CreateShaped
<1>3. IsCall(next) /\ next.pc = "hook" /\ Same(next, call[c], CallFields \ {"pc"})
  BY <1>2 DEF IsCall, CallFields, Same
<1>4. inputs \in Seq(EntityInput)
  BY <1>1, AskedCreate DEF Shaped
<1> HIDE DEF next
<1>5. CASE inputs = <<>>
  <2> DEFINE a == Answer(call[c], "created")
  <2>1. /\ IsCall(a) /\ a.pc = "done" /\ a.reply = "created"
        /\ Same(a, call[c], CallFields \ {"pc", "reply"})
    BY <1>2, AnswerFields
  <2> HIDE DEF a
  <2>2. call'[c] = a
    BY <1>1, <1>5 DEF a
  <2>3. CreateShaped(c)'
    BY <1>1, <1>2, <1>5, <2>1, <2>2 DEF CreateShaped, Same, CallFields, Indexed, Op
  <2> QED BY <1>1, <2>1, <2>2, <2>3, CreateShapeIsAll
<1>6. CASE inputs # <<>>
  <2>1. Len(inputs) \in Nat \ {0}
    BY <1>4, <1>6
  <2>2. call'[c] = next
    BY <1>1, <1>6
  <2>3. /\ call'[c].pc = "hook" /\ call'[c].member = 1 /\ call'[c].created = <<>>
        /\ call'[c].todo = <<>> /\ call'[c].wrote = call[c].wrote
    BY <1>2, <1>3, <2>2 DEF Same, CallFields
  <2>4. /\ ToSet(<<>>) = call[c].wrote /\ IsSeq(<<>>) /\ Len(<<>>) = 0 /\ <<>> \in Seq(Ids)
    BY <1>1, <1>2, EmptyIsSeq DEF CreateShaped
  <2>5. 1 \in 1..Len(request'[c].inputs) /\ Indexed(c)' = {}
    BY <1>1, <2>1, <2>3, EmptyIsSeq DEF Indexed
  <2>6. CreateShaped(c)'
    BY <2>3, <2>4, <2>5 DEF CreateShaped
  <2> QED BY <1>1, <1>3, <2>2, <2>6, CreateShapeIsAll
<1> QED BY <1>5, <1>6

LEMMA ShapedBeginUpdate ==
  ASSUME Shaped, NEW c \in Clients, BeginUpdate(c)
  PROVE  CallShaped(c)'
<1> DEFINE i == request[c].id
           next == [call[c] EXCEPT !.pc = "hook", !.read = entities[i]]
           a == Answer(call[c], "not_found")
<1>1. /\ Op(c) = "update" /\ call[c].pc = "idle" /\ request' = request
      /\ call'[c] = IF i \in Stored THEN next ELSE a
  BY OwnRecord DEF BeginUpdate, aside
<1>2. IsCall(call[c]) /\ UpdateShaped(c)
  BY DEF Shaped, CallShaped
<1>3. /\ IsCall(next) /\ next.pc = "hook" /\ next.read = entities[i]
      /\ Same(next, call[c], CallFields \ {"pc", "read"})
  BY <1>2 DEF IsCall, CallFields, Same
<1>4. /\ IsCall(a) /\ a.pc = "done" /\ Same(a, call[c], CallFields \ {"pc", "reply"})
  BY <1>2, AnswerFields
<1> HIDE DEF next, a
<1>5. CASE i \in Stored
  <2>1. ShapedEntity(entities[i])
    BY <1>5 DEF Shaped, EntitiesShaped
  <2>2. UpdateShaped(c)'
    BY <1>1, <1>2, <1>3, <1>5, <2>1 DEF UpdateShaped, Same, CallFields, Indexed, Op
  <2> QED BY <1>1, <1>3, <1>5, <2>2, UpdateShapeIsAll
<1>6. CASE i \notin Stored
  <2>1. UpdateShaped(c)'
    BY <1>1, <1>2, <1>4, <1>6 DEF UpdateShaped, Same, CallFields, Indexed, Op
  <2> QED BY <1>1, <1>4, <1>6, <2>1, UpdateShapeIsAll
<1> QED BY <1>5, <1>6

\* An update or a batch that ends with a failure.
LEMMA ShapedFailed ==
  ASSUME Shaped, NEW c \in Clients, call[c].pc \in {"hook", "pick", "write"}, NEW reply,
         reply \notin {"created", "partial"}, request' = request, call'[c] = Failed(call[c], reply)
  PROVE  CallShaped(c)'
<1> DEFINE a == Failed(call[c], reply)
<1>1. IsCall(call[c]) /\ CreateShaped(c) /\ UpdateShaped(c)
  BY DEF Shaped, CallShaped
<1>2. /\ IsCall(a)
      /\ \/ call[c].created = <<>> /\ a.pc = "done" /\ a.reply = reply
         \/ call[c].created # <<>> /\ a.pc = "index" /\ a.reply = "partial"
      /\ Same(a, call[c], CallFields \ {"pc", "reply"})
  BY <1>1, FailedFields
<1> HIDE DEF a
<1>3. call'[c] = a
  BY DEF a
<1>4. CASE Op(c) = "create"
  <2>1. request[c].inputs # <<>>
    <3>1. request[c].inputs \in Seq(EntityInput) /\ call[c].member \in 1..Len(request[c].inputs)
      BY <1>1, <1>4, AskedCreate DEF CreateShaped, Shaped
    <3> QED BY <3>1
  <2>2. CreateShaped(c)'
    BY <1>1, <1>2, <1>3, <1>4, <2>1 DEF CreateShaped, Same, CallFields, Indexed, Op
  <2> QED BY <1>2, <1>3, <1>4, <2>2, CreateShapeIsAll
<1>5. CASE Op(c) = "update"
  <2>1. UpdateShaped(c)'
    BY <1>1, <1>2, <1>3, <1>5 DEF UpdateShaped, Same, CallFields, Indexed, Op
  <2> QED BY <1>2, <1>3, <1>5, <2>1, UpdateShapeIsAll
<1> QED BY <1>4, <1>5, OpAt

LEMMA ShapedHook ==
  ASSUME Shaped, NEW c \in Clients, Hook(c)
  PROVE  CallShaped(c)'
<1> DEFINE pick == [call[c] EXCEPT !.pc = "pick", !.n = 1, !.refused = {}]
           write == [call[c] EXCEPT !.pc = "write", !.vector = Embeds(c)]
<1>1. /\ call[c].pc = "hook" /\ request' = request
      /\ \/ call'[c] = IF Op(c) = "create" \/ Renames(c) THEN pick ELSE write
         \/ call'[c] = Failed(call[c], "cancelled")
  <2>1. CASE UNCHANGED <<storeVars, aside>>
    BY <2>1, OwnRecord DEF Hook, aside
  <2>2. CASE ~UNCHANGED <<storeVars, aside>>
    BY <2>2, OwnRecord DEF Hook
  <2> QED BY <2>1, <2>2
<1>2. IsCall(call[c]) /\ CreateShaped(c) /\ UpdateShaped(c)
  BY DEF Shaped, CallShaped
<1>3. /\ IsCall(pick) /\ pick.pc = "pick" /\ pick.n = 1
      /\ Same(pick, call[c], CallFields \ {"pc", "n", "refused"})
  BY <1>2 DEF IsCall, CallFields, Same
<1>4. IsCall(write) /\ write.pc = "write" /\ Same(write, call[c], CallFields \ {"pc", "vector"})
  BY <1>2 DEF IsCall, CallFields, Same
<1> HIDE DEF pick, write
<1>5. CASE call'[c] = Failed(call[c], "cancelled")
  BY <1>1, <1>5, ShapedFailed
<1>6. CASE Op(c) = "create" /\ call'[c] = pick
  <2>1. CreateShaped(c)'
    BY <1>1, <1>2, <1>3, <1>6 DEF CreateShaped, Same, CallFields, Indexed, Op
  <2> QED BY <1>1, <1>3, <1>6, <2>1, CreateShapeIsAll
<1>7. CASE Op(c) = "update" /\ Renames(c) /\ call'[c] = pick
  <2>1. call'[c].read = call[c].read /\ call'[c].slug = call[c].slug
    BY <1>3, <1>7 DEF Same, CallFields
  <2>2. Renames(c)'
    BY <1>1, <1>7, <2>1 DEF Renames, Wanted, Op
  <2>3. /\ call'[c].created = call[c].created /\ call'[c].todo = call[c].todo
        /\ call'[c].pc = "pick" /\ call'[c].n \in Nat \ {0}
    BY <1>3, <1>7 DEF Same, CallFields
  <2>4. Op(c) = "update" /\ UpdateShaped(c) /\ call[c].pc = "hook" /\ request' = request
    BY <1>1, <1>2, <1>7
  <2>5. UpdateShaped(c)'
    BY <2>1, <2>2, <2>3, <2>4 DEF UpdateShaped, Indexed, Op
  <2> QED BY <1>1, <1>3, <1>7, <2>5, UpdateShapeIsAll
<1>8. CASE Op(c) = "update" /\ ~Renames(c) /\ call'[c] = write
  <2>1. call'[c].read = call[c].read /\ call'[c].slug = call[c].slug
    BY <1>4, <1>8 DEF Same, CallFields
  <2>2. ~Renames(c)'
    BY <1>1, <1>8, <2>1 DEF Renames, Wanted, Op
  <2>3. UpdateShaped(c)'
    BY <1>1, <1>2, <1>4, <1>8, <2>2 DEF UpdateShaped, Same, CallFields, Indexed, Op
  <2> QED BY <1>1, <1>4, <1>8, <2>3, UpdateShapeIsAll
<1> QED BY <1>1, <1>5, <1>6, <1>7, <1>8, OpAt

LEMMA ShapedPickSlug ==
  ASSUME Shaped, NEW c \in Clients, PickSlug(c)
  PROVE  CallShaped(c)'
<1> DEFINE again == [call[c] EXCEPT !.n = @ + 1]
           write == [call[c] EXCEPT !.pc = "write", !.slug = Candidate(c),
                       !.vector = IF call[c].refused = {} THEN Embeds(c) ELSE @]
<1>1. /\ call[c].pc = "pick" /\ call[c].n <= MaxSuffix /\ request' = request
      /\ call'[c] = again \/ call'[c] = write
  BY OwnRecord DEF PickSlug, aside
<1>2. IsCall(call[c]) /\ CreateShaped(c) /\ UpdateShaped(c) /\ Op(c) \in {"create", "update"}
  BY <1>1, OpAt DEF Shaped, CallShaped
<1>3. call[c].n \in Nat \ {0}
  BY <1>1, <1>2 DEF CreateShaped, UpdateShaped
<1>4. /\ IsCall(again) /\ again.n = call[c].n + 1 /\ again.n \in Nat \ {0}
      /\ Same(again, call[c], CallFields \ {"n"})
  BY <1>2, <1>3 DEF IsCall, CallFields, Same
<1>5. /\ IsCall(write) /\ write.pc = "write" /\ write.slug = Candidate(c)
      /\ Same(write, call[c], CallFields \ {"pc", "slug", "vector"})
  BY <1>2 DEF IsCall, CallFields, Same
<1>6. /\ Candidate(c) \in Slugs
      /\ Candidate(c)[1] = Wanted(c).type /\ Candidate(c)[2] = Wanted(c).label
  BY <1>1, <1>3, CandidateTyped
<1> HIDE DEF again, write
<1>7. CASE Op(c) = "create" /\ call'[c] = again
  <2>1. CreateShaped(c)'
    BY <1>1, <1>2, <1>4, <1>7 DEF CreateShaped, Same, CallFields, Indexed, Op
  <2> QED BY <1>1, <1>4, <1>7, <2>1, CreateShapeIsAll
<1>8. CASE Op(c) = "create" /\ call'[c] = write
  <2>1. Wanted(c) = request[c].inputs[call[c].member]
    BY <1>8 DEF Wanted
  <2>2. CreateShaped(c)'
    BY <1>1, <1>2, <1>5, <1>6, <1>8, <2>1 DEF CreateShaped, Same, CallFields, Indexed, Op
  <2> QED BY <1>1, <1>5, <1>8, <2>2, CreateShapeIsAll
<1>9. CASE Op(c) = "update" /\ call'[c] = again
  <2>1. call'[c].read = call[c].read
    BY <1>4, <1>9 DEF Same, CallFields
  <2>2. Renames(c)' = Renames(c)
    BY <1>1, <1>9, <2>1 DEF Renames, Wanted, Op
  <2>3. UpdateShaped(c)'
    BY <1>1, <1>2, <1>4, <1>9, <2>2 DEF UpdateShaped, Same, CallFields, Indexed, Op
  <2> QED BY <1>1, <1>4, <1>9, <2>3, UpdateShapeIsAll
<1>10. CASE Op(c) = "update" /\ call'[c] = write
  <2>1. call'[c].read = call[c].read
    BY <1>5, <1>10 DEF Same, CallFields
  <2>2. Renames(c)' = Renames(c) /\ Wanted(c)' = Wanted(c)
    BY <1>1, <1>10, <2>1 DEF Renames, Wanted, Op
  <2>3. UpdateShaped(c)'
    BY <1>1, <1>2, <1>5, <1>6, <1>10, <2>2 DEF UpdateShaped, Same, CallFields, Indexed, Op
  <2> QED BY <1>1, <1>5, <1>10, <2>3, UpdateShapeIsAll
<1> QED BY <1>1, <1>2, <1>7, <1>8, <1>9, <1>10

LEMMA ShapedConflict ==
  ASSUME Shaped, NEW c \in Clients, call[c].pc = "write", request' = request,
         call'[c] = SlugConflict(c), call[c].slug # <<>>
  PROVE  CallShaped(c)'
<1> DEFINE a == SlugConflict(c)
<1>1. IsCall(call[c]) /\ CreateShaped(c) /\ UpdateShaped(c) /\ Op(c) \in {"create", "update"}
  BY OpAt DEF Shaped, CallShaped
<1>2. CASE a = Failed(call[c], "slug_conflict")
  <2>1. /\ call'[c] = Failed(call[c], "slug_conflict") /\ "slug_conflict" \notin {"created", "partial"}
        /\ call[c].pc \in {"hook", "pick", "write"}
    BY <1>2
  <2> HIDE DEF a
  <2> QED BY <2>1, ShapedFailed
<1>3. CASE a # Failed(call[c], "slug_conflict")
  <2> DEFINE again == [call[c] EXCEPT !.pc = "pick", !.n = 1, !.refused = @ \cup {call[c].slug}]
  <2>1. call'[c] = again
    BY <1>3 DEF SlugConflict
  <2>2. /\ IsCall(again) /\ again.pc = "pick" /\ again.n = 1
        /\ Same(again, call[c], CallFields \ {"pc", "n", "refused"})
    BY <1>1 DEF IsCall, CallFields, Same
  <2> HIDE DEF again, a
  <2>3. CASE Op(c) = "create"
    <3>1. CreateShaped(c)'
      BY <1>1, <2>1, <2>2, <2>3 DEF CreateShaped, Same, CallFields, Indexed, Op
    <3> QED BY <2>1, <2>2, <2>3, <3>1, CreateShapeIsAll
  <2>4. CASE Op(c) = "update"
    <3>1. Renames(c) /\ call'[c].read = call[c].read
      BY <1>1, <2>1, <2>2, <2>4 DEF UpdateShaped, Same, CallFields
    <3>2. Renames(c)'
      BY <2>4, <3>1 DEF Renames, Wanted, Op
    <3>4. /\ call'[c].created = call[c].created /\ call'[c].todo = call[c].todo
          /\ call'[c].pc = "pick" /\ call'[c].n \in Nat \ {0} /\ UpdateShaped(c)
      BY <1>1, <2>1, <2>2, <2>4 DEF Same, CallFields
    <3>3. UpdateShaped(c)'
      BY <1>1, <2>4, <3>1, <3>2, <3>4 DEF UpdateShaped, Indexed, Op
    <3> QED BY <2>1, <2>2, <2>4, <3>3, UpdateShapeIsAll
  <2> QED BY <1>1, <2>3, <2>4
<1> QED BY <1>2, <1>3

LEMMA SlugNotEmpty ==
  ASSUME NEW s \in Slugs
  PROVE  s # <<>>
<1>1. PICK type \in Types, label \in Labels, n \in 1..2 * MaxSuffix : s = <<type, label, n>>
  BY DEF Slugs
<1>2. Len(<<type, label, n>>) = 3 /\ Len(<<>>) = 0
  OBVIOUS
<1> QED BY <1>1, <1>2

LEMMA ShapedWriteCreate ==
  ASSUME Shaped, NEW c \in Clients, WriteCreate(c)
  PROVE  CallShaped(c)'
<1> DEFINE input == request[c].inputs[call[c].member]
           i == IF input.id = Mint THEN minted + 1 ELSE input.id
           e == [type |-> input.type, label |-> input.label, slug |-> call[c].slug,
                 content |-> input.content, vector |-> call[c].vector]
           wrote == WroteMember(c, i, e)
<1>1. /\ Op(c) = "create" /\ call[c].pc = "write" /\ request' = request
      /\ \/ i \in Ids /\ call'[c] = NextMember(c, wrote)
         \/ i \in Ids /\ call'[c] = Failed(wrote, "handler")
         \/ call'[c] = Failed(call[c], "duplicate")
         \/ call'[c] = SlugConflict(c)
  BY OwnRecord DEF WriteCreate, aside, HandlerFails
<1>2. IsCall(call[c]) /\ CreateShaped(c)
  BY DEF Shaped, CallShaped
<1>3. /\ IsCall(wrote)
      /\ wrote.created = Append(call[c].created, i)
      /\ wrote.todo = Append(call[c].todo, [id |-> i, document |-> <<Document(e)>>])
      /\ wrote.wrote = call[c].wrote \cup {i}
      /\ Same(wrote, call[c], CallFields \ {"created", "todo", "wrote"})
  <2> HIDE DEF i, e
  <2> QED BY <1>2, WroteFields
<1> DEFINE x == [id |-> i, document |-> <<Document(e)>>]
<1>4. x.id = i
  OBVIOUS
<1> HIDE DEF x, e, wrote, input, i
<1>5. /\ call[c].created \in Seq(Ids) /\ ToSet(call[c].created) = call[c].wrote
      /\ IsSeq(call[c].todo) /\ \A y \in ToSet(call[c].todo) : y.id \in call[c].wrote
      /\ call[c].member \in 1..Len(request[c].inputs)
      /\ Len(call[c].created) = call[c].member - 1
      /\ Len(request[c].inputs) \in Nat
  BY <1>1, <1>2, AskedCreate DEF CreateShaped, Indexed, Shaped
<1>6. ASSUME i \in Ids
      PROVE  /\ wrote.created \in Seq(Ids) /\ ToSet(wrote.created) = wrote.wrote
             /\ IsSeq(wrote.todo) /\ \A y \in ToSet(wrote.todo) : y.id \in wrote.wrote
             /\ wrote.created # <<>> /\ Len(wrote.created) = call[c].member
  <2>1. IsSeq(call[c].created)
    BY <1>5, SeqIsSeq
  <2>2. wrote.todo = Append(call[c].todo, x)
    BY <1>3 DEF x, e
  <2>3. /\ IsSeq(wrote.todo) /\ ToSet(wrote.todo) = ToSet(call[c].todo) \cup {x}
    BY <1>5, <2>2, AppendIsSeq
  <2>4. /\ ToSet(wrote.created) = ToSet(call[c].created) \cup {i} /\ wrote.created # <<>>
        /\ Len(wrote.created) = Len(call[c].created) + 1
    BY <1>3, <2>1, AppendIsSeq
  <2>5. wrote.created \in Seq(Ids)
    BY <1>3, <1>5, <1>6
  <2>6. Len(wrote.created) = call[c].member
    BY <1>5, <2>4
  <2>7. ToSet(wrote.created) = wrote.wrote
    BY <1>3, <1>5, <2>4
  <2>8. \A y \in ToSet(wrote.todo) : y.id \in wrote.wrote
    BY <1>3, <1>4, <1>5, <2>3
  <2> QED BY <2>3, <2>4, <2>5, <2>6, <2>7, <2>8
<1>7. CASE i \in Ids /\ call'[c] = NextMember(c, wrote)
  <2> DEFINE a == NextMember(c, wrote)
  <2>1. /\ IsCall(a)
        /\ \/ /\ call[c].member < Len(request[c].inputs)
              /\ a.pc = "hook" /\ a.member = wrote.member + 1 /\ a.reply = wrote.reply
           \/ /\ ~(call[c].member < Len(request[c].inputs))
              /\ a.pc = "index" /\ a.member = wrote.member /\ a.reply = "created"
        /\ Same(a, wrote, CallFields \ {"pc", "member", "reply"})
    BY <1>3, NextMemberFields
  <2> HIDE DEF a
  <2>2. call'[c] = a
    BY <1>7 DEF a
  <2>3. /\ a.created = wrote.created /\ a.todo = wrote.todo /\ a.wrote = wrote.wrote
        /\ wrote.member = call[c].member
    BY <1>3, <2>1 DEF Same, CallFields
  <2>4. Indexed(c)' \subseteq a.wrote
    BY <1>6, <1>7, <2>2, <2>3 DEF Indexed
  <2>5. CASE call[c].member < Len(request[c].inputs)
    <3>1. a.pc = "hook" /\ a.member \in 1..Len(request[c].inputs) /\ Len(a.created) = a.member - 1
      BY <1>5, <1>6, <1>7, <2>1, <2>3, <2>5
    <3>2. CreateShaped(c)'
      BY <1>1, <1>6, <1>7, <2>2, <2>3, <2>4, <3>1 DEF CreateShaped
    <3> QED BY <1>1, <2>1, <2>2, <3>2, CreateShapeIsAll
  <2>6. CASE ~(call[c].member < Len(request[c].inputs))
    <3>1. a.pc = "index" /\ a.reply = "created" /\ Len(a.created) = Len(request[c].inputs)
      BY <1>5, <1>6, <1>7, <2>1, <2>3, <2>6
    <3>2. CreateShaped(c)'
      BY <1>1, <1>6, <1>7, <2>2, <2>3, <2>4, <3>1 DEF CreateShaped
    <3> QED BY <1>1, <2>1, <2>2, <3>2, CreateShapeIsAll
  <2> QED BY <2>5, <2>6
<1>8. CASE i \in Ids /\ call'[c] = Failed(wrote, "handler")
  <2> DEFINE a == Failed(wrote, "handler")
  <2>1. /\ IsCall(a)
        /\ \/ wrote.created = <<>> /\ a.pc = "done" /\ a.reply = "handler"
           \/ wrote.created # <<>> /\ a.pc = "index" /\ a.reply = "partial"
        /\ Same(a, wrote, CallFields \ {"pc", "reply"})
    BY <1>3, FailedFields
  <2> HIDE DEF a
  <2>2. call'[c] = a
    BY <1>8 DEF a
  <2>3. a.created = wrote.created /\ a.todo = wrote.todo /\ a.wrote = wrote.wrote
    BY <2>1 DEF Same, CallFields
  <2>4. Indexed(c)' \subseteq a.wrote
    BY <1>6, <1>8, <2>2, <2>3 DEF Indexed
  <2>5. CreateShaped(c)'
    BY <1>1, <1>6, <1>8, <2>1, <2>2, <2>3, <2>4 DEF CreateShaped
  <2> QED BY <1>1, <2>1, <2>2, <2>5, CreateShapeIsAll
<1>9. CASE call'[c] = Failed(call[c], "duplicate")
  BY <1>1, <1>9, ShapedFailed
<1>10. CASE call'[c] = SlugConflict(c)
  <2>1. call[c].slug \in Slugs
    BY <1>1, <1>2 DEF CreateShaped
  <2>2. call[c].slug # <<>>
    BY <2>1, SlugNotEmpty
  <2> QED BY <1>1, <1>10, <2>2, ShapedConflict
<1> QED BY <1>1, <1>7, <1>8, <1>9, <1>10

LEMMA ShapedWriteUpdate ==
  ASSUME Shaped, NEW c \in Clients, WriteUpdate(c)
  PROVE  CallShaped(c)'
<1> DEFINE i == request[c].id
           x == [id |-> i, document |-> <<Document(Merged(i, Updates(c)))>>]
           next == [Indexing(call[c], "updated") EXCEPT !.todo = <<x>>]
<1>1. /\ Op(c) = "update" /\ call[c].pc = "write" /\ request' = request
      /\ \/ call'[c] = next
         \/ \E reply : call'[c] = Answer(call[c], reply)
         \/ call[c].slug # <<>> /\ call'[c] = SlugConflict(c)
  BY OwnRecord DEF WriteUpdate, aside
<1>2. IsCall(call[c]) /\ UpdateShaped(c)
  BY DEF Shaped, CallShaped
<1>3. x.id = i
  OBVIOUS
<1> HIDE DEF x
<1>4. CASE call'[c] = next
  <2> DEFINE a == Indexing(call[c], "updated")
  <2>1. IsCall(a) /\ a.pc = "index" /\ Same(a, call[c], CallFields \ {"pc", "reply"})
    BY <1>2, IndexingFields
  <2> HIDE DEF a
  <2>2. call'[c] = [a EXCEPT !.todo = <<x>>]
    BY <1>4 DEF a
  <2>3. /\ IsCall(call'[c]) /\ call'[c].pc = "index" /\ call'[c].todo = <<x>>
        /\ call'[c].created = call[c].created
    BY <2>1, <2>2 DEF IsCall, CallFields, Same
  <2>4. IsSeq(<<x>>) /\ ToSet(<<x>>) = {x}
    BY DEF IsSeq, ToSet
  <2>5. UpdateShaped(c)'
    BY <1>1, <1>2, <1>3, <2>3, <2>4 DEF UpdateShaped, Indexed
  <2> QED BY <1>1, <2>3, <2>5, UpdateShapeIsAll
<1>5. ASSUME NEW reply, call'[c] = Answer(call[c], reply)
      PROVE  CallShaped(c)'
  <2> DEFINE a == Answer(call[c], reply)
  <2>1. IsCall(a) /\ a.pc = "done" /\ Same(a, call[c], CallFields \ {"pc", "reply"})
    BY <1>2, AnswerFields
  <2> HIDE DEF a
  <2>2. call'[c] = a
    BY <1>5 DEF a
  <2>3. UpdateShaped(c)'
    BY <1>1, <1>2, <2>1, <2>2 DEF UpdateShaped, Same, CallFields, Indexed
  <2> QED BY <1>1, <2>1, <2>2, <2>3, UpdateShapeIsAll
<1>6. CASE call[c].slug # <<>> /\ call'[c] = SlugConflict(c)
  BY <1>1, <1>6, ShapedConflict
<1> QED BY <1>1, <1>4, <1>5, <1>6

LEMMA ShapedDelete ==
  ASSUME Shaped, NEW c \in Clients, Delete(c)
  PROVE  CallShaped(c)'
<1> DEFINE gone == request[c].ids \cap Stored
           remove == [i \in gone |-> [id |-> i, document |-> <<>>]]
           removals == {remove[i] : i \in gone}
           next == [Indexing(call[c], "deleted") EXCEPT
                      !.todo = SetToSeq(removals), !.failed = request[c].ids \ gone]
<1>1. /\ Op(c) = "delete" /\ call[c].pc = "idle" /\ request' = request
      /\ \/ call'[c] = next
         \/ \E reply : call'[c] = Answer(call[c], reply)
  BY OwnRecord DEF Delete
<1>2. IsCall(call[c]) /\ DeleteShaped(c)
  BY DEF Shaped, CallShaped
<1>3. CASE call'[c] = next
  <2> DEFINE a == Indexing(call[c], "deleted")
             todo == SetToSeq(removals)
  <2>1. IsCall(a) /\ a.pc = "index" /\ Same(a, call[c], CallFields \ {"pc", "reply"})
    BY <1>2, IndexingFields
  <2>2. IsFiniteSet(gone)
    BY FS_Subset DEF Shaped
  <2>3. IsFiniteSet(removals)
    <3>1. remove \in Surjection(gone, removals)
      BY DEF Surjection
    <3> HIDE DEF remove, removals
    <3> QED BY <2>2, <3>1, FS_Surjection
  <2>4. IsSeq(todo) /\ ToSet(todo) = removals
    <3> HIDE DEF removals
    <3> QED BY <2>3, SetToSeqIsSeq
  <2>5. \A y \in removals : y.id \in request[c].ids
    <3>1. \A j \in gone : remove[j].id = j
      OBVIOUS
    <3> HIDE DEF remove
    <3> QED BY <3>1
  <2> HIDE DEF a, todo
  <2>6. call'[c] = [a EXCEPT !.todo = todo, !.failed = request[c].ids \ gone]
    BY <1>3 DEF a, todo
  <2>7. IsCall(call'[c]) /\ call'[c].pc = "index" /\ call'[c].todo = todo
    BY <2>1, <2>6 DEF IsCall, CallFields, Same
  <2>8. Indexed(c)' \subseteq request[c].ids
    BY <2>4, <2>5, <2>7 DEF Indexed
  <2>9. DeleteShaped(c)'
    BY <1>1, <2>4, <2>7, <2>8 DEF DeleteShaped
  <2> QED BY <1>1, <2>7, <2>9, DeleteShapeIsAll
<1>4. ASSUME NEW reply, call'[c] = Answer(call[c], reply)
      PROVE  CallShaped(c)'
  <2> DEFINE a == Answer(call[c], reply)
  <2>1. IsCall(a) /\ a.pc = "done" /\ Same(a, call[c], CallFields \ {"pc", "reply"})
    BY <1>2, AnswerFields
  <2> HIDE DEF a
  <2>2. call'[c] = a
    BY <1>4 DEF a
  <2>3. DeleteShaped(c)'
    BY <1>1, <1>2, <2>1, <2>2 DEF DeleteShaped, Same, CallFields, Indexed
  <2> QED BY <1>1, <2>1, <2>2, <2>3, DeleteShapeIsAll
<1> QED BY <1>1, <1>3, <1>4

LEMMA ShapedIndex ==
  ASSUME Shaped, NEW c \in Clients, Index(c)
  PROVE  CallShaped(c)'
<1> DEFINE next == [call[c] EXCEPT !.todo = Tail(@)]
<1>1. call[c].pc = "index" /\ call[c].todo # <<>> /\ request' = request /\ call'[c] = next
  BY OwnRecord DEF Index
<1>2. IsCall(call[c]) /\ CreateShaped(c) /\ UpdateShaped(c) /\ DeleteShaped(c)
  BY DEF Shaped, CallShaped
<1>3. IsCall(next) /\ next.todo = Tail(call[c].todo) /\ Same(next, call[c], CallFields \ {"todo"})
  BY <1>2 DEF IsCall, CallFields, Same
<1> HIDE DEF next
<1>4. Op(c) \in {"create", "update", "delete"} /\ IsSeq(call[c].todo)
  BY <1>1, <1>2, OpAt DEF CreateShaped, UpdateShaped, DeleteShaped
<1>5. IsSeq(next.todo) /\ ToSet(next.todo) \subseteq ToSet(call[c].todo)
  BY <1>1, <1>3, <1>4, TailIsSeq
<1>6. Indexed(c)' \subseteq Indexed(c)
  BY <1>1, <1>5 DEF Indexed
<1>7. CASE Op(c) = "create"
  <2>1. CreateShaped(c)'
    BY <1>1, <1>2, <1>3, <1>5, <1>6, <1>7 DEF CreateShaped, Same, CallFields
  <2> QED BY <1>1, <1>3, <1>7, <2>1, CreateShapeIsAll
<1>8. CASE Op(c) = "update"
  <2>1. UpdateShaped(c)'
    BY <1>1, <1>2, <1>3, <1>5, <1>6, <1>8 DEF UpdateShaped, Same, CallFields
  <2> QED BY <1>1, <1>3, <1>8, <2>1, UpdateShapeIsAll
<1>9. CASE Op(c) = "delete"
  <2>1. DeleteShaped(c)'
    BY <1>1, <1>2, <1>3, <1>5, <1>6, <1>9 DEF DeleteShaped, Same, CallFields
  <2> QED BY <1>1, <1>3, <1>9, <2>1, DeleteShapeIsAll
<1> QED BY <1>4, <1>7, <1>8, <1>9

LEMMA ShapedReturn ==
  ASSUME Shaped, NEW c \in Clients, Return(c)
  PROVE  CallShaped(c)'
<1> DEFINE next == [call[c] EXCEPT !.pc = "done"]
<1>1. call[c].pc = "index" /\ call[c].todo = <<>> /\ request' = request /\ call'[c] = next
  BY OwnRecord DEF Return, aside
<1>2. IsCall(call[c]) /\ CreateShaped(c) /\ UpdateShaped(c) /\ DeleteShaped(c)
  BY DEF Shaped, CallShaped
<1>3. IsCall(next) /\ next.pc = "done" /\ Same(next, call[c], CallFields \ {"pc"})
  BY <1>2 DEF IsCall, CallFields, Same
<1> HIDE DEF next
<1>4. next.todo = call[c].todo /\ Indexed(c)' = Indexed(c)
  BY <1>1, <1>3 DEF Indexed, Same, CallFields
<1>5. CASE Op(c) = "create"
  <2>1. CreateShaped(c)'
    BY <1>1, <1>2, <1>3, <1>4, <1>5 DEF CreateShaped, Same, CallFields
  <2> QED BY <1>1, <1>3, <1>5, <2>1, CreateShapeIsAll
<1>6. CASE Op(c) = "update"
  <2>1. UpdateShaped(c)'
    BY <1>1, <1>2, <1>3, <1>4, <1>6 DEF UpdateShaped, Same, CallFields
  <2> QED BY <1>1, <1>3, <1>6, <2>1, UpdateShapeIsAll
<1>7. CASE Op(c) = "delete"
  <2>1. DeleteShaped(c)'
    BY <1>1, <1>2, <1>3, <1>4, <1>7 DEF DeleteShaped, Same, CallFields
  <2> QED BY <1>1, <1>3, <1>7, <2>1, DeleteShapeIsAll
<1> QED BY <1>1, <1>5, <1>6, <1>7, OpAt

\* Re-embeddings, relationships and purges: only the place matters.
LEMMA ShapedByPlace ==
  ASSUME NEW c, Op(c) \in {"reembed", "relate", "unrelate", "purge", "clear"},
         request' = request, IsCall(call'[c]),
         \/ call'[c].pc = "done"
         \/ Op(c) = "reembed" /\ call'[c].pc \in {"page", "vectors"}
         \/ Op(c) = "relate" /\ call'[c].pc = "relate"
  PROVE  CallShaped(c)'
<1>1. OthersShaped(c)'
  BY DEF OthersShaped, Op
<1> QED BY <1>1, OthersShapeIsAll

LEMMA ShapedReembed ==
  ASSUME Shaped, NEW c \in Clients, BeginReembed(c) \/ Page(c) \/ WriteVector(c)
  PROVE  CallShaped(c)'
<1>1. IsCall(call[c])
  BY DEF Shaped, CallShaped
<1>2. CASE BeginReembed(c)
  <2> DEFINE ended == {d \in Clients : call[d].pc = "done"}
             next == [call[c] EXCEPT !.pc = "page", !.total = Cardinality(Stored), !.counted = Stored,
                                     !.ended = ended]
  <2>1. Op(c) = "reembed" /\ request' = request /\ call'[c] = next
    BY <1>2, OwnRecord DEF BeginReembed
  <2>2. IsCall(next) /\ next.pc = "page"
    BY <1>1 DEF IsCall, CallFields
  <2> HIDE DEF next
  <2> QED BY <2>1, <2>2, ShapedByPlace
<1>3. CASE Page(c)
  <2>1. call[c].pc = "page" /\ request' = request
    BY <1>3 DEF Page
  <2>2. \/ \E todo, offset : call'[c] = [call[c] EXCEPT !.pc = "vectors", !.todo = todo, !.offset = offset]
        \/ \E failed, failures, offset :
             call'[c] = [call[c] EXCEPT !.failed = failed, !.failures = failures, !.offset = offset]
        \/ \E reply : call'[c] = Answer(call[c], reply)
    <3>1. \/ \E todo, offset : Becomes(c, [call[c] EXCEPT !.pc = "vectors", !.todo = todo, !.offset = offset])
          \/ \E failed, failures, offset :
               Becomes(c, [call[c] EXCEPT !.failed = failed, !.failures = failures, !.offset = offset])
          \/ \E reply : Becomes(c, Answer(call[c], reply))
      BY <1>3 DEF Page
    <3>2. ASSUME NEW cl, Becomes(c, cl)
          PROVE  call'[c] = cl
      BY <3>2, OwnRecord
    <3> QED BY <3>1, <3>2
  <2>3. Op(c) = "reembed"
    BY <2>1, OpAt
  <2>4. CASE \E todo, offset : call'[c] = [call[c] EXCEPT !.pc = "vectors", !.todo = todo, !.offset = offset]
    <3>1. IsCall(call'[c]) /\ call'[c].pc = "vectors"
      BY <1>1, <2>4 DEF IsCall, CallFields
    <3> QED BY <2>1, <2>3, <3>1, ShapedByPlace
  <2>5. CASE \E failed, failures, offset :
               call'[c] = [call[c] EXCEPT !.failed = failed, !.failures = failures, !.offset = offset]
    <3>1. IsCall(call'[c]) /\ call'[c].pc = "page"
      BY <1>1, <2>1, <2>5 DEF IsCall, CallFields
    <3> QED BY <2>1, <2>3, <3>1, ShapedByPlace
  <2>6. CASE \E reply : call'[c] = Answer(call[c], reply)
    <3>1. IsCall(call'[c]) /\ call'[c].pc = "done"
      BY <1>1, <2>6, AnswerFields
    <3> QED BY <2>1, <2>3, <3>1, ShapedByPlace
  <2> QED BY <2>2, <2>4, <2>5, <2>6
<1>4. CASE WriteVector(c)
  <2> DEFINE written == [call[c] EXCEPT !.todo = Tail(@),
                           !.pc = IF Len(call[c].todo) = 1 THEN "page" ELSE "vectors"]
             missed(failed, failures) == [written EXCEPT !.failed = failed, !.failures = failures]
  <2>1. call[c].pc = "vectors" /\ request' = request
    BY <1>4 DEF WriteVector
  <2>2. \/ call'[c] = written
        \/ \E failed, failures : \/ call'[c] = missed(failed, failures)
                                 \/ call'[c] = Answer(missed(failed, failures), "aborted")
    <3>1. \/ Becomes(c, written)
          \/ \E failed, failures : \/ Becomes(c, missed(failed, failures))
                                   \/ Becomes(c, Answer(missed(failed, failures), "aborted"))
      BY <1>4 DEF WriteVector
    <3> HIDE DEF written, missed
    <3> QED BY <3>1, OwnRecord
  <2>3. Op(c) = "reembed"
    BY <2>1, OpAt
  <2>4. IsCall(written) /\ written.pc \in {"page", "vectors"}
    BY <1>1 DEF IsCall, CallFields
  <2> HIDE DEF written
  <2>5. \A failed, failures : /\ IsCall(missed(failed, failures))
                             /\ missed(failed, failures).pc \in {"page", "vectors"}
    BY <2>4 DEF IsCall, CallFields
  <2> HIDE DEF missed
  <2>6. \A failed, failures : /\ IsCall(Answer(missed(failed, failures), "aborted"))
                             /\ Answer(missed(failed, failures), "aborted").pc = "done"
    BY <2>5, AnswerFields
  <2>7. IsCall(call'[c]) /\ call'[c].pc \in {"page", "vectors", "done"}
    BY <2>2, <2>4, <2>5, <2>6
  <2> QED BY <2>1, <2>3, <2>7, ShapedByPlace
<1> QED BY <1>2, <1>3, <1>4

LEMMA ShapedOthers ==
  ASSUME Shaped, NEW c \in Clients,
         BeginRelate(c) \/ WriteRelationship(c) \/ RemoveRelationships(c) \/ Purge(c)
  PROVE  CallShaped(c)'
<1>1. IsCall(call[c])
  BY DEF Shaped, CallShaped
<1> DEFINE next == [call[c] EXCEPT !.pc = "relate"]
<1>2. /\ request' = request
      /\ \/ \E reply : call'[c] = Answer(call[c], reply)
         \/ Op(c) = "relate" /\ call'[c] = next
  BY OwnRecord DEF BeginRelate, WriteRelationship, RemoveRelationships, Purge, aside
<1>3. Op(c) \in {"relate", "unrelate", "purge", "clear"}
  BY OpAt DEF BeginRelate, WriteRelationship, RemoveRelationships, Purge
<1>4. CASE \E reply : call'[c] = Answer(call[c], reply)
  <2>1. IsCall(call'[c]) /\ call'[c].pc = "done"
    BY <1>1, <1>4, AnswerFields
  <2> QED BY <1>2, <1>3, <2>1, ShapedByPlace
<1>5. CASE Op(c) = "relate" /\ call'[c] = next
  <2>1. IsCall(next) /\ next.pc = "relate"
    BY <1>1 DEF IsCall, CallFields
  <2> HIDE DEF next
  <2> QED BY <1>2, <1>3, <1>5, <2>1, ShapedByPlace
<1> QED BY <1>2, <1>4, <1>5

\* The next row of an archive, with what the current one has left in the record.
LEMMA ShapedNextRow ==
  ASSUME Shaped, NEW c \in Clients, Op(c) \in {"import", "merge"}, NEW cl, IsCall(cl),
         call[c].pc \in {"row", "merge", "copy", "relationship"},
         cl.member = call[c].member, cl.wrote \subseteq unheard',
         request' = request, call'[c] = NextRow(c, cl)
  PROVE  CallShaped(c)'
<1> DEFINE a == NextRow(c, cl)
<1>1. ImportShaped(c) /\ request[c].rows \in Seq(ArchiveRow)
  BY AskedImport DEF Shaped, CallShaped
<1>2. /\ IsCall(a)
      /\ \/ /\ call[c].member < Len(request[c].rows)
            /\ a.pc = "row" /\ a.member = cl.member + 1 /\ a.reply = cl.reply
         \/ /\ ~(call[c].member < Len(request[c].rows))
            /\ a.pc = "done" /\ a.member = cl.member /\ a.reply = "imported"
      /\ Same(a, cl, CallFields \ {"pc", "member", "reply"})
  BY NextRowFields
<1> HIDE DEF a
<1>3. call'[c] = a
  BY DEF a
<1>4. a.wrote = cl.wrote
  BY <1>2 DEF Same, CallFields
<1>5. call[c].member \in 1..Len(request[c].rows) /\ Len(request[c].rows) \in Nat
  BY <1>1 DEF ImportShaped
<1>6. ImportShaped(c)'
  BY <1>2, <1>3, <1>4, <1>5 DEF ImportShaped, Op
<1> QED BY <1>2, <1>3, <1>6, ImportShapeIsAll

\* A row that is left out, or refused, is reported as failed.
LEMMA FailedRowFields ==
  ASSUME Shaped, NEW c \in Clients, NEW failed
  PROVE  LET cl == [call[c] EXCEPT !.failed = failed] IN
         /\ IsCall(cl) /\ cl.failed = failed
         /\ Same(cl, call[c], CallFields \ {"failed"})
<1>1. IsCall(call[c])
  BY DEF Shaped, CallShaped
<1> QED BY <1>1 DEF IsCall, CallFields, Same

LEMMA ShapedSkip ==
  ASSUME Shaped, NEW c \in Clients, Op(c) \in {"import", "merge"}, NEW failed,
         call[c].pc \in {"row", "merge", "copy", "relationship"},
         request' = request, unheard \subseteq unheard',
         call'[c] = NextRow(c, [call[c] EXCEPT !.failed = failed])
  PROVE  CallShaped(c)'
<1> DEFINE cl == [call[c] EXCEPT !.failed = failed]
<1>1. IsCall(cl) /\ Same(cl, call[c], CallFields \ {"failed"})
  BY FailedRowFields
<1>2. cl.member = call[c].member /\ cl.wrote = call[c].wrote
  BY <1>1 DEF Same, CallFields
<1>3. call[c].wrote \subseteq unheard
  BY DEF Shaped, CallShaped, ImportShaped
<1>4. call'[c] = NextRow(c, cl)
  OBVIOUS
<1> HIDE DEF cl
<1> QED BY <1>1, <1>2, <1>3, <1>4, ShapedNextRow

LEMMA ShapedBeginImport ==
  ASSUME Shaped, NEW c \in Clients, BeginImport(c)
  PROVE  CallShaped(c)'
<1> DEFINE rows == request[c].rows
           next == [call[c] EXCEPT !.pc = "row"]
           a == Answer(call[c], "imported")
<1>1. /\ Op(c) \in {"import", "merge"} /\ call[c].pc = "idle" /\ request' = request
      /\ unheard' = unheard /\ call'[c] = IF rows = <<>> THEN a ELSE next
  BY OwnRecord DEF BeginImport, aside
<1>2. IsCall(call[c]) /\ ImportShaped(c) /\ rows \in Seq(ArchiveRow)
  BY <1>1, AskedImport DEF Shaped, CallShaped
<1>3. IsCall(next) /\ next.pc = "row" /\ Same(next, call[c], CallFields \ {"pc"})
  BY <1>2 DEF IsCall, CallFields, Same
<1>4. IsCall(a) /\ a.pc = "done" /\ Same(a, call[c], CallFields \ {"pc", "reply"})
  BY <1>2, AnswerFields
<1> HIDE DEF next, a
<1>5. next.member = 1 /\ next.wrote \subseteq unheard /\ a.wrote \subseteq unheard
  BY <1>1, <1>2, <1>3, <1>4 DEF ImportShaped, Same, CallFields
<1>6. rows # <<>> => 1 \in 1..Len(rows)
  BY <1>2
<1>7. ImportShaped(c)'
  BY <1>1, <1>3, <1>4, <1>5, <1>6 DEF ImportShaped, Op
<1> QED BY <1>1, <1>3, <1>4, <1>7, ImportShapeIsAll

LEMMA ShapedImportRow ==
  ASSUME Shaped, NEW c \in Clients, ImportRow(c)
  PROVE  CallShaped(c)'
<1> DEFINE row == Row(c)
           wrote == [call[c] EXCEPT !.wrote = @ \cup {row.id}]
           failed == call[c].failed \cup {row.id}
<1>1. /\ Op(c) = "import" /\ call[c].pc = "row" /\ request' = request
      /\ unheard' = unheard \cup (IF IsEntity(row) THEN {row.id} ELSE {})
      /\ \/ IsEntity(row) /\ call'[c] = NextRow(c, wrote)
         \/ call'[c] = NextRow(c, call[c])
         \/ call'[c] = NextRow(c, [call[c] EXCEPT !.failed = failed])
  BY OwnRecord DEF ImportRow
<1>2. IsCall(call[c]) /\ call[c].wrote \subseteq unheard
  BY <1>1 DEF Shaped, CallShaped, ImportShaped
<1>3. IsCall(wrote) /\ wrote.wrote = call[c].wrote \cup {row.id} /\ wrote.member = call[c].member
  BY <1>2 DEF IsCall, CallFields
<1> HIDE DEF wrote, failed, row
<1>4. CASE IsEntity(row) /\ call'[c] = NextRow(c, wrote)
  BY <1>1, <1>2, <1>3, <1>4, ShapedNextRow
<1>5. CASE call'[c] = NextRow(c, call[c])
  BY <1>1, <1>2, <1>5, ShapedNextRow
<1>6. CASE call'[c] = NextRow(c, [call[c] EXCEPT !.failed = failed])
  <2>1. unheard \subseteq unheard'
    BY <1>1
  <2> QED BY <1>1, <1>6, <2>1, ShapedSkip
<1> QED BY <1>1, <1>4, <1>5, <1>6

LEMMA ShapedLookUp ==
  ASSUME Shaped, NEW c \in Clients, LookUp(c)
  PROVE  CallShaped(c)'
<1> DEFINE read == SetToSeq(Existing(Row(c)))
           next == [call[c] EXCEPT !.pc = "merge", !.read = read, !.n = 1]
           failed == call[c].failed \cup {Row(c).id}
<1>1. /\ Op(c) = "merge" /\ call[c].pc = "row" /\ IsEntity(Row(c)) /\ request' = request
      /\ unheard' = unheard
      /\ \/ call'[c] = next
         \/ call'[c] = NextRow(c, [call[c] EXCEPT !.failed = failed])
  <2>1. Becomes(c, next) \/ Becomes(c, Skip(c))
    BY DEF LookUp
  <2>2. call'[c] = next \/ call'[c] = Skip(c)
    <3> HIDE DEF next
    <3> QED BY <2>1, OwnRecord
  <2> QED BY <2>2 DEF LookUp, Skip, aside
<1>2. IsCall(call[c]) /\ ImportShaped(c)
  BY DEF Shaped, CallShaped
<1> HIDE DEF read, failed
<1>3. CASE call'[c] = next
  <2>1. IsCall(next) /\ next.pc = "merge" /\ next.n = 1 /\ Same(next, call[c], CallFields \ {"pc", "read", "n"})
    BY <1>2 DEF IsCall, CallFields, Same
  <2> HIDE DEF next
  <2>2. next.member = call[c].member /\ next.wrote = call[c].wrote
    BY <2>1 DEF Same, CallFields
  <2>3. Row(c)' = Row(c)
    BY <1>1, <1>3, <2>2 DEF Row
  <2>4. ImportShaped(c)'
    BY <1>1, <1>2, <1>3, <2>1, <2>2, <2>3 DEF ImportShaped, Op, IsEntity
  <2> QED BY <1>1, <1>3, <2>1, <2>4, ImportShapeIsAll
<1>4. CASE call'[c] = NextRow(c, [call[c] EXCEPT !.failed = failed])
  BY <1>1, <1>4, ShapedSkip
<1> QED BY <1>1, <1>3, <1>4

LEMMA ShapedTrySlug ==
  ASSUME Shaped, NEW c \in Clients, TrySlug(c)
  PROVE  CallShaped(c)'
<1> DEFINE again == [call[c] EXCEPT !.n = @ + 1]
           copy == [call[c] EXCEPT !.pc = "copy"]
<1>1. /\ call[c].pc = "merge" /\ call[c].read # <<>> /\ request[c].conflict = "rename"
      /\ CopySlug(c) \in Slugs /\ request' = request /\ unheard' = unheard
      /\ call'[c] = again \/ call'[c] = copy
  BY OwnRecord DEF TrySlug, aside
<1>2. IsCall(call[c]) /\ ImportShaped(c) /\ Op(c) = "merge"
  BY <1>1, OpAt DEF Shaped, CallShaped
<1>3. call[c].n \in Nat \ {0} /\ IsEntity(Row(c))
  BY <1>1, <1>2 DEF ImportShaped
<1>4. /\ IsCall(again) /\ again.n = call[c].n + 1 /\ Same(again, call[c], CallFields \ {"n"})
      /\ IsCall(copy) /\ copy.pc = "copy" /\ Same(copy, call[c], CallFields \ {"pc"})
  BY <1>2 DEF IsCall, CallFields, Same
<1> HIDE DEF again, copy
<1>5. CASE call'[c] = again
  <2>1. /\ again.pc = "merge" /\ again.member = call[c].member /\ again.wrote = call[c].wrote
        /\ again.n \in Nat \ {0}
    BY <1>1, <1>3, <1>4 DEF Same, CallFields
  <2>2. Row(c)' = Row(c)
    BY <1>1, <1>5, <2>1 DEF Row
  <2>3. ImportShaped(c)'
    BY <1>1, <1>2, <1>3, <1>5, <2>1, <2>2 DEF ImportShaped, Op, IsEntity
  <2> QED BY <1>1, <1>2, <1>4, <1>5, <2>3, ImportShapeIsAll
<1>6. CASE call'[c] = copy
  <2>1. /\ copy.pc = "copy" /\ copy.member = call[c].member /\ copy.wrote = call[c].wrote
        /\ copy.n = call[c].n /\ copy.read = call[c].read
    BY <1>4 DEF Same, CallFields
  <2>2. Row(c)' = Row(c)
    BY <1>1, <1>6, <2>1 DEF Row
  <2>3. CopySlug(c)' = CopySlug(c)
    BY <1>6, <2>1, <2>2 DEF CopySlug
  <2>4. ImportShaped(c)'
    BY <1>1, <1>2, <1>3, <1>6, <2>1, <2>2, <2>3 DEF ImportShaped, Op, IsEntity
  <2> QED BY <1>1, <1>2, <1>4, <1>6, <2>4, ImportShapeIsAll
<1> QED BY <1>1, <1>5, <1>6

LEMMA ShapedAbandoned ==
  ASSUME Shaped, NEW c \in Clients, Op(c) = "merge", request' = request, unheard \subseteq unheard',
         call'[c] = Answer(call[c], "abandoned")
  PROVE  CallShaped(c)'
<1> DEFINE a == Answer(call[c], "abandoned")
<1>1. IsCall(call[c]) /\ call[c].wrote \subseteq unheard
  BY DEF Shaped, CallShaped, ImportShaped
<1>2. IsCall(a) /\ a.pc = "done" /\ Same(a, call[c], CallFields \ {"pc", "reply"})
  BY <1>1, AnswerFields
<1> HIDE DEF a
<1>3. call'[c] = a
  BY DEF a
<1>4. a.wrote = call[c].wrote
  BY <1>2 DEF Same, CallFields
<1>5. ImportShaped(c)'
  BY <1>1, <1>2, <1>3, <1>4 DEF ImportShaped, Op
<1> QED BY <1>2, <1>3, <1>5, ImportShapeIsAll

LEMMA ShapedMergeEntity ==
  ASSUME Shaped, NEW c \in Clients, MergeEntity(c)
  PROVE  CallShaped(c)'
<1> DEFINE next == [call[c] EXCEPT !.created = Append(@, Row(c).id), !.wrote = @ \cup {Written(c)}]
<1>1. /\ call[c].pc \in {"merge", "copy"} /\ request' = request
      /\ \/ unheard' = unheard \cup {Written(c)} /\ call'[c] = NextRow(c, next)
         \/ unheard' = unheard /\ call'[c] = Answer(call[c], "abandoned")
  <2>1. \/ unheard' = unheard \cup {Written(c)} /\ Becomes(c, NextRow(c, next))
        \/ unheard' = unheard /\ Becomes(c, Answer(call[c], "abandoned"))
    BY DEF MergeEntity
  <2> HIDE DEF next
  <2> QED BY <2>1, OwnRecord DEF MergeEntity
<1>2. IsCall(call[c]) /\ call[c].wrote \subseteq unheard /\ Op(c) = "merge"
  BY <1>1, OpAt DEF Shaped, CallShaped, ImportShaped
<1>3. /\ IsCall(next) /\ next.wrote = call[c].wrote \cup {Written(c)}
      /\ next.member = call[c].member
  BY <1>2 DEF IsCall, CallFields
<1> HIDE DEF next
<1>4. CASE unheard' = unheard \cup {Written(c)} /\ call'[c] = NextRow(c, next)
  BY <1>1, <1>2, <1>3, <1>4, ShapedNextRow
<1>5. CASE unheard' = unheard /\ call'[c] = Answer(call[c], "abandoned")
  BY <1>1, <1>2, <1>5, ShapedAbandoned
<1> QED BY <1>1, <1>4, <1>5

LEMMA ShapedRelationshipRow ==
  ASSUME Shaped, NEW c \in Clients, LookUpRelationship(c) \/ MergeRelationship(c)
  PROVE  CallShaped(c)'
<1> DEFINE next == [call[c] EXCEPT !.pc = "relationship"]
           failed == call[c].failed \cup {Row(c).id}
<1>1. /\ call[c].pc \in {"row", "relationship"} /\ Op(c) = "merge" /\ request' = request
      /\ unheard' = unheard
  BY OpAt DEF LookUpRelationship, MergeRelationship, aside
<1>2. \/ ~IsEntity(Row(c)) /\ call[c].pc = "row" /\ call'[c] = next
      \/ call'[c] = NextRow(c, call[c])
      \/ call'[c] = NextRow(c, [call[c] EXCEPT !.failed = failed])
      \/ call'[c] = Answer(call[c], "abandoned")
  <2>1. \/ ~IsEntity(Row(c)) /\ call[c].pc = "row" /\ Becomes(c, next)
        \/ Becomes(c, NextRow(c, call[c]))
        \/ Becomes(c, Skip(c))
        \/ Becomes(c, Answer(call[c], "abandoned"))
    BY DEF LookUpRelationship, MergeRelationship
  <2>2. Skip(c) = NextRow(c, [call[c] EXCEPT !.failed = failed])
    BY DEF Skip
  <2>3. ASSUME NEW cl, Becomes(c, cl)
        PROVE  call'[c] = cl
    BY <2>3, OwnRecord
  <2> HIDE DEF next, failed
  <2> QED BY <2>1, <2>2, <2>3
<1>3. IsCall(call[c]) /\ ImportShaped(c) /\ call[c].wrote \subseteq unheard
  BY <1>1 DEF Shaped, CallShaped, ImportShaped
<1> HIDE DEF failed
<1>4. CASE ~IsEntity(Row(c)) /\ call[c].pc = "row" /\ call'[c] = next
  <2>1. IsCall(next) /\ next.pc = "relationship" /\ Same(next, call[c], CallFields \ {"pc"})
    BY <1>3 DEF IsCall, CallFields, Same
  <2> HIDE DEF next
  <2>2. next.member = call[c].member /\ next.wrote = call[c].wrote
    BY <2>1 DEF Same, CallFields
  <2>3. Row(c)' = Row(c)
    BY <1>1, <1>4, <2>2 DEF Row
  <2>4. ImportShaped(c)'
    BY <1>1, <1>3, <1>4, <2>1, <2>2, <2>3 DEF ImportShaped, Op, IsEntity
  <2> QED BY <1>1, <1>4, <2>1, <2>4, ImportShapeIsAll
<1>5. CASE call'[c] = NextRow(c, call[c])
  BY <1>1, <1>3, <1>5, ShapedNextRow
<1>6. CASE call'[c] = NextRow(c, [call[c] EXCEPT !.failed = failed])
  BY <1>1, <1>6, ShapedSkip
<1>7. CASE call'[c] = Answer(call[c], "abandoned")
  BY <1>1, <1>7, ShapedAbandoned
<1> QED BY <1>2, <1>4, <1>5, <1>6, <1>7


-----------------------------------------------------------------------------
\* What each operation of the store does to the entities.
LEMMA CreateEffect ==
  ASSUME NEW i, NEW e, CreateEntity(i, e)
  PROVE  /\ i \notin Stored /\ Stored' = Stored \cup {i} /\ entities'[i] = e
         /\ \A j \in Stored : entities'[j] = entities[j]
         /\ order' = Append(order, i)
BY DEF CreateEntity, Put, Stored

LEMMA ImportEffect ==
  ASSUME NEW i, NEW e, ImportEntity(i, e)
  PROVE  /\ Stored' = Stored \cup {i} /\ entities'[i] = e
         /\ \A j \in Stored \ {i} : entities'[j] = entities[j]
         /\ order' = IF i \in Stored THEN order ELSE Append(order, i)
BY DEF ImportEntity, Put, Stored

LEMMA UpdateEffect ==
  ASSUME StoreInv, NEW i, NEW updates, UpdateEntity(i, updates)
  PROVE  /\ i \in Stored /\ Stored' = Stored /\ entities'[i] = Merged(i, updates)
         /\ \A j \in Stored \ {i} : entities'[j] = entities[j]
         /\ order' = order
<1> DEFINE m == Merged(i, updates)
<1>1. i \in Stored /\ entities' = [entities EXCEPT ![i] = m] /\ order' = order
  BY DEF UpdateEntity
<1> HIDE DEF m
<1>2. /\ Stored' = Stored /\ entities'[i] = m
      /\ \A j \in Stored \ {i} : entities'[j] = entities[j]
  BY <1>1 DEF Stored, StoreInv, AreFunctions
<1> QED BY <1>1, <1>2 DEF m

LEMMA DeleteEffect ==
  ASSUME NEW ids, DeleteEntities(ids)
  PROVE  Stored' = Stored \ ids /\ \A j \in Stored' : entities'[j] = entities[j]
BY DEF DeleteEntities, Drop, Stored

LEMMA ClearEffect ==
  ASSUME DeleteAllContents
  PROVE  Stored' = {}
BY DEF DeleteAllContents, Stored

LEMMA FieldsMerged ==
  ASSUME NEW i, NEW updates, ShapedEntity(entities[i])
  PROVE  Merged(i, updates) =
           [f \in EntityFields |-> IF f \in DOMAIN updates THEN updates[f] ELSE entities[i][f]]
<1>1. DOMAIN entities[i] = EntityFields
  BY DEF ShapedEntity
<1> QED BY <1>1 DEF Merged

\* What an update writes, field by field.
LEMMA UpdateFields ==
  ASSUME Shaped, NEW c \in Clients, Op(c) = "update", call[c].pc = "write",
         request[c].id \in Stored
  PROVE  LET i == request[c].id
             patch == request[c].patch
             cl == call[c]
             m == Merged(i, Updates(c)) IN
         /\ m = [f \in EntityFields |-> m[f]]
         /\ m.type = IF Wanted(c).type # cl.read.type THEN patch.type ELSE entities[i].type
         /\ m.label = IF patch.label # Keep THEN patch.label ELSE entities[i].label
         /\ m.slug = IF cl.slug # <<>> THEN cl.slug ELSE entities[i].slug
         /\ m.content = IF ChangesContent(patch) THEN MergedContent(c) ELSE entities[i].content
         /\ m.vector = IF cl.vector # <<>> THEN cl.vector ELSE entities[i].vector
<1> DEFINE i == request[c].id
           patch == request[c].patch
           cl == call[c]
           m == Merged(i, Updates(c))
           given == [type    |-> Wanted(c).type # call[c].read.type,
                     label   |-> patch.label # Keep,
                     slug    |-> call[c].slug # <<>>,
                     content |-> ChangesContent(patch),
                     vector  |-> call[c].vector # <<>>]
           all == [type |-> patch.type, label |-> patch.label, slug |-> call[c].slug,
                   content |-> MergedContent(c), vector |-> call[c].vector]
           fields == {f \in DOMAIN all : given[f]}
<1>1. Updates(c) = Restrict(all, fields)
  BY DEF Updates
<1>2. DOMAIN all = EntityFields
  BY DEF EntityFields
<1>3. DOMAIN Updates(c) = fields /\ \A f \in fields : Updates(c)[f] = all[f]
  BY <1>1 DEF Restrict
<1>4. ShapedEntity(entities[i])
  BY DEF Shaped, EntitiesShaped
<1>5. m = [f \in EntityFields |-> IF f \in DOMAIN Updates(c) THEN Updates(c)[f] ELSE entities[i][f]]
  BY <1>4, FieldsMerged
<1>6. \A f \in EntityFields : f \in DOMAIN Updates(c) <=> given[f]
  BY <1>2, <1>3
<1> HIDE DEF m
<1>7. \A f \in EntityFields : m[f] = IF given[f] THEN all[f] ELSE entities[i][f]
  <2> TAKE f \in EntityFields
  <2>1. CASE given[f]
    <3> HIDE DEF given, all
    <3> QED BY <1>2, <1>3, <1>5, <1>6, <2>1
  <2>2. CASE ~given[f]
    <3> HIDE DEF given, all
    <3> QED BY <1>2, <1>3, <1>5, <1>6, <2>2
  <2> QED BY <2>1, <2>2
<1>8. m = [f \in EntityFields |-> m[f]]
  BY <1>5
<1> QED BY <1>7, <1>8 DEF EntityFields, m

LEMMA UpdateShapes ==
  ASSUME Shaped, NEW c \in Clients, Op(c) = "update", call[c].pc = "write",
         request[c].id \in Stored
  PROVE  ShapedEntity(Merged(request[c].id, Updates(c)))
<1> DEFINE i == request[c].id
           m == Merged(i, Updates(c))
<1>1. /\ m = [f \in EntityFields |-> m[f]]
      /\ m.type = IF Wanted(c).type # call[c].read.type THEN request[c].patch.type ELSE entities[i].type
      /\ m.label = IF request[c].patch.label # Keep THEN request[c].patch.label ELSE entities[i].label
      /\ m.slug = IF call[c].slug # <<>> THEN call[c].slug ELSE entities[i].slug
  BY UpdateFields
<1> HIDE DEF m
<1>2. ShapedEntity(entities[i]) /\ UpdateShaped(c)
  BY DEF Shaped, EntitiesShaped, CallShaped
<1>3. Wanted(c).type = IF request[c].patch.type = Keep THEN call[c].read.type ELSE request[c].patch.type
  BY DEF Wanted
<1>4. m.type \in Types
  BY <1>1, <1>2, <1>3, AskedUpdate DEF Shaped, ShapedEntity
<1>5. m.label \in Labels
  BY <1>1, <1>2, AskedUpdate DEF Shaped, ShapedEntity
<1>6. m.slug \in Slugs
  BY <1>1, <1>2 DEF UpdateShaped, ShapedEntity
<1> QED BY <1>1, <1>4, <1>5, <1>6 DEF ShapedEntity, m

-----------------------------------------------------------------------------
\* The writes of the calls, and who is told of them.
CreatesOne(c) ==
  /\ Op(c) = "create" /\ call[c].pc = "write"
  /\ \E i \in Ids : \E e :
       /\ CreateEntity(i, e) /\ ShapedEntity(e) /\ NamesItself(e)
       /\ call'[c].wrote = call[c].wrote \cup {i} /\ Running(c)' /\ i \in Indexed(c)'

UpdatesOne(c) ==
  /\ Op(c) = "update" /\ call[c].pc = "write"
  /\ UpdateEntity(request[c].id, Updates(c))
  /\ request[c].id \in Indexed(c)' \cup unheard'

VectorOne(c) ==
  /\ Op(c) = "reembed" /\ call[c].pc = "vectors"
  /\ \E i, vector : UpdateEntity(i, [vector |-> vector])

ImportsOne(c) ==
  /\ Op(c) \in {"import", "merge"}
  /\ \E i \in Ids :
       /\ \/ \E e : ShapedEntity(e) /\ (CreateEntity(i, e) \/ ImportEntity(i, e))
          \/ \E updates : UpdateEntity(i, updates) /\ ShapedEntity(Merged(i, updates))
       /\ i \in call'[c].wrote /\ i \in unheard'

DeletesSome(c) ==
  /\ Op(c) = "delete" /\ call[c].pc = "idle"
  /\ DeleteEntities(request[c].ids)
  /\ \/ Running(c)' /\ request[c].ids \cap Stored \subseteq Indexed(c)'
     \/ request[c].ids \cap Stored \subseteq unheard'

PurgesSome(c) ==
  /\ Op(c) \in {"purge", "clear"}
  /\ (\E ids : DeleteEntities(ids)) \/ DeleteAllContents
  /\ unheard' = unheard \cup (Stored \ Stored')

Writes(c) ==
  \/ UNCHANGED <<entities, slugIndex, order>>
  \/ CreatesOne(c) \/ UpdatesOne(c) \/ VectorOne(c) \/ ImportsOne(c) \/ DeletesSome(c) \/ PurgesSome(c)

LEMMA WriteCreateWrites ==
  ASSUME Shaped, NEW c \in Clients, WriteCreate(c)
  PROVE  Writes(c)
<1> DEFINE input == request[c].inputs[call[c].member]
           i == IF input.id = Mint THEN minted + 1 ELSE input.id
           e == [type |-> input.type, label |-> input.label, slug |-> call[c].slug,
                 content |-> input.content, vector |-> call[c].vector]
           wrote == WroteMember(c, i, e)
<1>1. /\ Op(c) = "create" /\ call[c].pc = "write"
      /\ \/ /\ i \in Ids /\ CreateEntity(i, e)
            /\ Becomes(c, NextMember(c, wrote)) \/ Becomes(c, Failed(wrote, "handler"))
         \/ UNCHANGED storeVars
  BY DEF WriteCreate, HandlerFails
<1>2. IsCall(call[c]) /\ CreateShaped(c)
  BY DEF Shaped, CallShaped
<1>3. /\ input.type \in Types /\ input.label \in Labels
      /\ call[c].slug \in Slugs /\ call[c].slug[1] = input.type /\ call[c].slug[2] = input.label
  <2>1. call[c].member \in DOMAIN request[c].inputs
    <3>1. request[c].inputs \in Seq(EntityInput)
      BY <1>1, AskedCreate DEF Shaped
    <3>2. call[c].member \in 1..Len(request[c].inputs)
      BY <1>1, <1>2 DEF CreateShaped
    <3> QED BY <3>1, <3>2
  <2>2. input.type \in Types /\ input.label \in Labels
    BY <1>1, <2>1, AskedCreate DEF Shaped
  <2> QED BY <1>1, <1>2, <2>2 DEF CreateShaped
<1>4. ShapedEntity(e) /\ NamesItself(e)
  BY <1>3 DEF ShapedEntity, EntityFields, NamesItself
<1> HIDE DEF e, i
<1>5. /\ IsCall(wrote) /\ wrote.wrote = call[c].wrote \cup {i}
      /\ wrote.created = Append(call[c].created, i)
      /\ wrote.todo = Append(call[c].todo, [id |-> i, document |-> <<Document(e)>>])
  BY <1>2, WroteFields
<1> DEFINE x == [id |-> i, document |-> <<Document(e)>>]
<1>8. /\ wrote.created # <<>>
      /\ x.id = i /\ x \in ToSet(wrote.todo)
  <2>1. call[c].created \in Seq(Ids) /\ IsSeq(call[c].todo)
    BY <1>1, <1>2 DEF CreateShaped
  <2>2. IsSeq(call[c].created)
    BY <2>1, SeqIsSeq
  <2>3. x.id = i /\ wrote.todo = Append(call[c].todo, x)
    BY <1>5
  <2> HIDE DEF x
  <2>4. wrote.created # <<>>
    BY <1>5, <2>2, AppendIsSeq
  <2>5. ToSet(Append(call[c].todo, x)) = ToSet(call[c].todo) \cup {x}
    BY <2>1, AppendIsSeq
  <2> QED BY <2>3, <2>4, <2>5
<1> HIDE DEF wrote, x
<1>6. ASSUME i \in Ids, CreateEntity(i, e),
             Becomes(c, NextMember(c, wrote)) \/ Becomes(c, Failed(wrote, "handler"))
      PROVE  Writes(c)
  <2> DEFINE next == NextMember(c, wrote)
             failed == Failed(wrote, "handler")
  <2>1. next.wrote = wrote.wrote /\ next.todo = wrote.todo /\ next.pc \in {"hook", "index"}
    <3>1. /\ next.pc \in {"hook", "index"}
          /\ Same(next, wrote, CallFields \ {"pc", "member", "reply"})
      BY <1>5, NextMemberFields
    <3> HIDE DEF next
    <3> QED BY <3>1 DEF Same, CallFields
  <2>2. failed.wrote = wrote.wrote /\ failed.todo = wrote.todo /\ failed.pc = "index"
    BY <1>5, <1>8, FailedFields DEF Same, CallFields
  <2>4. call'[c] = next \/ call'[c] = failed
    BY <1>6, OwnRecord
  <2> HIDE DEF next, failed
  <2>5. /\ call'[c].wrote = wrote.wrote /\ call'[c].todo = wrote.todo
        /\ call'[c].pc \in {"hook", "index"}
    BY <2>1, <2>2, <2>4
  <2>6. Running(c)' /\ i \in Indexed(c)'
    BY <1>8, <2>5 DEF Running, Indexed
  <2>3. call'[c].wrote = call[c].wrote \cup {i} /\ Running(c)' /\ i \in Indexed(c)'
    BY <1>5, <2>5, <2>6
  <2>7. CreatesOne(c)
    BY <1>1, <1>4, <1>6, <2>3 DEF CreatesOne
  <2> QED BY <2>7 DEF Writes
<1>7. CASE UNCHANGED storeVars
  BY <1>7 DEF Writes, storeVars
<1> QED BY <1>1, <1>6, <1>7

LEMMA UpdatedFields ==
  ASSUME NEW cl, IsCall(cl), NEW x
  PROVE  LET a == [Indexing(cl, "updated") EXCEPT !.todo = <<x>>] IN
         /\ IsCall(a) /\ a.pc = "index" /\ a.todo = <<x>> /\ ToSet(a.todo) = {x}
         /\ Same(a, cl, CallFields \ {"pc", "reply", "todo"})
<1> DEFINE b == Indexing(cl, "updated")
           a == [b EXCEPT !.todo = <<x>>]
<1>1. IsCall(b) /\ b.pc = "index" /\ Same(b, cl, CallFields \ {"pc", "reply"})
  BY IndexingFields
<1> HIDE DEF b
<1>2. IsCall(a) /\ a.pc = "index" /\ a.todo = <<x>> /\ Same(a, cl, CallFields \ {"pc", "reply", "todo"})
  BY <1>1 DEF IsCall, CallFields, Same
<1>3. ToSet(<<x>>) = {x}
  BY DEF ToSet
<1> QED BY <1>2, <1>3 DEF b

LEMMA WriteUpdateWrites ==
  ASSUME Shaped, NEW c \in Clients, WriteUpdate(c)
  PROVE  Writes(c)
<1> DEFINE i == request[c].id
           x == [id |-> i, document |-> <<Document(Merged(i, Updates(c)))>>]
           next == [Indexing(call[c], "updated") EXCEPT !.todo = <<x>>]
<1>1. /\ Op(c) = "update" /\ call[c].pc = "write"
      /\ \/ /\ UpdateEntity(i, Updates(c))
            /\ Becomes(c, next) \/ unheard' = unheard \cup {i}
         \/ UNCHANGED storeVars
  BY DEF WriteUpdate
<1>2. IsCall(call[c]) /\ x.id = i
  BY DEF Shaped, CallShaped
<1> HIDE DEF x
<1>3. ToSet(next.todo) = {x}
  BY <1>2, UpdatedFields
<1> HIDE DEF next
<1>4. Becomes(c, next) => i \in Indexed(c)'
  BY <1>2, <1>3, OwnRecord DEF Indexed
<1> QED BY <1>1, <1>4 DEF Writes, UpdatesOne, storeVars

LEMMA WriteVectorWrites ==
  ASSUME Shaped, NEW c \in Clients, WriteVector(c)
  PROVE  Writes(c)
<1>1. Op(c) = "reembed" /\ call[c].pc = "vectors"
  BY OpAt DEF WriteVector
<1> QED BY <1>1 DEF WriteVector, Writes, VectorOne, storeVars

\* What is deleted is in the queue of the index.
LEMMA DeletedFields ==
  ASSUME Shaped, NEW c \in Clients, NEW failed
  PROVE  LET gone == request[c].ids \cap Stored
             remove == [i \in gone |-> [id |-> i, document |-> <<>>]]
             a == [Indexing(call[c], "deleted") EXCEPT
                     !.todo = SetToSeq({remove[i] : i \in gone}), !.failed = failed] IN
         /\ IsCall(a) /\ a.pc = "index"
         /\ ToSet(a.todo) = {[id |-> i, document |-> <<>>] : i \in gone}
<1> DEFINE gone == request[c].ids \cap Stored
           remove == [i \in gone |-> [id |-> i, document |-> <<>>]]
           removals == {remove[i] : i \in gone}
           b == Indexing(call[c], "deleted")
           todo == SetToSeq(removals)
           a == [b EXCEPT !.todo = todo, !.failed = failed]
<1>1. IsCall(b) /\ b.pc = "index"
  BY IndexingFields DEF Shaped, CallShaped
<1>2. IsFiniteSet(gone)
  BY FS_Subset DEF Shaped
<1>3. IsFiniteSet(removals)
  <2>1. remove \in Surjection(gone, removals)
    BY DEF Surjection
  <2> HIDE DEF remove, removals
  <2> QED BY <1>2, <2>1, FS_Surjection
<1>4. ToSet(todo) = removals
  <2> HIDE DEF removals
  <2> QED BY <1>3, SetToSeqIsSeq
<1>5. removals = {[id |-> i, document |-> <<>>] : i \in gone}
  OBVIOUS
<1> HIDE DEF b, todo
<1>6. IsCall(a) /\ a.pc = "index" /\ a.todo = todo
  BY <1>1 DEF IsCall, CallFields
<1> HIDE DEF a
<1>7. IsCall(a) /\ a.pc = "index" /\ ToSet(a.todo) = {[id |-> i, document |-> <<>>] : i \in gone}
  BY <1>4, <1>5, <1>6
<1> QED BY <1>7 DEF a, b, todo

LEMMA DeleteWrites ==
  ASSUME Shaped, NEW c \in Clients, Delete(c)
  PROVE  Writes(c)
<1> DEFINE ids == request[c].ids
           gone == ids \cap Stored
           remove == [i \in gone |-> [id |-> i, document |-> <<>>]]
           next == [Indexing(call[c], "deleted") EXCEPT
                      !.todo = SetToSeq({remove[i] : i \in gone}), !.failed = ids \ gone]
<1>1. /\ Op(c) = "delete" /\ call[c].pc = "idle"
      /\ \/ /\ DeleteEntities(ids)
            /\ Becomes(c, next) \/ unheard' = unheard \cup gone
         \/ UNCHANGED storeVars
  BY DEF Delete
<1>2. next.pc = "index" /\ ToSet(next.todo) = {[id |-> i, document |-> <<>>] : i \in gone}
  BY DeletedFields
<1> HIDE DEF next
<1>3. ASSUME Becomes(c, next)
      PROVE  Running(c)' /\ gone \subseteq Indexed(c)'
  <2>1. call'[c] = next
    BY <1>3, OwnRecord
  <2>2. Running(c)'
    BY <1>2, <2>1 DEF Running
  <2>3. ASSUME NEW i \in gone
        PROVE  i \in Indexed(c)'
    <3> DEFINE x == [id |-> i, document |-> <<>>]
    <3>1. x \in ToSet(call'[c].todo) /\ x.id = i
      BY <1>2, <2>1
    <3> HIDE DEF x
    <3> QED BY <3>1 DEF Indexed
  <2> QED BY <2>2, <2>3
<1> QED BY <1>1, <1>3 DEF Writes, DeletesSome, storeVars

LEMMA PurgeWrites ==
  ASSUME NEW c, Purge(c)
  PROVE  Writes(c)
BY DEF Purge, Writes, PurgesSome, DeleteEntitiesByType, DeleteRelationshipsByType, DeleteRelationships

\* The row a call is at.
LEMMA RowTyped ==
  ASSUME Shaped, NEW c \in Clients, call[c].pc \in {"row", "merge", "copy", "relationship"}
  PROVE  Row(c) \in ArchiveRow /\ Op(c) \in {"import", "merge"}
<1>1. ImportShaped(c) /\ Op(c) \in {"import", "merge"}
  BY OpAt DEF Shaped, CallShaped
<1>2. request[c].rows \in Seq(ArchiveRow) /\ call[c].member \in 1..Len(request[c].rows)
  BY <1>1, AskedImport DEF ImportShaped, Shaped
<1> QED BY <1>1, <1>2 DEF Row

LEMMA NextRowWrote ==
  ASSUME NEW c, NEW cl, IsCall(cl)
  PROVE  NextRow(c, cl).wrote = cl.wrote
BY NextRowFields DEF Same, CallFields

LEMMA ImportRowWrites ==
  ASSUME Shaped, NEW c \in Clients, ImportRow(c)
  PROVE  Writes(c)
<1> DEFINE row == Row(c)
           wrote == [call[c] EXCEPT !.wrote = @ \cup {row.id}]
<1>1. /\ Op(c) = "import" /\ call[c].pc = "row"
      /\ unheard' = unheard \cup (IF IsEntity(row) THEN {row.id} ELSE {})
      /\ \/ IsEntity(row) /\ ImportEntity(row.id, row.entity) /\ Becomes(c, NextRow(c, wrote))
         \/ UNCHANGED <<entities, slugIndex, order>>
  BY DEF ImportRow, ImportRelationship, storeVars
<1>2. IsCall(call[c])
  BY DEF Shaped, CallShaped
<1>3. IsCall(wrote) /\ wrote.wrote = call[c].wrote \cup {row.id}
  BY <1>2 DEF IsCall, CallFields
<1>4. row \in ArchiveRow
  BY <1>1, RowTyped
<1> HIDE DEF wrote, row
<1>5. ASSUME IsEntity(row), ImportEntity(row.id, row.entity), Becomes(c, NextRow(c, wrote))
      PROVE  Writes(c)
  <2>1. row.id \in Ids /\ ShapedEntity(row.entity)
    BY <1>4, <1>5, RowShaped
  <2>2. call'[c] = NextRow(c, wrote)
    BY <1>5, OwnRecord
  <2>3. row.id \in call'[c].wrote /\ row.id \in unheard'
    BY <1>1, <1>3, <1>5, <2>2, NextRowWrote
  <2>4. ImportsOne(c)
    BY <1>1, <1>5, <2>1, <2>3 DEF ImportsOne
  <2> QED BY <2>4 DEF Writes
<1>6. CASE UNCHANGED <<entities, slugIndex, order>>
  BY <1>6 DEF Writes
<1> QED BY <1>1, <1>5, <1>6

LEMMA MergeWriteShapes ==
  ASSUME Shaped, StoreInv, NEW c \in Clients, MergeWrite(c),
         \/ call[c].pc = "copy"
         \/ call[c].pc = "merge" /\ (call[c].read = <<>> \/ request[c].conflict # "rename")
  PROVE  /\ Written(c) \in Ids
         /\ \/ \E e : ShapedEntity(e) /\ CreateEntity(Written(c), e)
            \/ \E updates : UpdateEntity(Written(c), updates) /\ ShapedEntity(Merged(Written(c), updates))
<1> DEFINE row == Row(c)
           existing == call[c].read
           updates == Restrict(row.entity, {"label", "slug", "content", "vector"})
           copied == [row.entity EXCEPT !.slug = CopySlug(c)]
<1>1. /\ IsEntity(row)
      /\ call[c].pc = "copy" =>
           CopySlug(c) \in Slugs /\ existing # <<>> /\ request[c].conflict = "rename"
  BY OpAt DEF Shaped, CallShaped, ImportShaped
<1>2. row.id \in Ids /\ ShapedEntity(row.entity)
  BY <1>1, RowTyped, RowShaped
<1>3. CASE existing = <<>> /\ CreateEntity(row.id, row.entity)
  BY <1>2, <1>3 DEF Written
<1>4. CASE existing # <<>> /\ request[c].conflict = "overwrite" /\ UpdateEntity(existing[1], updates)
  <2> DEFINE i == existing[1]
  <2>1. Written(c) = i
    BY <1>4 DEF Written
  <2>2. i \in Stored
    BY <1>4 DEF UpdateEntity
  <2>3. i \in Ids /\ ShapedEntity(entities[i])
    BY <2>2 DEF Shaped, EntitiesShaped
  <2>4. /\ DOMAIN updates = {"label", "slug", "content", "vector"}
        /\ \A f \in {"label", "slug", "content", "vector"} : updates[f] = row.entity[f]
    BY DEF Restrict
  <2> HIDE DEF i, updates
  <2>5. Merged(i, updates) =
          [f \in EntityFields |-> IF f \in DOMAIN updates THEN updates[f] ELSE entities[i][f]]
    BY <2>3, FieldsMerged
  <2>6. /\ Merged(i, updates).type = entities[i].type
        /\ Merged(i, updates).label = row.entity.label
        /\ Merged(i, updates).slug = row.entity.slug
        /\ Merged(i, updates) = [f \in EntityFields |-> Merged(i, updates)[f]]
    BY <2>4, <2>5 DEF EntityFields
  <2>7. ShapedEntity(Merged(i, updates))
    BY <1>2, <2>3, <2>6 DEF ShapedEntity
  <2> QED BY <1>4, <2>1, <2>3, <2>7 DEF i
<1>5. CASE /\ existing # <<>> /\ request[c].conflict = "rename" /\ minted + 1 \in Ids
           /\ CreateEntity(minted + 1, copied)
  <2>1. call[c].pc = "copy"
    BY <1>5
  <2>2. CopySlug(c) \in Slugs
    BY <1>1, <2>1
  <2>3. ShapedEntity(copied)
    BY <1>2, <2>2 DEF ShapedEntity, EntityFields
  <2>4. Written(c) = minted + 1
    BY <1>5 DEF Written
  <2> QED BY <1>5, <2>3, <2>4
<1> QED BY <1>3, <1>4, <1>5 DEF MergeWrite

LEMMA MergeEntityWrites ==
  ASSUME Shaped, StoreInv, NEW c \in Clients, MergeEntity(c)
  PROVE  Writes(c)
<1> DEFINE next == [call[c] EXCEPT !.created = Append(@, Row(c).id), !.wrote = @ \cup {Written(c)}]
<1>1. /\ \/ call[c].pc = "copy"
         \/ call[c].pc = "merge" /\ (call[c].read = <<>> \/ request[c].conflict # "rename")
      /\ \/ MergeWrite(c) /\ unheard' = unheard \cup {Written(c)} /\ Becomes(c, NextRow(c, next))
         \/ UNCHANGED storeVars
  BY DEF MergeEntity
<1>2. IsCall(call[c]) /\ Op(c) = "merge"
  BY <1>1, OpAt DEF Shaped, CallShaped
<1>3. IsCall(next) /\ next.wrote = call[c].wrote \cup {Written(c)}
  BY <1>2 DEF IsCall, CallFields
<1> HIDE DEF next
<1>4. ASSUME MergeWrite(c), unheard' = unheard \cup {Written(c)}, Becomes(c, NextRow(c, next))
      PROVE  Writes(c)
  <2>1. call'[c] = NextRow(c, next)
    BY <1>4, OwnRecord
  <2>2. Written(c) \in call'[c].wrote /\ Written(c) \in unheard'
    BY <1>3, <1>4, <2>1, NextRowWrote
  <2>3. ImportsOne(c)
    BY <1>1, <1>2, <1>4, <2>2, MergeWriteShapes DEF ImportsOne
  <2> QED BY <2>3 DEF Writes
<1>5. CASE UNCHANGED storeVars
  BY <1>5 DEF Writes, storeVars
<1> QED BY <1>1, <1>4, <1>5

LEMMA StepWrites ==
  ASSUME Shaped, StoreInv, NEW c \in Clients, Step(c) \/ ImportStep(c)
  PROVE  Writes(c)
<1>1. CASE BeginCreate(c) \/ BeginUpdate(c) \/ Hook(c) \/ PickSlug(c)
  BY <1>1 DEF BeginCreate, BeginUpdate, Hook, PickSlug, Writes, storeVars
<1>2. CASE WriteCreate(c)
  BY <1>2, WriteCreateWrites
<1>3. CASE WriteUpdate(c)
  BY <1>3, WriteUpdateWrites
<1>4. CASE Delete(c)
  BY <1>4, DeleteWrites
<1>5. CASE Index(c) \/ Return(c) \/ BeginReembed(c) \/ Page(c)
  BY <1>5 DEF Index, Return, BeginReembed, Page, Writes, storeVars
<1>6. CASE WriteVector(c)
  BY <1>6, WriteVectorWrites
<1>7. CASE BeginRelate(c) \/ WriteRelationship(c) \/ RemoveRelationships(c)
  BY <1>7 DEF BeginRelate, WriteRelationship, RemoveRelationships, CreateRelationship,
              DeleteRelationships, Writes, storeVars
<1>8. CASE Purge(c)
  BY <1>8, PurgeWrites
<1>9. CASE BeginImport(c) \/ LookUp(c) \/ TrySlug(c) \/ LookUpRelationship(c) \/ MergeRelationship(c)
  BY <1>9 DEF BeginImport, LookUp, TrySlug, LookUpRelationship, MergeRelationship,
              CreateRelationship, Writes, storeVars
<1>10. CASE ImportRow(c)
  BY <1>10, ImportRowWrites
<1>11. CASE MergeEntity(c)
  BY <1>11, MergeEntityWrites
<1> QED BY <1>1, <1>2, <1>3, <1>4, <1>5, <1>6, <1>7, <1>8, <1>9, <1>10, <1>11 DEF Step, ImportStep

LEMMA WritesShaped ==
  ASSUME Shaped, StoreInv, NEW c \in Clients, Writes(c)
  PROVE  EntitiesShaped' /\ IsFiniteSet(Stored')
<1>1. EntitiesShaped /\ IsFiniteSet(Stored)
  BY DEF Shaped
<1>2. CASE UNCHANGED <<entities, slugIndex, order>>
  BY <1>1, <1>2 DEF EntitiesShaped, ShapedEntity, Stored
<1>3. ASSUME NEW i \in Ids, NEW e, ShapedEntity(e), CreateEntity(i, e) \/ ImportEntity(i, e)
      PROVE  EntitiesShaped' /\ IsFiniteSet(Stored')
  <2>1. /\ Stored' = Stored \cup {i} /\ entities'[i] = e
        /\ \A j \in Stored \ {i} : entities'[j] = entities[j]
    BY <1>3, CreateEffect, ImportEffect
  <2>2. IsFiniteSet(Stored')
    BY <1>1, <2>1, FS_AddElement
  <2>3. EntitiesShaped'
    BY <1>1, <1>3, <2>1 DEF EntitiesShaped, ShapedEntity
  <2> QED BY <2>2, <2>3
<1>4. ASSUME NEW i, NEW updates, UpdateEntity(i, updates), ShapedEntity(Merged(i, updates))
      PROVE  EntitiesShaped' /\ IsFiniteSet(Stored')
  <2> DEFINE m == Merged(i, updates)
  <2>1. /\ i \in Stored /\ Stored' = Stored /\ entities'[i] = m
        /\ \A j \in Stored \ {i} : entities'[j] = entities[j]
    BY <1>4, UpdateEffect
  <2>2. ShapedEntity(m)
    BY <1>4
  <2> HIDE DEF m
  <2>3. EntitiesShaped'
    BY <1>1, <2>1, <2>2 DEF EntitiesShaped, ShapedEntity
  <2> QED BY <1>1, <2>1, <2>3
<1>5. ASSUME NEW ids, DeleteEntities(ids)
      PROVE  EntitiesShaped' /\ IsFiniteSet(Stored')
  <2>1. Stored' \subseteq Stored /\ \A j \in Stored' : entities'[j] = entities[j]
    BY <1>5, DeleteEffect
  <2>2. IsFiniteSet(Stored')
    BY <1>1, <2>1, FS_Subset
  <2> QED BY <1>1, <2>1, <2>2 DEF EntitiesShaped, ShapedEntity
<1>6. CASE DeleteAllContents
  BY <1>6, ClearEffect, FS_EmptySet DEF EntitiesShaped
<1>7. CASE CreatesOne(c)
  BY <1>3, <1>7 DEF CreatesOne
<1>8. CASE UpdatesOne(c)
  <2>1. request[c].id \in Stored
    BY <1>8 DEF UpdatesOne, UpdateEntity
  <2> QED BY <1>4, <1>8, <2>1, UpdateShapes DEF UpdatesOne
<1>9. CASE VectorOne(c)
  <2> SUFFICES ASSUME NEW i, NEW vector, UpdateEntity(i, [vector |-> vector])
               PROVE  ShapedEntity(Merged(i, [vector |-> vector]))
    BY <1>4, <1>9 DEF VectorOne
  <2> DEFINE updates == [vector |-> vector]
             m == Merged(i, updates)
  <2>1. i \in Stored
    BY DEF UpdateEntity
  <2>2. ShapedEntity(entities[i])
    BY <1>1, <2>1 DEF EntitiesShaped
  <2>3. DOMAIN updates = {"vector"}
    OBVIOUS
  <2> HIDE DEF updates
  <2>4. m = [f \in EntityFields |-> IF f \in DOMAIN updates THEN updates[f] ELSE entities[i][f]]
    BY <2>2, FieldsMerged
  <2> HIDE DEF m
  <2>5. /\ m.type = entities[i].type /\ m.label = entities[i].label /\ m.slug = entities[i].slug
        /\ m = [f \in EntityFields |-> m[f]]
    BY <2>3, <2>4 DEF EntityFields
  <2>6. ShapedEntity(m)
    BY <2>2, <2>5 DEF ShapedEntity
  <2> QED BY <2>6 DEF m, updates
<1>10. CASE ImportsOne(c)
  BY <1>3, <1>4, <1>10 DEF ImportsOne
<1>11. CASE DeletesSome(c)
  BY <1>5, <1>11 DEF DeletesSome
<1>12. CASE PurgesSome(c)
  BY <1>5, <1>6, <1>12 DEF PurgesSome
<1> QED BY <1>2, <1>7, <1>8, <1>9, <1>10, <1>11, <1>12 DEF Writes

LEMMA StepShapesCall ==
  ASSUME Shaped, NEW c \in Clients, Step(c) \/ ImportStep(c)
  PROVE  CallShaped(c)'
<1>1. CASE BeginCreate(c) \/ BeginUpdate(c) \/ Hook(c) \/ PickSlug(c)
  BY <1>1, ShapedBeginCreate, ShapedBeginUpdate, ShapedHook, ShapedPickSlug
<1>2. CASE WriteCreate(c) \/ WriteUpdate(c) \/ Delete(c) \/ Index(c) \/ Return(c)
  BY <1>2, ShapedWriteCreate, ShapedWriteUpdate, ShapedDelete, ShapedIndex, ShapedReturn
<1>3. CASE BeginReembed(c) \/ Page(c) \/ WriteVector(c)
  BY <1>3, ShapedReembed
<1>4. CASE BeginRelate(c) \/ WriteRelationship(c) \/ RemoveRelationships(c) \/ Purge(c)
  BY <1>4, ShapedOthers
<1>5. CASE BeginImport(c) \/ ImportRow(c) \/ LookUp(c) \/ TrySlug(c) \/ MergeEntity(c)
  BY <1>5, ShapedBeginImport, ShapedImportRow, ShapedLookUp, ShapedTrySlug, ShapedMergeEntity
<1>6. CASE LookUpRelationship(c) \/ MergeRelationship(c)
  BY <1>6, ShapedRelationshipRow
<1> QED BY <1>1, <1>2, <1>3, <1>4, <1>5, <1>6 DEF Step, ImportStep

\* A step is one call's: requests stay, the other calls keep their records, and the
\* history only grows.
LEMMA StepFrame ==
  ASSUME Shaped, NEW c \in Clients, Step(c) \/ ImportStep(c)
  PROVE  /\ request' = request
         /\ unheard \subseteq unheard'
         /\ call' = [d \in Clients |-> call'[d]]
         /\ \A d \in Clients \ {c} : call'[d] = call[d]
<1>1. request' = request /\ unheard \subseteq unheard' /\ \E cl : Becomes(c, cl)
  <2>1. CASE BeginCreate(c) \/ BeginUpdate(c) \/ PickSlug(c) \/ Return(c)
    BY <2>1 DEF BeginCreate, BeginUpdate, PickSlug, Return, aside
  <2>2. CASE Hook(c)
    BY <2>2 DEF Hook, aside
  <2>3. CASE WriteCreate(c)
    BY <2>3 DEF WriteCreate, aside
  <2>4. CASE WriteUpdate(c)
    BY <2>4 DEF WriteUpdate, aside
  <2>5. CASE Delete(c)
    BY <2>5 DEF Delete
  <2>6. CASE Index(c) \/ BeginReembed(c) \/ Page(c)
    BY <2>6 DEF Index, BeginReembed, Page
  <2>7. CASE WriteVector(c)
    BY <2>7 DEF WriteVector
  <2>8. CASE BeginRelate(c) \/ WriteRelationship(c) \/ RemoveRelationships(c)
    BY <2>8 DEF BeginRelate, WriteRelationship, RemoveRelationships, aside
  <2>9. CASE Purge(c)
    BY <2>9 DEF Purge
  <2>10. CASE BeginImport(c) \/ LookUp(c) \/ TrySlug(c) \/ LookUpRelationship(c) \/ MergeRelationship(c)
    BY <2>10 DEF BeginImport, LookUp, TrySlug, LookUpRelationship, MergeRelationship, aside
  <2>11. CASE ImportRow(c)
    BY <2>11 DEF ImportRow
  <2>12. CASE MergeEntity(c)
    BY <2>12 DEF MergeEntity
  <2> QED BY <2>1, <2>2, <2>3, <2>4, <2>5, <2>6, <2>7, <2>8, <2>9, <2>10, <2>11, <2>12
          DEF Step, ImportStep
<1> QED BY <1>1, OwnRecord

LEMMA StepKeepsShape ==
  ASSUME Shaped, StoreInv, NEW c \in Clients, Step(c) \/ ImportStep(c)
  PROVE  Shaped'
<1>1. /\ request' = request /\ unheard \subseteq unheard'
      /\ call' = [d \in Clients |-> call'[d]]
      /\ \A d \in Clients \ {c} : call'[d] = call[d]
  BY StepFrame
<1>2. RequestsTyped'
  BY <1>1 DEF Shaped, RequestsTyped
<1>3. EntitiesShaped' /\ IsFiniteSet(Stored)'
  BY StepWrites, WritesShaped
<1>4. CallShaped(c)'
  BY StepShapesCall
<1>5. ASSUME NEW d \in Clients \ {c}
      PROVE  CallShaped(d)'
  <2>1. CallShaped(d) /\ call'[d] = call[d]
    BY <1>1 DEF Shaped
  <2> QED BY <1>1, <2>1, OtherStaysShaped
<1> QED BY <1>1, <1>2, <1>3, <1>4, <1>5 DEF Shaped

LEMMA InitIsShaped ==
  ASSUME Init
  PROVE  Shaped
<1>1. PICK plan \in Plans : request = plan.asked /\ entities = plan.entities
  BY DEF Init
<1>2. RequestsTyped
  BY <1>1, RepositoryAssumption DEF RequestsTyped
<1>3. StoreInit /\ call = [c \in Clients |-> NoCall] /\ unheard = {}
  BY DEF Init
<1>4. EntitiesShaped
  <2>1. Stored \subseteq Ids /\ entities \in [Stored -> Entity]
    BY <1>3 DEF StoreInit, StoreTypeOK, PartialFunction, Stored
  <2>2. \A e \in Entity : ShapedEntity(e)
    <3> SUFFICES ASSUME NEW e \in Entity
                 PROVE  ShapedEntity(e)
      OBVIOUS
    <3>1. e = [f \in {"type", "label", "slug", "content", "vector"} |-> e[f]]
      BY DEF Entity
    <3> QED BY <3>1 DEF Entity, ShapedEntity, EntityFields
  <2> QED BY <2>1, <2>2 DEF EntitiesShaped
<1>5. IsFiniteSet(Stored)
  <2>1. order \in Seq(Ids) /\ Stored = {order[k] : k \in DOMAIN order}
    BY <1>3 DEF StoreInit
  <2>2. Len(order) \in Nat /\ DOMAIN order = 1..Len(order)
    BY <2>1
  <2>3. IsFiniteSet(1..Len(order))
    BY <2>2, FS_Interval
  <2> DEFINE f == [k \in 1..Len(order) |-> order[k]]
  <2>4. f \in Surjection(1..Len(order), Stored)
    BY <2>1, <2>2 DEF Surjection
  <2> QED BY <2>3, <2>4, FS_Surjection
<1>6. ASSUME NEW c \in Clients
      PROVE  CallShaped(c)
  <2>1. call[c] = NoCall
    BY <1>3
  <2> DEFINE cl == NoCall
  <2>2. /\ IsCall(cl) /\ cl.pc = "idle" /\ cl.member = 1 /\ cl.slug = <<>>
        /\ cl.created = <<>> /\ cl.todo = <<>> /\ cl.wrote = {}
    BY NoCallFields
  <2>3. call[c] = cl
    BY <2>1
  <2> HIDE DEF cl
  <2>4. IsSeq(call[c].todo) /\ Indexed(c) = {} /\ ToSet(call[c].created) = {} /\ <<>> \in Seq(Ids)
    BY <2>2, <2>3, EmptyIsSeq DEF Indexed
  <2>5. CreateShaped(c)
    BY <2>2, <2>3, <2>4 DEF CreateShaped
  <2>6. UpdateShaped(c) /\ DeleteShaped(c) /\ ImportShaped(c) /\ OthersShaped(c)
    BY <2>2, <2>3, <2>4 DEF UpdateShaped, DeleteShaped, ImportShaped, OthersShaped
  <2> QED BY <2>2, <2>3, <2>5, <2>6 DEF CallShaped
<1> QED BY <1>2, <1>3, <1>4, <1>5, <1>6 DEF Shaped

LEMMA StutterKeepsShape ==
  ASSUME Shaped, UNCHANGED vars
  PROVE  Shaped'
<1>1. /\ request' = request /\ entities' = entities /\ call' = call /\ unheard' = unheard
      /\ Stored' = Stored
  BY DEF vars, storeVars, aside, Stored
<1>2. \A c \in Clients : CallShaped(c)'
  BY <1>1, OtherStaysShaped DEF Shaped
<1> QED BY <1>1, <1>2 DEF Shaped, RequestsTyped, EntitiesShaped, ShapedEntity

\* What holds of every state before anything is said of who wrote what.
Sound == StoreInv /\ Shaped

LEMMA StepIsSound ==
  ASSUME Sound, [ImportNext]_vars
  PROVE  Sound'
<1>1. StoreInv'
  BY ImportStepKeepsStore DEF Sound
<1>2. CASE UNCHANGED vars
  BY <1>1, <1>2, StutterKeepsShape DEF Sound
<1>3. CASE ImportNext
  BY <1>1, <1>3, StepKeepsShape DEF Sound, ImportNext
<1> QED BY <1>2, <1>3

LEMMA CallsStaySound == ImportSpec => []Sound
<1>1. Init => Sound
  BY InitHasInv, InitIsShaped DEF Init, Sound
<1>2. Sound /\ [ImportNext]_vars => Sound'
  BY StepIsSound
<1> QED BY <1>1, <1>2, PTL DEF ImportSpec

\* A batch reports what it stored, whatever failed on the way and whatever ran beside
\* it: all its members, the ones before a failure, or, with a plain error, none
\* (createEntities and its BatchPartialFailureError, writeWithSlugRetry).
THEOREM BatchReportsTruth == ImportSpec => []ReportIsTruth
<1>1. ASSUME Sound
      PROVE  ReportIsTruth
  <2> SUFFICES ASSUME NEW c \in Clients, Op(c) = "create", call[c].pc = "done"
               PROVE  /\ ToSet(call[c].created) = call[c].wrote
                      /\ call[c].reply = "created" <=>
                           Len(call[c].created) = Len(request[c].inputs) /\ call[c].reply # "partial"
                      /\ call[c].reply \notin {"created", "partial"} => call[c].wrote = {}
    BY DEF ReportIsTruth
  <2>1. CreateShaped(c)
    BY <1>1 DEF Sound, Shaped, CallShaped
  <2>2. request[c].inputs \in Seq(EntityInput)
    BY <1>1, AskedCreate DEF Sound, Shaped
  <2>3. request[c].inputs # <<>> => Len(request[c].inputs) # 0
    BY <2>2
  <2>4. Len(<<>>) = 0
    OBVIOUS
  <2> QED BY <2>1, <2>3, <2>4, EmptyIsSeq DEF CreateShaped
<1> QED BY <1>1, CallsStaySound, PTL

-----------------------------------------------------------------------------
\* The calls, too, implement the directory of slugs.
LEMMA EffectRefines ==
  ASSUME Sound, Sound', StoreEffect
  PROVE  Directory!Next \/ UNCHANGED <<named, found, doubled>>
<1>0. /\ StoreInv /\ StoreInv'
      /\ Stored \subseteq Ids /\ Stored' \subseteq Ids
      /\ \A i \in Stored : entities[i].slug \in Slugs
      /\ \A i \in Stored' : entities'[i].slug \in Slugs
  BY DEF Sound, Shaped, EntitiesShaped, ShapedEntity
<1>1. ASSUME NEW i, Notes(i), Stored' = Stored \cup {i}, \A j \in Stored \ {i} : entities'[j] = entities[j]
      PROVE  Directory!Next
  <2>1. i \in Ids
    BY <1>0, <1>1
  <2> QED BY <1>0, <1>1, <2>1, NamesOne
<1>2. ASSUME NEW gone \in SUBSET Ids, doubled' = doubled, Stored' = Stored \ gone,
             \A j \in Stored \ gone : entities'[j] = entities[j]
      PROVE  Directory!Next
  BY <1>0, <1>2, RemovesSome
<1>3. ASSUME NEW i, NEW e, CreateEntity(i, e) \/ ImportEntity(i, e)
      PROVE  Directory!Next
  <2>1. Stored' = Stored \cup {i} /\ \A j \in Stored \ {i} : entities'[j] = entities[j]
    BY <1>3, CreateEffect, ImportEffect
  <2>2. entities'[i] = e
    BY <1>3, CreateEffect, ImportEffect
  <2>3. Notes(i)
    BY <1>3, <2>2 DEF Notes, CreateEntity, ImportEntity
  <2> QED BY <1>1, <2>1, <2>3
<1>4. ASSUME NEW i, NEW updates, UpdateEntity(i, updates)
      PROVE  Directory!Next
  <2>1. Stored' = Stored \cup {i} /\ \A j \in Stored \ {i} : entities'[j] = entities[j]
    BY <1>0, <1>4, UpdateEffect
  <2>2. Notes(i)
    BY <1>4 DEF Notes, UpdateEntity
  <2> QED BY <1>1, <2>1, <2>2
<1>5. ASSUME NEW ids, DeleteEntities(ids)
      PROVE  Directory!Next
  <2> DEFINE gone == ids \cap Stored
  <2>1. Stored' = Stored \ gone /\ \A j \in Stored' : entities'[j] = entities[j]
    BY <1>5, DeleteEffect
  <2>2. gone \in SUBSET Ids /\ doubled' = doubled
    BY <1>0, <1>5 DEF DeleteEntities
  <2> HIDE DEF gone
  <2> QED BY <1>2, <2>1, <2>2
<1>6. ASSUME DeleteAllContents
      PROVE  Directory!Next
  <2>1. Stored' = Stored \ Stored /\ doubled' = doubled
    BY <1>6, ClearEffect DEF DeleteAllContents
  <2> QED BY <1>0, <1>2, <2>1
<1>7. ASSUME entities' = entities, doubled' = doubled
      PROVE  Directory!Next
  <2>1. PICK gone \in SUBSET Ids : gone = {}
    OBVIOUS
  <2>2. Stored' = Stored \ gone /\ \A j \in Stored \ gone : entities'[j] = entities[j]
    BY <1>7, <2>1 DEF Stored
  <2> QED BY <1>2, <1>7, <2>2
<1>8. ASSUME NEW r, NEW rel, NEW insertOnly,
             CreateRelationship(r, rel) \/ ImportRelationship(r, rel, insertOnly)
      PROVE  Directory!Next
  BY <1>7, <1>8 DEF CreateRelationship, ImportRelationship
<1>9. ASSUME NEW rs, DeleteRelationships(rs)
      PROVE  Directory!Next
  BY <1>7, <1>9 DEF DeleteRelationships
<1> QED BY <1>3, <1>4, <1>5, <1>6, <1>8, <1>9, StutterRefines DEF StoreEffect

\* Slugs and lookups stay a directory while calls, retries after a conflict, purges and
\* imports run side by side on the store: one slug to an entity, one entity to a slug,
\* and a lookup finds exactly the entity that has the slug now.  Only for a slug that a
\* bulk import gave away while it was in use does a lookup find one of its entities or
\* none.
THEOREM CallsImplementDirectory == ImportSpec => ImplementsDirectory
<1>1. Init => Directory!Init
  BY InitRefines DEF Init
<1>2. Sound /\ Sound' /\ [ImportNext]_vars
        => [Directory!Next]_<<named, found, doubled>>
  <2> SUFFICES ASSUME Sound, Sound', [ImportNext]_vars
               PROVE  Directory!Next \/ UNCHANGED <<named, found, doubled>>
    OBVIOUS
  <2>1. CASE UNCHANGED vars
    BY <2>1, StutterRefines DEF vars
  <2>2. CASE ImportNext
    BY <2>2, StepsAreStoreSteps, EffectRefines DEF ImportNext
  <2> QED BY <2>1, <2>2
<1> QED BY <1>1, <1>2, CallsStaySound, PTL
        DEF ImportSpec, ImplementsDirectory, Directory!Spec, named, found

-----------------------------------------------------------------------------
\* Calls at work on one entity are noted as contending for it.
ContentionNoted ==
  \A c, d \in Clients : c # d => WorksOn(c) \cap WorksOn(d) \subseteq contended

LEMMA WorksTyped ==
  ASSUME Shaped, NEW c \in Clients
  PROVE  WorksOn(c) \subseteq Ids
<1>1. CreateShaped(c)
  BY DEF Shaped, CallShaped
<1>2. Op(c) = "create" => call[c].wrote \subseteq Ids
  BY <1>1, SeqIsSeq DEF CreateShaped
<1>3. Op(c) = "update" => request[c].id \in Ids
  BY AskedUpdate DEF Shaped
<1>4. Op(c) = "delete" => request[c].ids \subseteq Ids
  BY AskedDelete DEF Shaped
<1>5. CASE ~Running(c)
  BY <1>5 DEF WorksOn
<1>6. CASE Running(c)
  BY <1>2, <1>3, <1>4, <1>6, OpsKnown DEF WorksOn, Shaped
<1> QED BY <1>5, <1>6

LEMMA AllWorksTyped == Shaped => \A c \in Clients : WorksOn(c) \subseteq Ids
BY WorksTyped

LEMMA StepNotesContention ==
  ASSUME Shaped', contended' = contended \cup Contention'
  PROVE  ContentionNoted'
<1>1. (\A c \in Clients : WorksOn(c) \subseteq Ids)'
  BY AllWorksTyped, PTL
<1> SUFFICES ASSUME NEW c \in Clients, NEW d \in Clients, c # d, NEW i,
                    i \in WorksOn(c)', i \in WorksOn(d)'
             PROVE  i \in contended'
  BY DEF ContentionNoted
<1> QED BY <1>1 DEF Contention


\* The steps that are an operation's own.
LEMMA StepsOf ==
  ASSUME Shaped, NEW c \in Clients, Step(c) \/ ImportStep(c)
  PROVE  /\ Op(c) = "create" =>
              BeginCreate(c) \/ Hook(c) \/ PickSlug(c) \/ WriteCreate(c) \/ Index(c) \/ Return(c)
         /\ Op(c) = "update" =>
              BeginUpdate(c) \/ Hook(c) \/ PickSlug(c) \/ WriteUpdate(c) \/ Index(c) \/ Return(c)
         /\ Op(c) = "delete" => Delete(c) \/ Index(c) \/ Return(c)
         /\ Op(c) = "reembed" => BeginReembed(c) \/ Page(c) \/ WriteVector(c)
         /\ Op(c) = "import" => BeginImport(c) \/ ImportRow(c)
         /\ Op(c) = "merge" => \/ BeginImport(c) \/ LookUp(c) \/ TrySlug(c) \/ MergeEntity(c)
                               \/ LookUpRelationship(c) \/ MergeRelationship(c)
<1> USE OpAt
<1>1. CASE BeginCreate(c) \/ BeginUpdate(c)
  BY <1>1 DEF BeginCreate, BeginUpdate
<1>2. CASE Hook(c) \/ PickSlug(c)
  BY <1>2 DEF Hook, PickSlug
<1>3. CASE WriteCreate(c) \/ WriteUpdate(c) \/ Delete(c)
  BY <1>3 DEF WriteCreate, WriteUpdate, Delete
<1>4. CASE Index(c) \/ Return(c)
  BY <1>4 DEF Index, Return
<1>5. CASE BeginReembed(c) \/ Page(c) \/ WriteVector(c)
  BY <1>5 DEF BeginReembed, Page, WriteVector
<1>6. CASE BeginRelate(c) \/ WriteRelationship(c) \/ RemoveRelationships(c)
  BY <1>6 DEF BeginRelate, WriteRelationship, RemoveRelationships
<1>7. CASE Purge(c)
  BY <1>7 DEF Purge
<1>8. CASE BeginImport(c) \/ ImportRow(c) \/ LookUp(c) \/ LookUpRelationship(c)
  BY <1>8 DEF BeginImport, ImportRow, LookUp, LookUpRelationship
<1>9. CASE TrySlug(c) \/ MergeEntity(c) \/ MergeRelationship(c)
  BY <1>9 DEF TrySlug, MergeEntity, MergeRelationship
<1> QED BY <1>1, <1>2, <1>3, <1>4, <1>5, <1>6, <1>7, <1>8, <1>9 DEF Step, ImportStep

\* What an archive wrote stays noted.
LEMMA WroteGrows ==
  ASSUME Shaped, NEW c \in Clients, Step(c) \/ ImportStep(c), Op(c) \in {"import", "merge"}
  PROVE  call[c].wrote \subseteq call'[c].wrote
<1>2. IsCall(call[c])
  BY DEF Shaped, CallShaped
<1>4. ASSUME NEW cl, IsCall(cl), call[c].wrote \subseteq cl.wrote, call'[c] = NextRow(c, cl)
      PROVE  call[c].wrote \subseteq call'[c].wrote
  <2>2. NextRow(c, cl).wrote = cl.wrote
    BY <1>4, NextRowWrote
  <2> QED BY <1>4, <2>2
<1>5. ASSUME NEW reply, call'[c] = Answer(call[c], reply)
      PROVE  call[c].wrote \subseteq call'[c].wrote
  <2>1. Answer(call[c], reply).wrote = call[c].wrote
    BY <1>2, AnswerFields DEF Same, CallFields
  <2> QED BY <1>5, <2>1
<1>6. ASSUME NEW failed, call'[c] = NextRow(c, [call[c] EXCEPT !.failed = failed])
      PROVE  call[c].wrote \subseteq call'[c].wrote
  <2> DEFINE cl == [call[c] EXCEPT !.failed = failed]
  <2>1. IsCall(cl) /\ cl.wrote = call[c].wrote
    BY FailedRowFields DEF Same, CallFields
  <2>2. call'[c] = NextRow(c, cl)
    BY <1>6
  <2> HIDE DEF cl
  <2> QED BY <1>4, <2>1, <2>2
<1>7. CASE BeginImport(c)
  <2> DEFINE next == [call[c] EXCEPT !.pc = "row"]
  <2>1. next.wrote = call[c].wrote
    BY <1>2 DEF IsCall, CallFields
  <2>2. call'[c] = next \/ call'[c] = Answer(call[c], "imported")
    BY <1>7, OwnRecord DEF BeginImport
  <2> HIDE DEF next
  <2> QED BY <1>5, <2>1, <2>2
<1>8. CASE ImportRow(c)
  <2> DEFINE next == [call[c] EXCEPT !.wrote = @ \cup {Row(c).id}]
  <2>1. IsCall(next) /\ call[c].wrote \subseteq next.wrote
    BY <1>2 DEF IsCall, CallFields
  <2>2. \/ call'[c] = NextRow(c, next) \/ call'[c] = NextRow(c, call[c])
        \/ \E failed : call'[c] = NextRow(c, [call[c] EXCEPT !.failed = failed])
    BY <1>8, OwnRecord DEF ImportRow
  <2> HIDE DEF next
  <2> QED BY <1>2, <1>4, <1>6, <2>1, <2>2
<1>9. CASE LookUp(c)
  <2> DEFINE next == [call[c] EXCEPT !.pc = "merge", !.read = SetToSeq(Existing(Row(c))), !.n = 1]
  <2>1. next.wrote = call[c].wrote
    BY <1>2 DEF IsCall, CallFields
  <2>2. call'[c] = next \/ \E failed : call'[c] = NextRow(c, [call[c] EXCEPT !.failed = failed])
    BY <1>9, OwnRecord DEF LookUp, Skip
  <2> HIDE DEF next
  <2> QED BY <1>6, <2>1, <2>2
<1>10. CASE TrySlug(c)
  <2> DEFINE again == [call[c] EXCEPT !.n = @ + 1]
             next == [call[c] EXCEPT !.pc = "copy"]
  <2>1. again.wrote = call[c].wrote /\ next.wrote = call[c].wrote
    BY <1>2 DEF IsCall, CallFields
  <2>2. call'[c] = again \/ call'[c] = next
    BY <1>10, OwnRecord DEF TrySlug
  <2> HIDE DEF again, next
  <2> QED BY <2>1, <2>2
<1>11. CASE MergeEntity(c)
  <2> DEFINE next == [call[c] EXCEPT !.created = Append(@, Row(c).id), !.wrote = @ \cup {Written(c)}]
  <2>1. IsCall(next) /\ call[c].wrote \subseteq next.wrote
    BY <1>2 DEF IsCall, CallFields
  <2>2. call'[c] = NextRow(c, next) \/ call'[c] = Answer(call[c], "abandoned")
    BY <1>11, OwnRecord DEF MergeEntity
  <2> HIDE DEF next
  <2> QED BY <1>4, <1>5, <2>1, <2>2
<1>12. CASE LookUpRelationship(c)
  <2> DEFINE next == [call[c] EXCEPT !.pc = "relationship"]
  <2>1. next.wrote = call[c].wrote
    BY <1>2 DEF IsCall, CallFields
  <2>2. call'[c] = next \/ \E failed : call'[c] = NextRow(c, [call[c] EXCEPT !.failed = failed])
    BY <1>12, OwnRecord DEF LookUpRelationship, Skip
  <2> HIDE DEF next
  <2> QED BY <1>6, <2>1, <2>2
<1>13. CASE MergeRelationship(c)
  <2>1. \/ call'[c] = NextRow(c, call[c]) \/ call'[c] = Answer(call[c], "abandoned")
        \/ \E failed : call'[c] = NextRow(c, [call[c] EXCEPT !.failed = failed])
    BY <1>13, OwnRecord DEF MergeRelationship, Skip
  <2> QED BY <1>2, <1>4, <1>5, <1>6, <2>1
<1> QED BY <1>7, <1>8, <1>9, <1>10, <1>11, <1>12, <1>13, StepsOf

LEMMA ImportedGrows ==
  ASSUME Shaped, NEW c \in Clients, Step(c) \/ ImportStep(c)
  PROVE  Imported \subseteq Imported'
<1>1. /\ request' = request /\ \A d \in Clients \ {c} : call'[d] = call[d]
  BY StepFrame
<1>2. Op(c) \in {"import", "merge"} => call[c].wrote \subseteq call'[c].wrote
  BY WroteGrows
<1> QED BY <1>1, <1>2 DEF Imported, Op

\* An entity that a call works on is left alone by the others, unless the two are noted
\* as contending, an archive wrote it, or it is deleted and nobody tells the search index.
LEMMA OthersKeepIt ==
  ASSUME Sound, Sound', ContentionNoted, ContentionNoted', contended \subseteq contended',
         NEW c \in Clients, NEW d \in Clients \ {c}, Step(c) \/ ImportStep(c),
         NEW i \in WorksOn(d) \ (contended' \cup Imported')
  PROVE  /\ i \in Stored' => i \in Stored /\ entities'[i] = entities[i]
         /\ i \in Stored \ Stored' => i \in unheard'
<1>1. /\ request' = request /\ call'[d] = call[d]
  BY StepFrame DEF Sound
<1>2. i \in WorksOn(d)'
  BY <1>1 DEF WorksOn, Running, Op
<1>3. i \notin WorksOn(c) /\ i \notin WorksOn(c)'
  BY <1>2 DEF ContentionNoted
<1>4. i \in Ids
  BY WorksTyped DEF Sound
<1>5. Writes(c) /\ StoreInv
  BY StepWrites DEF Sound
<1>6. CASE UNCHANGED <<entities, slugIndex, order>>
  BY <1>6 DEF Stored
<1>7. CASE CreatesOne(c)
  <2>1. PICK j \in Ids : \E e : CreateEntity(j, e) /\ call'[c].wrote = call[c].wrote \cup {j} /\ Running(c)'
    BY <1>7 DEF CreatesOne
  <2>2. j \in WorksOn(c)'
    BY <1>1, <1>7, <2>1 DEF CreatesOne, WorksOn, Op
  <2>3. Stored' = Stored \cup {j} /\ \A k \in Stored : entities'[k] = entities[k]
    BY <2>1, CreateEffect
  <2> QED BY <1>3, <2>2, <2>3
<1>8. CASE UpdatesOne(c)
  <2>1. request[c].id \in WorksOn(c)
    BY <1>8 DEF UpdatesOne, WorksOn, Running
  <2>2. /\ Stored' = Stored
        /\ \A j \in Stored \ {request[c].id} : entities'[j] = entities[j]
    BY <1>5, <1>8, UpdateEffect DEF UpdatesOne
  <2> QED BY <1>3, <2>1, <2>2
<1>9. CASE VectorOne(c)
  <2>1. WorksOn(c) = Ids
    BY <1>9 DEF VectorOne, WorksOn, Running
  <2> QED BY <1>3, <1>4, <2>1
<1>10. CASE ImportsOne(c)
  <2>1. PICK j \in Ids :
          /\ \/ \E e : CreateEntity(j, e) \/ ImportEntity(j, e)
             \/ \E updates : UpdateEntity(j, updates)
          /\ j \in call'[c].wrote
    BY <1>10 DEF ImportsOne
  <2>2. j \in Imported'
    BY <1>1, <1>10, <2>1 DEF ImportsOne, Imported, Op
  <2>3. /\ Stored' = Stored \cup {j}
        /\ \A k \in Stored \ {j} : entities'[k] = entities[k]
    BY <1>5, <2>1, CreateEffect, ImportEffect, UpdateEffect
  <2> QED BY <2>2, <2>3
<1>11. CASE DeletesSome(c)
  <2>1. Stored' = Stored \ request[c].ids /\ \A j \in Stored' : entities'[j] = entities[j]
    BY <1>11, DeleteEffect DEF DeletesSome
  <2>2. CASE Running(c)'
    <3>1. WorksOn(c)' = request[c].ids
      BY <1>1, <1>11, <2>2 DEF DeletesSome, WorksOn, Op
    <3> QED BY <1>3, <2>1, <3>1
  <2>3. CASE request[c].ids \cap Stored \subseteq unheard'
    BY <2>1, <2>3
  <2> QED BY <1>11, <2>2, <2>3 DEF DeletesSome
<1>12. CASE PurgesSome(c)
  <2>1. Stored' \subseteq Stored /\ \A j \in Stored' : entities'[j] = entities[j]
    BY <1>12, DeleteEffect, ClearEffect DEF PurgesSome
  <2> QED BY <1>12, <2>1 DEF PurgesSome
<1> QED BY <1>5, <1>6, <1>7, <1>8, <1>9, <1>10, <1>11, <1>12 DEF Writes

-----------------------------------------------------------------------------
\* What an update has read of its entity is what the store holds, but for the vector.
ReadFields == {"type", "label", "slug", "content"}

ReadIsStored ==
  \A c \in Clients : Op(c) = "update" /\ call[c].pc \in {"hook", "pick", "write"} =>
    LET i == request[c].id IN
    i \in Stored \ (contended \cup Imported) =>
      \A f \in ReadFields : entities[i][f] = call[c].read[f]

NamesInv == ContentionNoted /\ ReadIsStored /\ SlugNamesEntity

\* An update keeps what it read until it has written.
LEMMA UpdateReads ==
  ASSUME Shaped, NEW c \in Clients, Step(c) \/ ImportStep(c), Op(c) = "update",
         call'[c].pc \in {"hook", "pick", "write"}
  PROVE  /\ entities' = entities
         /\ \/ call'[c].read = entities[request[c].id]
            \/ call[c].pc \in {"hook", "pick", "write"} /\ call'[c].read = call[c].read
<1>1. IsCall(call[c])
  BY DEF Shaped, CallShaped
<1>2. CASE BeginUpdate(c)
  <2> DEFINE i == request[c].id
             next == [call[c] EXCEPT !.pc = "hook", !.read = entities[i]]
             a == Answer(call[c], "not_found")
  <2>1. entities' = entities /\ call'[c] \in {next, a}
    BY <1>2, OwnRecord DEF BeginUpdate, storeVars
  <2>2. next.read = entities[i]
    BY <1>1 DEF IsCall, CallFields
  <2>3. a.pc = "done"
    BY <1>1, AnswerFields
  <2> HIDE DEF next, a
  <2> QED BY <2>1, <2>2, <2>3
<1>3. CASE Hook(c)
  <2> DEFINE pick == [call[c] EXCEPT !.pc = "pick", !.n = 1, !.refused = {}]
             write == [call[c] EXCEPT !.pc = "write", !.vector = Embeds(c)]
             a == Failed(call[c], "cancelled")
  <2>1. call[c].pc = "hook" /\ entities' = entities /\ call'[c] \in {pick, write, a}
    BY <1>3, OwnRecord DEF Hook, storeVars
  <2>2. pick.read = call[c].read /\ write.read = call[c].read
    BY <1>1 DEF IsCall, CallFields
  <2>3. a.read = call[c].read
    BY <1>1, FailedFields DEF Same, CallFields
  <2> HIDE DEF pick, write, a
  <2> QED BY <2>1, <2>2, <2>3
<1>4. CASE PickSlug(c)
  <2> DEFINE again == [call[c] EXCEPT !.n = @ + 1]
             write == [call[c] EXCEPT !.pc = "write", !.slug = Candidate(c),
                         !.vector = IF call[c].refused = {} THEN Embeds(c) ELSE @]
  <2>1. call[c].pc = "pick" /\ entities' = entities /\ call'[c] \in {again, write}
    BY <1>4, OwnRecord DEF PickSlug, storeVars
  <2>2. again.read = call[c].read /\ write.read = call[c].read
    BY <1>1 DEF IsCall, CallFields
  <2> HIDE DEF again, write
  <2> QED BY <2>1, <2>2
<1>5. CASE WriteUpdate(c)
  <2> DEFINE x == [id |-> request[c].id, document |-> <<Document(Merged(request[c].id, Updates(c)))>>]
             next == [Indexing(call[c], "updated") EXCEPT !.todo = <<x>>]
             conflict == SlugConflict(c)
  <2>1. /\ call[c].pc = "write"
        /\ \/ call'[c] = next
           \/ \E reply : call'[c] = Answer(call[c], reply)
           \/ call'[c] = conflict /\ entities' = entities
    BY <1>5, OwnRecord DEF WriteUpdate, storeVars
  <2>2. next.pc = "index"
    <3> HIDE DEF x
    <3> QED BY <1>1, UpdatedFields
  <2>3. \A reply : Answer(call[c], reply).pc = "done"
    BY <1>1, AnswerFields
  <2>4. conflict.read = call[c].read
    BY <1>1, ConflictFields DEF Same, CallFields
  <2> HIDE DEF next, conflict
  <2> QED BY <2>1, <2>2, <2>3, <2>4
<1>6. CASE Index(c) \/ Return(c)
  <2> DEFINE next == [call[c] EXCEPT !.todo = Tail(@)]
             a == [call[c] EXCEPT !.pc = "done"]
  <2>1. call[c].pc = "index" /\ call'[c] \in {next, a}
    BY <1>6, OwnRecord DEF Index, Return
  <2>2. next.pc = call[c].pc /\ a.pc = "done"
    BY <1>1 DEF IsCall, CallFields
  <2> HIDE DEF next, a
  <2> QED BY <2>1, <2>2
<1> QED BY <1>2, <1>3, <1>4, <1>5, <1>6, StepsOf

\* What an update writes, if what it read is what is stored.
LEMMA UpdateWritesWanted ==
  ASSUME Sound, ReadIsStored, SlugNamesEntity, NEW c \in Clients, UpdatesOne(c),
         request[c].id \notin contended \cup Imported
  PROVE  LET i == request[c].id
             m == Merged(i, Updates(c)) IN
         /\ i \in Stored /\ NamesItself(m)
         /\ m.type = Wanted(c).type /\ m.label = Wanted(c).label
<1> DEFINE i == request[c].id
           patch == request[c].patch
           m == Merged(i, Updates(c))
           read == call[c].read
<1>1. Shaped /\ Op(c) = "update" /\ call[c].pc = "write" /\ i \in Stored
  BY DEF Sound, UpdatesOne, UpdateEntity
<1>2. /\ m.type = IF Wanted(c).type # read.type THEN patch.type ELSE entities[i].type
      /\ m.label = IF patch.label # Keep THEN patch.label ELSE entities[i].label
      /\ m.slug = IF call[c].slug # <<>> THEN call[c].slug ELSE entities[i].slug
  BY <1>1, UpdateFields
<1>3. entities[i].type = read.type /\ entities[i].label = read.label /\ entities[i].slug = read.slug
  BY <1>1 DEF ReadIsStored, ReadFields
<1>4. /\ Wanted(c).type = IF patch.type = Keep THEN read.type ELSE patch.type
      /\ Wanted(c).label = IF patch.label = Keep THEN read.label ELSE patch.label
  BY <1>1 DEF Wanted
<1>5. \/ ~Renames(c) /\ call[c].slug = <<>>
      \/ /\ Renames(c) /\ call[c].slug \in Slugs
         /\ call[c].slug[1] = Wanted(c).type /\ call[c].slug[2] = Wanted(c).label
  BY <1>1 DEF Shaped, CallShaped, UpdateShaped
<1>6. NamesItself(entities[i])
  BY <1>1 DEF SlugNamesEntity
<1> HIDE DEF m
<1>7. m.type = Wanted(c).type /\ m.label = Wanted(c).label
  BY <1>2, <1>3, <1>4
<1>8. CASE ~Renames(c) /\ call[c].slug = <<>>
  <2>1. m.slug = entities[i].slug
    BY <1>2, <1>8
  <2>2. Wanted(c).type = read.type /\ Wanted(c).label = read.label
    BY <1>8 DEF Renames
  <2>3. NamesItself(m)
    BY <1>3, <1>6, <1>7, <2>1, <2>2 DEF NamesItself
  <2> QED BY <1>1, <1>7, <2>3 DEF m
<1>9. CASE call[c].slug \in Slugs /\ call[c].slug[1] = Wanted(c).type /\ call[c].slug[2] = Wanted(c).label
  <2>1. m.slug = call[c].slug
    BY <1>2, <1>9, SlugNotEmpty
  <2>2. NamesItself(m)
    BY <1>7, <1>9, <2>1 DEF NamesItself
  <2> QED BY <1>1, <1>7, <2>2 DEF m
<1> QED BY <1>5, <1>8, <1>9

LEMMA VectorFields ==
  ASSUME NEW i, NEW vector, ShapedEntity(entities[i])
  PROVE  LET m == Merged(i, [vector |-> vector]) IN
         /\ m.type = entities[i].type /\ m.label = entities[i].label /\ m.slug = entities[i].slug
         /\ m.content = entities[i].content /\ m.vector = vector
<1> DEFINE updates == [vector |-> vector]
           m == Merged(i, updates)
<1>1. DOMAIN updates = {"vector"} /\ updates["vector"] = vector
  OBVIOUS
<1> HIDE DEF updates
<1>2. m = [f \in EntityFields |-> IF f \in DOMAIN updates THEN updates[f] ELSE entities[i][f]]
  BY FieldsMerged
<1> HIDE DEF m
<1>3. /\ m.type = entities[i].type /\ m.label = entities[i].label /\ m.slug = entities[i].slug
      /\ m.content = entities[i].content /\ m.vector = vector
  BY <1>1, <1>2 DEF EntityFields
<1> QED BY <1>3 DEF m, updates

LEMMA WritesName ==
  ASSUME Sound, NamesInv, NEW c \in Clients, Writes(c), request' = request,
         contended \subseteq contended', Imported \subseteq Imported'
  PROVE  SlugNamesEntity'
<1> SUFFICES ASSUME NEW i \in Stored' \ (contended' \cup Imported')
             PROVE  NamesItself(entities'[i])
  BY DEF SlugNamesEntity, NamesItself
<1>1. StoreInv /\ SlugNamesEntity /\ i \notin contended \cup Imported
  BY DEF Sound, NamesInv
<1>2. ASSUME i \in Stored, entities'[i] = entities[i]
      PROVE  NamesItself(entities'[i])
  BY <1>1, <1>2 DEF SlugNamesEntity
<1>3. CASE UNCHANGED <<entities, slugIndex, order>>
  BY <1>2, <1>3 DEF Stored
<1>4. CASE CreatesOne(c)
  <2>1. PICK j \in Ids : \E e : CreateEntity(j, e) /\ NamesItself(e)
    BY <1>4 DEF CreatesOne
  <2>2. PICK e : CreateEntity(j, e) /\ NamesItself(e)
    BY <2>1
  <2>3. /\ Stored' = Stored \cup {j} /\ entities'[j] = e
        /\ \A k \in Stored : entities'[k] = entities[k]
    BY <2>2, CreateEffect
  <2> QED BY <1>2, <2>2, <2>3
<1>5. CASE UpdatesOne(c)
  <2>1. /\ Stored' = Stored /\ entities'[request[c].id] = Merged(request[c].id, Updates(c))
        /\ \A j \in Stored \ {request[c].id} : entities'[j] = entities[j]
    BY <1>1, <1>5, UpdateEffect DEF UpdatesOne
  <2>2. CASE i = request[c].id
    BY <1>1, <1>5, <2>1, <2>2, UpdateWritesWanted DEF NamesInv
  <2> QED BY <1>2, <2>1, <2>2
<1>6. CASE VectorOne(c)
  <2>1. PICK j, vector : UpdateEntity(j, [vector |-> vector])
    BY <1>6 DEF VectorOne
  <2> DEFINE m == Merged(j, [vector |-> vector])
  <2>2. /\ Stored' = Stored /\ entities'[j] = m /\ j \in Stored
        /\ \A k \in Stored \ {j} : entities'[k] = entities[k]
    BY <1>1, <2>1, UpdateEffect
  <2>3. ShapedEntity(entities[j])
    BY <2>2 DEF Sound, Shaped, EntitiesShaped
  <2>4. m.type = entities[j].type /\ m.label = entities[j].label /\ m.slug = entities[j].slug
    BY <2>3, VectorFields
  <2> HIDE DEF m
  <2>5. CASE i = j
    BY <1>1, <2>2, <2>4, <2>5 DEF SlugNamesEntity, NamesItself
  <2> QED BY <1>2, <2>2, <2>5
<1>7. CASE ImportsOne(c)
  <2>1. PICK j \in Ids :
          /\ \/ \E e : CreateEntity(j, e) \/ ImportEntity(j, e)
             \/ \E updates : UpdateEntity(j, updates)
          /\ j \in call'[c].wrote
    BY <1>7 DEF ImportsOne
  <2>2. j \in Imported'
    BY <1>7, <2>1 DEF ImportsOne, Imported, Op
  <2>3. /\ Stored' = Stored \cup {j}
        /\ \A k \in Stored \ {j} : entities'[k] = entities[k]
    BY <1>1, <2>1, CreateEffect, ImportEffect, UpdateEffect
  <2> QED BY <1>2, <2>2, <2>3
<1>8. CASE DeletesSome(c)
  <2>1. Stored' \subseteq Stored /\ \A j \in Stored' : entities'[j] = entities[j]
    BY <1>8, DeleteEffect DEF DeletesSome
  <2> QED BY <1>2, <2>1
<1>9. CASE PurgesSome(c)
  <2>1. Stored' \subseteq Stored /\ \A j \in Stored' : entities'[j] = entities[j]
    BY <1>9, DeleteEffect, ClearEffect DEF PurgesSome
  <2> QED BY <1>2, <2>1
<1> QED BY <1>3, <1>4, <1>5, <1>6, <1>7, <1>8, <1>9 DEF Writes

LEMMA StepKeepsNames ==
  ASSUME Sound, Sound', NamesInv, NEW c \in Clients, Step(c) \/ ImportStep(c),
         contended' = contended \cup Contention'
  PROVE  NamesInv'
<1>1. /\ request' = request /\ unheard \subseteq unheard'
      /\ \A d \in Clients \ {c} : call'[d] = call[d]
  BY StepFrame DEF Sound
<1>2. contended \subseteq contended' /\ Imported \subseteq Imported' /\ Writes(c)
  BY ImportedGrows, StepWrites DEF Sound
<1>3. ContentionNoted'
  BY StepNotesContention DEF Sound
<1>4. SlugNamesEntity'
  BY <1>1, <1>2, WritesName
<1>5. ReadIsStored'
  <2> SUFFICES ASSUME NEW d \in Clients, Op(d)' = "update", call'[d].pc \in {"hook", "pick", "write"},
                      request'[d].id \in Stored' \ (contended' \cup Imported'), NEW f \in ReadFields
               PROVE  entities'[request'[d].id][f] = call'[d].read[f]
    BY DEF ReadIsStored
  <2> DEFINE i == request[d].id
  <2>1. Op(d) = "update" /\ request'[d].id = i
    BY <1>1 DEF Op
  <2>2. ASSUME i \in Stored, entities'[i] = entities[i], call[d].pc \in {"hook", "pick", "write"},
               call'[d].read = call[d].read
        PROVE  entities'[i][f] = call'[d].read[f]
    BY <1>2, <2>1, <2>2 DEF NamesInv, ReadIsStored
  <2>3. CASE d = c
    <3>1. /\ entities' = entities
          /\ \/ call'[c].read = entities[request[c].id]
             \/ call[c].pc \in {"hook", "pick", "write"} /\ call'[c].read = call[c].read
      BY <2>1, <2>3, UpdateReads DEF Sound
    <3> QED BY <2>1, <2>2, <2>3, <3>1 DEF Stored
  <2>4. CASE d # c
    <3>1. call'[d] = call[d] /\ i \in WorksOn(d)
      BY <1>1, <2>1, <2>4 DEF WorksOn, Running
    <3>2. i \in Stored /\ entities'[i] = entities[i]
      BY <1>2, <1>3, <2>1, <2>4, <3>1, OthersKeepIt DEF NamesInv
    <3> QED BY <2>1, <2>2, <3>1, <3>2
  <2> QED BY <2>3, <2>4
<1> QED BY <1>3, <1>4, <1>5 DEF NamesInv

LEMMA StutterKeepsNames ==
  ASSUME NamesInv, UNCHANGED vars
  PROVE  NamesInv'
BY DEF NamesInv, ContentionNoted, ReadIsStored, SlugNamesEntity, NamesItself, WorksOn, Running,
       Op, Imported, Stored, vars, storeVars, aside

LEMMA InitHasNames ==
  ASSUME Init
  PROVE  NamesInv
<1>1. PICK plan \in Plans : entities = plan.entities
  BY DEF Init
<1>2. \A i \in Stored : NamesItself(entities[i])
  BY <1>1, RepositoryAssumption DEF Stored
<1>3. \A c \in Clients : call[c].pc = "idle"
  BY NoCallFields DEF Init
<1> QED BY <1>2, <1>3 DEF NamesInv, ContentionNoted, ReadIsStored, SlugNamesEntity, WorksOn, Running

LEMMA CallsKeepNames == ImportSpec => [](Sound /\ NamesInv)
<1>1. Init => NamesInv
  BY InitHasNames
<1>2. Sound /\ Sound' /\ NamesInv /\ [ImportNext]_vars => NamesInv'
  BY StepKeepsNames, StutterKeepsNames DEF ImportNext
<1> QED BY <1>1, <1>2, CallsStaySound, PTL DEF ImportSpec

\* An entity's slug names its type and its label whatever calls run side by side, refused
\* slugs and new candidates included, if no two of them worked on the entity at once and
\* no archive wrote it (createSlugPicker, writeWithSlugRetry, EntityManager.update).
THEOREM SlugsNameEntities == ImportSpec => []SlugNamesEntity
BY CallsKeepNames, PTL DEF NamesInv

-----------------------------------------------------------------------------
\* The search index: what it is to hold of an entity, and what is on its way there.
Doc(i) == IF i \in Stored THEN <<Document(entities[i])>> ELSE <<>>

Indexes(c) == Op(c) \in {"create", "update", "delete"}

HasDocument(i) ==
  /\ i \in Stored <=> i \in DOMAIN documents
  /\ i \in Stored => documents[i] = Document(entities[i])

\* Whatever waits to be indexed is right by now, and what does not wait has been.
IndexInv ==
  /\ \A c \in Clients : Op(c) = "create" => \A x \in ToSet(call[c].todo) : x.document # <<>>
  /\ \A i \in Ids \ (contended \cup announced \cup unheard) :
       /\ \A c \in Clients : Indexes(c) =>
            \A x \in ToSet(call[c].todo) : x.id = i => x.document = Doc(i)
       /\ (\A c \in Clients : Indexes(c) => i \notin Indexed(c)) => HasDocument(i)

LEMMA IndexedIsWork ==
  ASSUME Shaped, NEW c \in Clients, Indexes(c), NEW i \in Indexed(c)
  PROVE  i \in WorksOn(c)
<1>1. call[c].todo # <<>>
  BY EmptyIsSeq DEF Indexed
<1>2. CreateShaped(c) /\ UpdateShaped(c) /\ DeleteShaped(c)
  BY DEF Shaped, CallShaped
<1>3. CASE Op(c) = "create"
  BY <1>1, <1>2, <1>3 DEF CreateShaped, WorksOn, Running
<1>4. CASE Op(c) = "update"
  BY <1>1, <1>2, <1>4 DEF UpdateShaped, WorksOn, Running
<1>5. CASE Op(c) = "delete"
  BY <1>1, <1>2, <1>5 DEF DeleteShaped, WorksOn, Running
<1> QED BY <1>3, <1>4, <1>5 DEF Indexes

\* A write that changes what the index is to hold puts it in the queue, or is one that
\* nobody tells the index.
LEMMA WriteIsTold ==
  ASSUME Sound, NEW c \in Clients, Writes(c), request' = request, NEW i, i \notin unheard',
         Indexes(c) => i \notin Indexed(c)'
  PROVE  /\ i \in Stored' <=> i \in Stored
         /\ i \in Stored => Document(entities'[i]) = Document(entities[i])
<1>1. StoreInv
  BY DEF Sound
<1>2. CASE UNCHANGED <<entities, slugIndex, order>>
  BY <1>2 DEF Stored
<1>3. CASE CreatesOne(c)
  <2>1. PICK j \in Ids : (\E e : CreateEntity(j, e)) /\ j \in Indexed(c)'
    BY <1>3 DEF CreatesOne
  <2>2. Stored' = Stored \cup {j} /\ \A k \in Stored : entities'[k] = entities[k]
    BY <2>1, CreateEffect
  <2>3. i # j
    BY <1>3, <2>1 DEF CreatesOne, Indexes
  <2> QED BY <2>2, <2>3
<1>4. CASE UpdatesOne(c)
  <2>1. /\ Stored' = Stored
        /\ \A j \in Stored \ {request[c].id} : entities'[j] = entities[j]
    BY <1>1, <1>4, UpdateEffect DEF UpdatesOne
  <2>2. i # request[c].id
    BY <1>4 DEF UpdatesOne, Indexes
  <2> QED BY <2>1, <2>2
<1>5. CASE VectorOne(c)
  <2>1. PICK j, vector : UpdateEntity(j, [vector |-> vector])
    BY <1>5 DEF VectorOne
  <2> DEFINE m == Merged(j, [vector |-> vector])
  <2>2. /\ Stored' = Stored /\ entities'[j] = m /\ j \in Stored
        /\ \A k \in Stored \ {j} : entities'[k] = entities[k]
    BY <1>1, <2>1, UpdateEffect
  <2>3. ShapedEntity(entities[j])
    BY <2>2 DEF Sound, Shaped, EntitiesShaped
  <2>4. m.type = entities[j].type /\ m.label = entities[j].label /\ m.content = entities[j].content
    BY <2>3, VectorFields
  <2> HIDE DEF m
  <2>5. Document(m) = Document(entities[j])
    BY <2>4 DEF Document
  <2> QED BY <2>2, <2>5
<1>6. CASE ImportsOne(c)
  <2>1. PICK j \in Ids :
          /\ \/ \E e : CreateEntity(j, e) \/ ImportEntity(j, e)
             \/ \E updates : UpdateEntity(j, updates)
          /\ j \in unheard'
    BY <1>6 DEF ImportsOne
  <2>2. /\ Stored' = Stored \cup {j}
        /\ \A k \in Stored \ {j} : entities'[k] = entities[k]
    BY <1>1, <2>1, CreateEffect, ImportEffect, UpdateEffect
  <2> QED BY <2>1, <2>2
<1>7. CASE DeletesSome(c)
  <2>1. Stored' = Stored \ request[c].ids /\ \A j \in Stored' : entities'[j] = entities[j]
    BY <1>7, DeleteEffect DEF DeletesSome
  <2>2. i \notin request[c].ids \cap Stored
    BY <1>7 DEF DeletesSome, Indexes
  <2> QED BY <2>1, <2>2
<1>8. CASE PurgesSome(c)
  <2>1. Stored' \subseteq Stored /\ \A j \in Stored' : entities'[j] = entities[j]
    BY <1>8, DeleteEffect, ClearEffect DEF PurgesSome
  <2> QED BY <1>8, <2>1 DEF PurgesSome
<1> QED BY <1>2, <1>3, <1>4, <1>5, <1>6, <1>7, <1>8 DEF Writes

\* What a step other than indexing does to the queue of its call: it adds what the store
\* holds now.
QueueGrows(c) ==
  /\ documents' = documents /\ announced' = announced
  /\ ToSet(call[c].todo) \subseteq ToSet(call'[c].todo)
  /\ \A x \in ToSet(call'[c].todo) \ ToSet(call[c].todo) :
       x.document = Doc(x.id)' /\ (Op(c) = "create" => x.document # <<>>)
  /\ \/ call[c].todo = <<>> \/ entities' = entities
     \/ Op(c) = "create" /\ \A j \in Stored : j \in Stored' /\ entities'[j] = entities[j]

LEMMA QueueStays ==
  ASSUME NEW c, documents' = documents, announced' = announced, call'[c].todo = call[c].todo,
         call[c].todo = <<>> \/ entities' = entities
  PROVE  QueueGrows(c)
BY DEF QueueGrows

LEMMA CreateQueues ==
  ASSUME Shaped, NEW c \in Clients, WriteCreate(c)
  PROVE  QueueGrows(c)
<1> DEFINE input == request[c].inputs[call[c].member]
           i == IF input.id = Mint THEN minted + 1 ELSE input.id
           e == [type |-> input.type, label |-> input.label, slug |-> call[c].slug,
                 content |-> input.content, vector |-> call[c].vector]
           wrote == WroteMember(c, i, e)
           x == [id |-> i, document |-> <<Document(e)>>]
           next == NextMember(c, wrote)
           failed == Failed(wrote, "handler")
           duplicate == Failed(call[c], "duplicate")
           conflict == SlugConflict(c)
<1>1. /\ Op(c) = "create" /\ call[c].pc = "write"
      /\ \/ CreateEntity(i, e) /\ call'[c] \in {next, failed}
         \/ call'[c] \in {duplicate, conflict} /\ entities' = entities
      /\ documents' = documents /\ announced' = announced
  BY OwnRecord DEF WriteCreate, HandlerFails, aside, storeVars
<1>2. IsCall(call[c]) /\ IsSeq(call[c].todo)
  BY <1>1 DEF Shaped, CallShaped, CreateShaped
<1>3. duplicate.todo = call[c].todo /\ conflict.todo = call[c].todo
  BY <1>2, FailedFields, ConflictFields DEF Same, CallFields
<1> HIDE DEF i, e, duplicate, conflict
<1>4. IsCall(wrote) /\ wrote.todo = Append(call[c].todo, x)
  BY <1>2, WroteFields
<1> HIDE DEF wrote
<1>5. next.todo = wrote.todo /\ failed.todo = wrote.todo
  BY <1>4, NextMemberFields, FailedFields DEF Same, CallFields
<1> HIDE DEF next, failed
<1>6. CASE call'[c] \in {duplicate, conflict} /\ entities' = entities
  BY <1>1, <1>3, <1>6, QueueStays
<1>7. CASE CreateEntity(i, e) /\ call'[c] \in {next, failed}
  <2>1. call'[c].todo = Append(call[c].todo, x)
    BY <1>4, <1>5, <1>7
  <2>2. x.id = i /\ x.document = <<Document(e)>> /\ x.document # <<>>
    OBVIOUS
  <2> HIDE DEF x
  <2>3. ToSet(call'[c].todo) = ToSet(call[c].todo) \cup {x}
    BY <1>2, <2>1, AppendIsSeq
  <2>4. /\ i \in Stored' /\ entities'[i] = e
        /\ \A j \in Stored : j \in Stored' /\ entities'[j] = entities[j]
    BY <1>7, CreateEffect
  <2>5. \A y : y = x => y.document = Doc(y.id)'
    BY <2>2, <2>4 DEF Doc, Document
  <2> QED BY <1>1, <2>2, <2>3, <2>4, <2>5 DEF QueueGrows
<1> QED BY <1>1, <1>6, <1>7

LEMMA UpdateQueues ==
  ASSUME Sound, NEW c \in Clients, WriteUpdate(c)
  PROVE  QueueGrows(c)
<1> DEFINE i == request[c].id
           m == Merged(i, Updates(c))
           x == [id |-> i, document |-> <<Document(m)>>]
           next == [Indexing(call[c], "updated") EXCEPT !.todo = <<x>>]
           conflict == SlugConflict(c)
<1>1. /\ Op(c) = "update" /\ call[c].pc = "write"
      /\ \/ UpdateEntity(i, Updates(c)) /\ call'[c] = next
         \/ \E reply : call'[c] = Answer(call[c], reply)
         \/ call'[c] = conflict
      /\ documents' = documents /\ announced' = announced
  BY OwnRecord DEF WriteUpdate, aside, Sound
<1>2. IsCall(call[c]) /\ call[c].todo = <<>>
  BY <1>1 DEF Sound, Shaped, CallShaped, UpdateShaped
<1>3. conflict.todo = call[c].todo
  BY <1>2, ConflictFields DEF Same, CallFields
<1>4. \A reply : Answer(call[c], reply).todo = call[c].todo
  BY <1>2, AnswerFields DEF Same, CallFields
<1>5. x.id = i /\ x.document = <<Document(m)>>
  OBVIOUS
<1> HIDE DEF x
<1>6. ToSet(next.todo) = {x}
  BY <1>2, UpdatedFields
<1> HIDE DEF next, conflict, m
<1>7. CASE UpdateEntity(i, Updates(c)) /\ call'[c] = next
  <2>1. i \in Stored' /\ entities'[i] = m
    BY <1>7, UpdateEffect DEF Sound, m
  <2>2. \A y : y = x => y.document = Doc(y.id)'
    BY <1>5, <2>1 DEF Doc, Document
  <2> QED BY <1>1, <1>2, <1>6, <1>7, <2>2, EmptyIsSeq DEF QueueGrows
<1>8. CASE call'[c].todo = call[c].todo
  BY <1>1, <1>2, <1>8, QueueStays
<1> QED BY <1>1, <1>3, <1>4, <1>7, <1>8

LEMMA DeleteQueues ==
  ASSUME Sound, NEW c \in Clients, Delete(c)
  PROVE  QueueGrows(c)
<1> DEFINE ids == request[c].ids
           gone == ids \cap Stored
           remove == [i \in gone |-> [id |-> i, document |-> <<>>]]
           next == [Indexing(call[c], "deleted") EXCEPT
                      !.todo = SetToSeq({remove[i] : i \in gone}), !.failed = ids \ gone]
<1>1. /\ Op(c) = "delete" /\ call[c].pc = "idle"
      /\ \/ DeleteEntities(ids) /\ call'[c] = next
         \/ \E reply : call'[c] = Answer(call[c], reply)
      /\ documents' = documents /\ announced' = announced
  BY OwnRecord DEF Delete, Sound
<1>2. IsCall(call[c]) /\ call[c].todo = <<>>
  BY <1>1 DEF Sound, Shaped, CallShaped, DeleteShaped
<1>3. \A reply : Answer(call[c], reply).todo = call[c].todo
  BY <1>2, AnswerFields DEF Same, CallFields
<1>4. ToSet(next.todo) = {[id |-> i, document |-> <<>>] : i \in gone}
  BY DeletedFields DEF Sound
<1> HIDE DEF next
<1>5. CASE DeleteEntities(ids) /\ call'[c] = next
  <2>1. Stored' = Stored \ ids
    BY <1>5, DeleteEffect
  <2>2. ASSUME NEW x \in ToSet(call'[c].todo)
        PROVE  x.document = Doc(x.id)'
    <3>1. PICK i \in gone : x = [id |-> i, document |-> <<>>]
      BY <1>4, <1>5, <2>2
    <3>2. x.id = i /\ x.document = <<>> /\ i \notin Stored'
      BY <2>1, <3>1
    <3> QED BY <3>2 DEF Doc
  <2> QED BY <1>1, <1>2, <2>2, EmptyIsSeq DEF QueueGrows
<1>6. CASE call'[c].todo = call[c].todo
  BY <1>1, <1>2, <1>6, QueueStays
<1> QED BY <1>1, <1>3, <1>5, <1>6

LEMMA OwnQueue ==
  ASSUME Sound, NEW c \in Clients, Step(c) \/ ImportStep(c), Indexes(c), ~Index(c)
  PROVE  QueueGrows(c)
<1>1. IsCall(call[c]) /\ Shaped
  BY DEF Sound, Shaped, CallShaped
<1>2. CASE BeginCreate(c)
  <2> DEFINE next == [call[c] EXCEPT !.pc = "hook"]
             a == Answer(call[c], "created")
  <2>1. /\ call'[c] \in {next, a} /\ entities' = entities
        /\ documents' = documents /\ announced' = announced
    BY <1>1, <1>2, OwnRecord DEF BeginCreate, storeVars, aside
  <2>2. next.todo = call[c].todo
    BY <1>1 DEF IsCall, CallFields
  <2>3. a.todo = call[c].todo
    BY <1>1, AnswerFields DEF Same, CallFields
  <2> HIDE DEF next, a
  <2> QED BY <2>1, <2>2, <2>3, QueueStays
<1>3. CASE BeginUpdate(c)
  <2> DEFINE next == [call[c] EXCEPT !.pc = "hook", !.read = entities[request[c].id]]
             a == Answer(call[c], "not_found")
  <2>1. /\ call'[c] \in {next, a} /\ entities' = entities
        /\ documents' = documents /\ announced' = announced
    BY <1>1, <1>3, OwnRecord DEF BeginUpdate, storeVars, aside
  <2>2. next.todo = call[c].todo
    BY <1>1 DEF IsCall, CallFields
  <2>3. a.todo = call[c].todo
    BY <1>1, AnswerFields DEF Same, CallFields
  <2> HIDE DEF next, a
  <2> QED BY <2>1, <2>2, <2>3, QueueStays
<1>4. CASE Hook(c)
  <2> DEFINE pick == [call[c] EXCEPT !.pc = "pick", !.n = 1, !.refused = {}]
             write == [call[c] EXCEPT !.pc = "write", !.vector = Embeds(c)]
             a == Failed(call[c], "cancelled")
  <2>1. /\ call'[c] \in {pick, write, a} /\ entities' = entities
        /\ documents' = documents /\ announced' = announced
    BY <1>1, <1>4, OwnRecord DEF Hook, storeVars, aside
  <2>2. pick.todo = call[c].todo /\ write.todo = call[c].todo
    BY <1>1 DEF IsCall, CallFields
  <2>3. a.todo = call[c].todo
    BY <1>1, FailedFields DEF Same, CallFields
  <2> HIDE DEF pick, write, a
  <2> QED BY <2>1, <2>2, <2>3, QueueStays
<1>5. CASE PickSlug(c)
  <2> DEFINE again == [call[c] EXCEPT !.n = @ + 1]
             write == [call[c] EXCEPT !.pc = "write", !.slug = Candidate(c),
                         !.vector = IF call[c].refused = {} THEN Embeds(c) ELSE @]
  <2>1. /\ call'[c] \in {again, write} /\ entities' = entities
        /\ documents' = documents /\ announced' = announced
    BY <1>1, <1>5, OwnRecord DEF PickSlug, storeVars, aside
  <2>2. again.todo = call[c].todo /\ write.todo = call[c].todo
    BY <1>1 DEF IsCall, CallFields
  <2> HIDE DEF again, write
  <2> QED BY <2>1, <2>2, QueueStays
<1>6. CASE Return(c)
  <2> DEFINE next == [call[c] EXCEPT !.pc = "done"]
  <2>1. /\ call'[c] = next /\ entities' = entities
        /\ documents' = documents /\ announced' = announced
    BY <1>1, <1>6, OwnRecord DEF Return, storeVars, aside
  <2>2. next.todo = call[c].todo
    BY <1>1 DEF IsCall, CallFields
  <2> HIDE DEF next
  <2> QED BY <2>1, <2>2, QueueStays
<1> QED BY <1>1, <1>2, <1>3, <1>4, <1>5, <1>6, CreateQueues, UpdateQueues, DeleteQueues, StepsOf
        DEF Indexes

LEMMA OthersQueue ==
  ASSUME Shaped, NEW c \in Clients, Step(c) \/ ImportStep(c), ~Indexes(c)
  PROVE  documents' = documents /\ announced' = announced
<1>1. ~Hook(c) /\ ~PickSlug(c) /\ ~Index(c) /\ ~Return(c)
  BY OpAt DEF Indexes, Hook, PickSlug, Index, Return
<1>2. ~BeginCreate(c) /\ ~BeginUpdate(c) /\ ~WriteCreate(c) /\ ~WriteUpdate(c) /\ ~Delete(c)
  BY DEF Indexes, BeginCreate, BeginUpdate, WriteCreate, WriteUpdate, Delete
<1>3. CASE BeginReembed(c) \/ Page(c)
  BY <1>3 DEF BeginReembed, Page
<1>4. CASE WriteVector(c)
  BY <1>4 DEF WriteVector, aside
<1>5. CASE BeginRelate(c) \/ WriteRelationship(c) \/ RemoveRelationships(c)
  BY <1>5 DEF BeginRelate, WriteRelationship, RemoveRelationships, aside
<1>6. CASE Purge(c)
  BY <1>6 DEF Purge
<1>7. CASE BeginImport(c) \/ LookUp(c) \/ TrySlug(c) \/ LookUpRelationship(c) \/ MergeRelationship(c)
  BY <1>7 DEF BeginImport, LookUp, TrySlug, LookUpRelationship, MergeRelationship, aside
<1>8. CASE ImportRow(c) \/ MergeEntity(c)
  BY <1>8 DEF ImportRow, MergeEntity
<1> QED BY <1>1, <1>2, <1>3, <1>4, <1>5, <1>6, <1>7, <1>8 DEF Step, ImportStep

LEMMA ImportedIsUnheard ==
  Shaped => Imported \subseteq unheard
BY DEF Shaped, CallShaped, ImportShaped, Imported

\* Indexing takes the head of the queue.
LEMMA IndexTakesHead ==
  ASSUME Sound, NEW c \in Clients, Index(c)
  PROVE  LET next == Head(call[c].todo) IN
         /\ Indexes(c) /\ entities' = entities
         /\ ToSet(call[c].todo) = ToSet(call'[c].todo) \cup {next}
         /\ \/ /\ announced' = announced
               /\ documents' = IF next.document = <<>> THEN Drop(documents, {next.id})
                               ELSE Put(documents, next.id, next.document[1])
            \/ documents' = documents /\ announced' = announced \cup {next.id}
<1> DEFINE next == [call[c] EXCEPT !.todo = Tail(@)]
<1>1. /\ call[c].pc = "index" /\ call[c].todo # <<>> /\ call'[c] = next /\ entities' = entities
      /\ \/ /\ announced' = announced
            /\ documents' = IF Head(call[c].todo).document = <<>>
                            THEN Drop(documents, {Head(call[c].todo).id})
                            ELSE Put(documents, Head(call[c].todo).id, Head(call[c].todo).document[1])
         \/ documents' = documents /\ announced' = announced \cup {Head(call[c].todo).id}
  BY OwnRecord DEF Index, storeVars, Sound
<1>2. Indexes(c)
  BY <1>1, OpAt DEF Indexes, Sound
<1>3. IsCall(call[c]) /\ IsSeq(call[c].todo)
  BY <1>2 DEF Indexes, Sound, Shaped, CallShaped, CreateShaped, UpdateShaped, DeleteShaped
<1>4. next.todo = Tail(call[c].todo)
  BY <1>3 DEF IsCall, CallFields
<1> HIDE DEF next
<1>5. ToSet(call[c].todo) = ToSet(call'[c].todo) \cup {Head(call[c].todo)}
  BY <1>1, <1>3, <1>4, TailIsSeq
<1> QED BY <1>1, <1>2, <1>5

\* An entity as the other calls leave it, seen from the call that works on it.
LEMMA OthersKeepDoc ==
  ASSUME Sound, Sound', ContentionNoted, ContentionNoted', contended \subseteq contended',
         NEW c \in Clients, NEW d \in Clients \ {c}, Step(c) \/ ImportStep(c), Indexes(d),
         NEW i \in Indexed(d), i \notin contended' \cup unheard'
  PROVE  Doc(i)' = Doc(i)
<1>1. i \in WorksOn(d) /\ i \notin Imported'
  <2>1. Shaped'
    BY DEF Sound
  <2>2. (Imported \subseteq unheard)'
    BY <2>1, ImportedIsUnheard, PTL
  <2> QED BY <2>2, IndexedIsWork DEF Sound
<1>2. /\ i \in Stored' => i \in Stored /\ entities'[i] = entities[i]
      /\ i \notin Stored \ Stored'
  BY <1>1, OthersKeepIt
<1> QED BY <1>2 DEF Doc, Document

LEMMA StepKeepsIndex ==
  ASSUME Sound, Sound', NamesInv, NamesInv', IndexInv, NEW c \in Clients, Step(c) \/ ImportStep(c),
         contended \subseteq contended'
  PROVE  IndexInv'
<1>1. /\ request' = request /\ unheard \subseteq unheard'
      /\ \A d \in Clients \ {c} : call'[d] = call[d]
      /\ Shaped /\ Writes(c)
  BY StepFrame, StepWrites DEF Sound
<1>2. \A d \in Clients : Op(d)' = Op(d) /\ Indexes(d)' = Indexes(d)
  BY <1>1 DEF Op, Indexes
<1>3. \A d \in Clients \ {c} : Indexed(d)' = Indexed(d)
  BY <1>1 DEF Indexed
<1>4. announced \subseteq announced'
  <2>1. CASE Index(c)
    BY <2>1, IndexTakesHead
  <2>2. CASE ~Index(c)
    BY <1>1, <2>2, OwnQueue, OthersQueue DEF QueueGrows
  <2> QED BY <2>1, <2>2
<1>5. ASSUME NEW d \in Clients, Op(d) = "create", NEW x \in ToSet(call'[d].todo)
      PROVE  x.document # <<>>
  <2>1. CASE d # c
    BY <1>1, <1>5, <2>1 DEF IndexInv
  <2>2. CASE d = c /\ Index(c)
    BY <1>5, <2>2, IndexTakesHead DEF IndexInv
  <2>3. CASE d = c /\ ~Index(c)
    <3>1. QueueGrows(c)
      BY <1>5, <2>3, OwnQueue DEF Indexes
    <3> QED BY <1>5, <2>3, <3>1 DEF QueueGrows, IndexInv
  <2> QED BY <2>1, <2>2, <2>3
<1>6. ASSUME NEW i \in Ids, i \notin contended' \cup announced' \cup unheard',
             NEW d \in Clients, Indexes(d), NEW x \in ToSet(call'[d].todo), x.id = i
      PROVE  x.document = Doc(i)'
  <2>1. ASSUME x \in ToSet(call[d].todo)
        PROVE  x.document = Doc(i)
    BY <1>1, <1>4, <1>6, <2>1 DEF IndexInv
  <2>2. CASE d # c
    <3>1. x \in ToSet(call[d].todo) /\ i \in Indexed(d)
      BY <1>1, <1>6, <2>2 DEF Indexed
    <3>2. Doc(i)' = Doc(i)
      BY <1>6, <2>2, <3>1, OthersKeepDoc DEF NamesInv
    <3> QED BY <2>1, <3>1, <3>2
  <2>3. CASE d = c /\ Index(c)
    <3>1. x \in ToSet(call[d].todo) /\ entities' = entities
      BY <1>6, <2>3, IndexTakesHead
    <3>2. Doc(i)' = Doc(i)
      BY <3>1 DEF Doc, Stored, Document
    <3> QED BY <2>1, <3>1, <3>2
  <2>4. CASE d = c /\ ~Index(c)
    <3>1. QueueGrows(c)
      BY <1>6, <2>4, OwnQueue
    <3>2. CASE x \notin ToSet(call[c].todo)
      BY <1>6, <2>4, <3>1, <3>2 DEF QueueGrows
    <3>3. CASE x \in ToSet(call[c].todo)
      <4>1. x.document = Doc(i) /\ call[c].todo # <<>>
        BY <2>1, <2>4, <3>3, EmptyIsSeq
      <4>2. CASE entities' = entities
        <5>1. Doc(i)' = Doc(i)
          BY <4>2 DEF Doc, Stored, Document
        <5> QED BY <4>1, <5>1
      <4>3. CASE Op(c) = "create" /\ \A j \in Stored : j \in Stored' /\ entities'[j] = entities[j]
        <5>1. x.document # <<>>
          BY <3>3, <4>3 DEF IndexInv
        <5>2. i \in Stored
          BY <4>1, <5>1 DEF Doc
        <5>3. Doc(i)' = Doc(i)
          BY <4>3, <5>2 DEF Doc, Document
        <5> QED BY <4>1, <5>3
      <4> QED BY <3>1, <4>1, <4>2, <4>3 DEF QueueGrows
    <3> QED BY <3>2, <3>3
  <2> QED BY <2>2, <2>3, <2>4
<1>7. ASSUME NEW i \in Ids, i \notin contended' \cup announced' \cup unheard',
             \A d \in Clients : Indexes(d) => i \notin Indexed(d)'
      PROVE  HasDocument(i)'
  <2>1. i \notin contended \cup announced \cup unheard
    BY <1>1, <1>4, <1>7
  <2>2. CASE Index(c)
    <3> DEFINE next == Head(call[c].todo)
    <3>1. /\ Indexes(c) /\ entities' = entities
          /\ ToSet(call[c].todo) = ToSet(call'[c].todo) \cup {next}
          /\ \/ /\ announced' = announced
                /\ documents' = IF next.document = <<>> THEN Drop(documents, {next.id})
                                ELSE Put(documents, next.id, next.document[1])
             \/ documents' = documents /\ announced' = announced \cup {next.id}
      BY <2>2, IndexTakesHead
    <3> HIDE DEF next
    <3>2. CASE next.id = i
      <4>1. next.document = Doc(i)
        BY <2>1, <3>1, <3>2 DEF IndexInv
      <4>2. documents' = IF next.document = <<>> THEN Drop(documents, {i})
                         ELSE Put(documents, i, next.document[1])
        BY <1>7, <3>1, <3>2
      <4>3. CASE i \in Stored
        <5>1. next.document = <<Document(entities[i])>>
          BY <4>1, <4>3 DEF Doc
        <5>2. next.document # <<>> /\ next.document[1] = Document(entities[i])
          BY <5>1
        <5>3. documents' = Put(documents, i, Document(entities[i]))
          BY <4>2, <5>2
        <5>4. i \in DOMAIN documents' /\ documents'[i] = Document(entities[i])
          BY <5>3 DEF Put
        <5>5. i \in Stored' /\ Document(entities'[i]) = Document(entities[i])
          BY <3>1, <4>3 DEF Stored, Document
        <5> QED BY <5>4, <5>5 DEF HasDocument, Document
      <4>4. CASE i \notin Stored
        <5>1. documents' = Drop(documents, {i})
          BY <4>1, <4>2, <4>4 DEF Doc
        <5>2. i \notin DOMAIN documents'
          BY <5>1 DEF Drop
        <5>3. i \notin Stored'
          BY <3>1, <4>4 DEF Stored
        <5> QED BY <5>2, <5>3 DEF HasDocument
      <4> QED BY <4>3, <4>4
    <3>3. CASE next.id # i
      <4>1. Indexed(c) = Indexed(c)' \cup {next.id}
        BY <3>1 DEF Indexed
      <4>2. \A d \in Clients : Indexes(d) => i \notin Indexed(d)
        BY <1>3, <1>7, <3>3, <4>1
      <4>3. HasDocument(i)
        BY <2>1, <4>2 DEF IndexInv
      <4>4. /\ i \in DOMAIN documents' <=> i \in DOMAIN documents
            /\ i \in DOMAIN documents => documents'[i] = documents[i]
        <5>1. CASE documents' = documents
          BY <5>1
        <5>2. CASE documents' = Drop(documents, {next.id})
          BY <3>3, <5>2 DEF Drop
        <5>3. CASE documents' = Put(documents, next.id, next.document[1])
          BY <3>3, <5>3 DEF Put
        <5> QED BY <3>1, <5>1, <5>2, <5>3
      <4>5. Stored' = Stored /\ entities' = entities
        BY <3>1 DEF Stored
      <4> QED BY <4>3, <4>4, <4>5 DEF HasDocument, Document
    <3> QED BY <3>2, <3>3
  <2>3. CASE ~Index(c)
    <3>1. documents' = documents
      BY <1>1, <2>3, OwnQueue, OthersQueue DEF QueueGrows
    <3>2. Indexes(c) => Indexed(c) \subseteq Indexed(c)'
      <4>1. Indexes(c) => ToSet(call[c].todo) \subseteq ToSet(call'[c].todo)
        BY <2>3, OwnQueue DEF QueueGrows
      <4> QED BY <4>1 DEF Indexed
    <3>3. \A d \in Clients : Indexes(d) => i \notin Indexed(d)
      BY <1>3, <1>7, <3>2
    <3>4. HasDocument(i)
      BY <2>1, <3>3 DEF IndexInv
    <3>5. /\ i \in Stored' <=> i \in Stored
          /\ i \in Stored => Document(entities'[i]) = Document(entities[i])
      BY <1>1, <1>7, WriteIsTold
    <3> QED BY <3>1, <3>4, <3>5 DEF HasDocument, Document
  <2> QED BY <2>2, <2>3
<1>8. \A d \in Clients : Op(d)' = "create" => \A x \in ToSet(call'[d].todo) : x.document # <<>>
  BY <1>2, <1>5
<1>9. ASSUME NEW i \in (Ids \ (contended' \cup announced' \cup unheard'))
      PROVE  /\ \A d \in Clients : Indexes(d)' =>
                  \A x \in ToSet(call'[d].todo) : x.id = i => x.document = Doc(i)'
             /\ (\A d \in Clients : Indexes(d)' => i \notin Indexed(d)') => HasDocument(i)'
  <2>1. \A d \in Clients : Indexes(d)' =>
          \A x \in ToSet(call'[d].todo) : x.id = i => x.document = Doc(i)'
    BY <1>2, <1>6
  <2>2. (\A d \in Clients : Indexes(d)' => i \notin Indexed(d)') => HasDocument(i)'
    BY <1>2, <1>7
  <2> QED BY <2>1, <2>2
<1> QED BY <1>8, <1>9 DEF IndexInv

LEMMA StutterKeepsIndex ==
  ASSUME IndexInv, UNCHANGED vars
  PROVE  IndexInv'
<1>1. /\ request' = request /\ call' = call /\ entities' = entities /\ documents' = documents
      /\ contended' = contended /\ announced' = announced /\ unheard' = unheard
  BY DEF vars, storeVars, aside
<1> QED BY <1>1 DEF IndexInv, Op, Indexes, Indexed, Doc, Document, HasDocument, Stored

LEMMA InitHasIndex ==
  ASSUME Init
  PROVE  IndexInv
<1>1. \A c \in Clients : call[c].todo = <<>>
  BY NoCallFields DEF Init
<1>2. documents = [i \in Stored |-> Document(entities[i])]
  BY DEF Init
<1>3. \A i : HasDocument(i)
  BY <1>2 DEF HasDocument
<1> QED BY <1>1, <1>3, EmptyIsSeq DEF IndexInv

\* The search index has the text of every stored entity and nothing else, at rest: through
\* failed handlers, partial batches, refused and retried slugs, and re-embeddings, and
\* whatever runs beside, if no two calls worked on the entity at once, its failure to be
\* indexed was not announced, and its write was one that tells the index (indexBestEffort).
THEOREM IndexFollowsEntities == ImportSpec => []IndexAgrees
<1>1. Init => IndexInv
  BY InitHasIndex
<1>2. (Sound /\ NamesInv) /\ (Sound /\ NamesInv)' /\ IndexInv /\ [ImportNext]_vars => IndexInv'
  <2> SUFFICES ASSUME Sound, NamesInv, Sound', NamesInv', IndexInv, [ImportNext]_vars
               PROVE  IndexInv'
    OBVIOUS
  <2>1. CASE UNCHANGED vars
    BY <2>1, StutterKeepsIndex
  <2>2. CASE ImportNext
    <3>1. PICK c \in Clients : Step(c) \/ ImportStep(c)
      BY <2>2 DEF ImportNext
    <3>2. contended \subseteq contended'
      BY <2>2 DEF ImportNext
    <3> QED BY <3>1, <3>2, StepKeepsIndex
  <2> QED BY <2>1, <2>2
<1>3. ASSUME Sound, IndexInv
      PROVE  IndexAgrees
  <2> SUFFICES ASSUME NEW i \in Ids \ (contended \cup announced \cup unheard), AtRest(i)
               PROVE  HasDocument(i)
    BY DEF IndexAgrees, HasDocument
  <2>1. \A c \in Clients : Indexes(c) => i \notin Indexed(c)
    BY <1>3, IndexedIsWork DEF AtRest, Sound
  <2> QED BY <1>3, <2>1 DEF IndexInv
<1>4. Sound /\ NamesInv /\ IndexInv => IndexAgrees
  BY <1>3
<1> QED BY <1>1, <1>2, <1>4, CallsKeepNames, PTL DEF ImportSpec

-----------------------------------------------------------------------------
\* Embeddings.  While nothing is deleted, the order of the entity map only grows.
OrderInv ==
  NoneDeletes =>
    order \in Seq(Ids) /\ ToSet(order) = Stored /\ Len(order) = Cardinality(Stored)

LEMMA AppendTo ==
  ASSUME NEW S, NEW s \in Seq(S), NEW x \in S
  PROVE  /\ Append(s, x) \in Seq(S) /\ Len(Append(s, x)) = Len(s) + 1
         /\ \A k \in 1..Len(s) : Append(s, x)[k] = s[k]
OBVIOUS

LEMMA OrderGrows ==
  ASSUME Sound, OrderInv, NoneDeletes, NEW c \in Clients, Writes(c)
  PROVE  /\ order' \in Seq(Ids) /\ ToSet(order') = Stored' /\ Len(order') = Cardinality(Stored')
         /\ Len(order) \in Nat /\ Len(order') \in Nat /\ Len(order) <= Len(order')
         /\ \A k \in 1..Len(order) : order'[k] = order[k]
         /\ Stored \subseteq Stored'
<1>1. /\ order \in Seq(Ids) /\ ToSet(order) = Stored /\ Len(order) = Cardinality(Stored)
      /\ IsFiniteSet(Stored) /\ StoreInv /\ Len(order) \in Nat
  BY DEF OrderInv, Sound, Shaped
<1>2. ASSUME Stored' = Stored, order' = order
      PROVE  /\ order' \in Seq(Ids) /\ ToSet(order') = Stored' /\ Len(order') = Cardinality(Stored')
             /\ Len(order) \in Nat /\ Len(order') \in Nat /\ Len(order) <= Len(order')
             /\ \A k \in 1..Len(order) : order'[k] = order[k]
             /\ Stored \subseteq Stored'
  BY <1>1, <1>2
<1>3. ASSUME NEW i \in Ids, i \notin Stored, Stored' = Stored \cup {i}, order' = Append(order, i)
      PROVE  /\ order' \in Seq(Ids) /\ ToSet(order') = Stored' /\ Len(order') = Cardinality(Stored')
             /\ Len(order) \in Nat /\ Len(order') \in Nat /\ Len(order) <= Len(order')
             /\ \A k \in 1..Len(order) : order'[k] = order[k]
             /\ Stored \subseteq Stored'
  <2>1. /\ order' \in Seq(Ids) /\ Len(order') = Len(order) + 1
        /\ \A k \in 1..Len(order) : order'[k] = order[k]
    BY <1>1, <1>3, AppendTo
  <2>2. ToSet(order') = Stored'
    <3>1. IsSeq(order)
      BY <1>1, SeqIsSeq
    <3> QED BY <1>1, <1>3, <3>1, AppendIsSeq
  <2>3. Cardinality(Stored') = Cardinality(Stored) + 1
    BY <1>1, <1>3, FS_AddElement
  <2> QED BY <1>1, <1>3, <2>1, <2>2, <2>3
<1>4. CASE UNCHANGED <<entities, slugIndex, order>>
  BY <1>2, <1>4 DEF Stored
<1>5. CASE CreatesOne(c)
  <2>1. PICK i \in Ids : \E e : CreateEntity(i, e)
    BY <1>5 DEF CreatesOne
  <2> QED BY <1>3, <2>1, CreateEffect
<1>6. CASE UpdatesOne(c) \/ VectorOne(c)
  <2>1. PICK i, updates : UpdateEntity(i, updates)
    BY <1>6 DEF UpdatesOne, VectorOne
  <2> QED BY <1>1, <1>2, <2>1, UpdateEffect
<1>7. CASE ImportsOne(c)
  <2>1. PICK i \in Ids : \/ \E e : CreateEntity(i, e) \/ ImportEntity(i, e)
                         \/ \E updates : UpdateEntity(i, updates)
    BY <1>7 DEF ImportsOne
  <2>2. CASE \E e : CreateEntity(i, e)
    BY <1>3, <2>2, CreateEffect
  <2>3. CASE \E e : ImportEntity(i, e)
    <3>1. Stored' = Stored \cup {i} /\ order' = IF i \in Stored THEN order ELSE Append(order, i)
      BY <2>3, ImportEffect
    <3>2. CASE i \in Stored
      BY <1>2, <3>1, <3>2
    <3>3. CASE i \notin Stored
      BY <1>3, <3>1, <3>3
    <3> QED BY <3>2, <3>3
  <2>4. CASE \E updates : UpdateEntity(i, updates)
    BY <1>1, <1>2, <2>4, UpdateEffect
  <2> QED BY <2>1, <2>2, <2>3, <2>4
<1>8. ~DeletesSome(c) /\ ~PurgesSome(c)
  BY DEF NoneDeletes, DeletesSome, PurgesSome
<1> QED BY <1>4, <1>5, <1>6, <1>7, <1>8 DEF Writes

LEMMA ModelStays ==
  ASSUME Shaped, NEW c \in Clients, Step(c) \/ ImportStep(c), ~BeginReembed(c)
  PROVE  model' = model
<1>1. CASE BeginCreate(c) \/ BeginUpdate(c) \/ PickSlug(c) \/ Return(c)
  BY <1>1 DEF BeginCreate, BeginUpdate, PickSlug, Return, aside
<1>2. CASE Hook(c) \/ WriteCreate(c)
  BY <1>2 DEF Hook, WriteCreate, aside
<1>3. CASE WriteUpdate(c)
  BY <1>3 DEF WriteUpdate, aside
<1>4. CASE Delete(c) \/ Index(c) \/ Page(c)
  BY <1>4 DEF Delete, Index, Page
<1>5. CASE WriteVector(c)
  BY <1>5 DEF WriteVector
<1>6. CASE BeginRelate(c) \/ WriteRelationship(c) \/ RemoveRelationships(c) \/ Purge(c)
  BY <1>6 DEF BeginRelate, WriteRelationship, RemoveRelationships, Purge, aside
<1>7. CASE BeginImport(c) \/ LookUp(c) \/ TrySlug(c) \/ LookUpRelationship(c) \/ MergeRelationship(c)
  BY <1>7 DEF BeginImport, LookUp, TrySlug, LookUpRelationship, MergeRelationship, aside
<1>8. CASE ImportRow(c) \/ MergeEntity(c)
  BY <1>8 DEF ImportRow, MergeEntity
<1> QED BY <1>1, <1>2, <1>3, <1>4, <1>5, <1>6, <1>7, <1>8 DEF Step, ImportStep

\* The steps of a re-embedding, field by field.
PageOf(c) ==
  SubSeq(order, call[c].offset + 1, IF call[c].offset + BatchSize < Len(order)
                                    THEN call[c].offset + BatchSize ELSE Len(order))

VectorsOf(c) ==
  [k \in DOMAIN PageOf(c) |->
     [id |-> PageOf(c)[k], vector |-> VectorOf(entities[PageOf(c)[k]], model)]]

LEMMA BeginReembedFields ==
  ASSUME Shaped, NEW c \in Clients, BeginReembed(c)
  PROVE  /\ Op(c) = "reembed" /\ call[c].pc = "idle" /\ call'[c].pc = "page"
         /\ call'[c].total = Cardinality(Stored) /\ call'[c].counted = Stored
         /\ call'[c].ended = {d \in Clients : call[d].pc = "done"}
         /\ Same(call'[c], call[c], CallFields \ {"pc", "total", "counted", "ended"})
         /\ UNCHANGED <<entities, order>>
<1> DEFINE done == {d \in Clients : call[d].pc = "done"}
           next == [call[c] EXCEPT !.pc = "page", !.total = Cardinality(Stored), !.counted = Stored,
                                   !.ended = done]
<1>1. IsCall(call[c])
  BY DEF Shaped, CallShaped
<1>2. /\ Op(c) = "reembed" /\ call[c].pc = "idle" /\ call'[c] = next
      /\ UNCHANGED <<entities, order>>
  BY OwnRecord DEF BeginReembed, storeVars
<1> HIDE DEF done
<1>3. /\ next.pc = "page" /\ next.total = Cardinality(Stored) /\ next.counted = Stored
      /\ next.ended = done
      /\ Same(next, call[c], CallFields \ {"pc", "total", "counted", "ended"})
  BY <1>1 DEF IsCall, CallFields, Same
<1> HIDE DEF next
<1> QED BY <1>2, <1>3 DEF done

LEMMA PageFields ==
  ASSUME Shaped, NEW c \in Clients, Page(c)
  PROVE  /\ Op(c) = "reembed" /\ call[c].pc = "page"
         /\ UNCHANGED <<entities, order, model>>
         /\ \/ /\ MorePages(call[c])
               /\ call'[c].pc = "vectors" /\ call'[c].todo = VectorsOf(c)
               /\ call'[c].offset = call[c].offset + Len(PageOf(c))
               /\ Same(call'[c], call[c], CallFields \ {"pc", "todo", "offset"})
            \/ /\ MorePages(call[c])
               /\ call'[c].failed = call[c].failed \cup ToSet(PageOf(c))
               /\ call'[c].offset = call[c].offset + Len(PageOf(c))
               /\ Same(call'[c], call[c], CallFields \ {"failed", "failures", "offset"})
            \/ /\ call'[c].pc = "done"
               /\ ~MorePages(call[c]) \/ call'[c].reply \in {"stopped", "aborted"}
               /\ Same(call'[c], call[c], CallFields \ {"pc", "reply"})
<1> DEFINE vectors == [call[c] EXCEPT !.pc = "vectors", !.todo = VectorsOf(c),
                                      !.offset = @ + Len(PageOf(c))]
           skip == [call[c] EXCEPT !.failed = @ \cup ToSet(PageOf(c)),
                                   !.failures = @ + Len(PageOf(c)),
                                   !.offset = @ + Len(PageOf(c))]
           a(reply) == Answer(call[c], reply)
<1>1. IsCall(call[c])
  BY DEF Shaped, CallShaped
<1>2. /\ call[c].pc = "page" /\ UNCHANGED <<entities, order, model>>
      /\ \/ MorePages(call[c]) /\ Becomes(c, vectors)
         \/ MorePages(call[c]) /\ Becomes(c, skip)
         \/ ~MorePages(call[c]) /\ Becomes(c, a("reembedded"))
         \/ Becomes(c, a("stopped"))
         \/ Becomes(c, a("aborted"))
  BY DEF Page, PageOf, VectorsOf, storeVars
<1>3. /\ vectors.pc = "vectors" /\ vectors.todo = VectorsOf(c)
      /\ vectors.offset = call[c].offset + Len(PageOf(c))
      /\ Same(vectors, call[c], CallFields \ {"pc", "todo", "offset"})
  BY <1>1 DEF IsCall, CallFields, Same
<1>4. /\ skip.failed = call[c].failed \cup ToSet(PageOf(c))
      /\ skip.offset = call[c].offset + Len(PageOf(c))
      /\ Same(skip, call[c], CallFields \ {"failed", "failures", "offset"})
  BY <1>1 DEF IsCall, CallFields, Same
<1>5. \A reply : /\ a(reply).pc = "done" /\ a(reply).reply = reply
                 /\ Same(a(reply), call[c], CallFields \ {"pc", "reply"})
  BY <1>1, AnswerFields
<1>6. Op(c) = "reembed"
  BY <1>2, OpAt
<1> HIDE DEF vectors, skip, a
<1>7. \/ MorePages(call[c]) /\ call'[c] = vectors
      \/ MorePages(call[c]) /\ call'[c] = skip
      \/ ~MorePages(call[c]) /\ call'[c] = a("reembedded")
      \/ call'[c] = a("stopped")
      \/ call'[c] = a("aborted")
  BY <1>2, OwnRecord
<1>8. CASE MorePages(call[c]) /\ call'[c] = vectors
  BY <1>2, <1>3, <1>6, <1>8
<1>9. CASE MorePages(call[c]) /\ call'[c] = skip
  BY <1>2, <1>4, <1>6, <1>9
<1>10. CASE ~MorePages(call[c]) /\ call'[c] = a("reembedded")
  BY <1>2, <1>5, <1>6, <1>10
<1>11. CASE call'[c] = a("stopped")
  BY <1>2, <1>5, <1>6, <1>11
<1>12. CASE call'[c] = a("aborted")
  BY <1>2, <1>5, <1>6, <1>12
<1> QED BY <1>7, <1>8, <1>9, <1>10, <1>11, <1>12

LEMMA WriteVectorFields ==
  ASSUME Shaped, NEW c \in Clients, WriteVector(c)
  PROVE  LET next == Head(call[c].todo) IN
         /\ Op(c) = "reembed" /\ call[c].pc = "vectors"
         /\ model' = model
         /\ \/ /\ UpdateEntity(next.id, [vector |-> next.vector])
               /\ call'[c].failed = call[c].failed
               /\ call'[c].pc = (IF Len(call[c].todo) = 1 THEN "page" ELSE "vectors")
            \/ /\ next.id \notin Stored /\ UNCHANGED <<entities, order>>
               /\ call'[c].failed = call[c].failed \cup {next.id}
               /\ call'[c].pc = (IF Len(call[c].todo) = 1 THEN "page" ELSE "vectors")
            \/ /\ next.id \notin Stored /\ call'[c].pc = "done" /\ call'[c].reply = "aborted"
         /\ call'[c].todo = Tail(call[c].todo)
         /\ call'[c].pc # "done" => call'[c].reply = call[c].reply
         /\ Same(call'[c], call[c], CallFields \ {"pc", "todo", "failed", "failures", "reply"})
<1> DEFINE next == Head(call[c].todo)
           pc == IF Len(call[c].todo) = 1 THEN "page" ELSE "vectors"
           written == [call[c] EXCEPT !.todo = Tail(@), !.pc = pc]
           gone == [written EXCEPT !.failed = @ \cup {next.id}, !.failures = @ + 1]
           a == Answer(gone, "aborted")
           changed == {"pc", "todo", "failed", "failures", "reply"}
<1>1. IsCall(call[c])
  BY DEF Shaped, CallShaped
<1>2. /\ call[c].pc = "vectors" /\ model' = model
      /\ \/ UpdateEntity(next.id, [vector |-> next.vector]) /\ Becomes(c, written)
         \/ next.id \notin Stored /\ UNCHANGED <<entities, order>> /\ Becomes(c, gone)
         \/ next.id \notin Stored /\ Becomes(c, a)
  BY DEF WriteVector, storeVars
<1>3. Op(c) = "reembed"
  BY <1>2, OpAt
<1>0. pc # "done"
  OBVIOUS
<1> HIDE DEF pc, next
<1>4. /\ IsCall(written) /\ written.pc = pc /\ written.todo = Tail(call[c].todo)
      /\ written.failed = call[c].failed
      /\ Same(written, call[c], CallFields \ {"pc", "todo"})
  BY <1>1 DEF IsCall, CallFields, Same
<1> HIDE DEF written
<1>5. /\ IsCall(gone)
      /\ gone.failed = written.failed \cup {next.id}
      /\ Same(gone, written, CallFields \ {"failed", "failures"})
  BY <1>4 DEF IsCall, CallFields, Same
<1> HIDE DEF gone
<1>6. /\ gone.pc = pc /\ gone.todo = Tail(call[c].todo)
      /\ gone.failed = call[c].failed \cup {next.id} /\ gone.reply = call[c].reply
      /\ Same(gone, call[c], CallFields \ changed)
  BY <1>4, <1>5 DEF Same, CallFields
<1>7. a.pc = "done" /\ a.reply = "aborted" /\ Same(a, gone, CallFields \ {"pc", "reply"})
  BY <1>5, AnswerFields
<1> HIDE DEF a
<1>8. a.todo = Tail(call[c].todo) /\ Same(a, call[c], CallFields \ changed)
  BY <1>6, <1>7 DEF Same, CallFields
<1>9. written.reply = call[c].reply /\ Same(written, call[c], CallFields \ changed)
  BY <1>4 DEF Same, CallFields
<1>10. CASE UpdateEntity(next.id, [vector |-> next.vector]) /\ Becomes(c, written)
  <2>1. call'[c] = written
    BY <1>10, OwnRecord
  <2> QED BY <1>0, <1>2, <1>3, <1>4, <1>9, <1>10, <2>1 DEF next, pc
<1>11. CASE next.id \notin Stored /\ UNCHANGED <<entities, order>> /\ Becomes(c, gone)
  <2>1. call'[c] = gone
    BY <1>11, OwnRecord
  <2> QED BY <1>0, <1>2, <1>3, <1>6, <1>11, <2>1 DEF next, pc
<1>12. CASE next.id \notin Stored /\ Becomes(c, a)
  <2>1. call'[c] = a
    BY <1>12, OwnRecord
  <2> QED BY <1>2, <1>3, <1>7, <1>8, <1>12, <2>1 DEF next, pc
<1> QED BY <1>2, <1>10, <1>11, <1>12

\* A call that has answered takes no more steps.
LEMMA DoneRests ==
  ASSUME NEW c \in Clients, Step(c) \/ ImportStep(c)
  PROVE  call[c].pc # "done"
<1>1. CASE BeginCreate(c) \/ BeginUpdate(c) \/ Hook(c) \/ PickSlug(c)
  BY <1>1 DEF BeginCreate, BeginUpdate, Hook, PickSlug
<1>2. CASE WriteCreate(c) \/ WriteUpdate(c) \/ Delete(c)
  BY <1>2 DEF WriteCreate, WriteUpdate, Delete
<1>3. CASE Index(c) \/ Return(c)
  BY <1>3 DEF Index, Return
<1>4. CASE BeginReembed(c) \/ Page(c) \/ WriteVector(c)
  BY <1>4 DEF BeginReembed, Page, WriteVector
<1>5. CASE BeginRelate(c) \/ WriteRelationship(c) \/ RemoveRelationships(c) \/ Purge(c)
  BY <1>5 DEF BeginRelate, WriteRelationship, RemoveRelationships, Purge
<1>6. CASE BeginImport(c) \/ ImportRow(c) \/ LookUp(c) \/ LookUpRelationship(c)
  BY <1>6 DEF BeginImport, ImportRow, LookUp, LookUpRelationship
<1>7. CASE TrySlug(c) \/ MergeEntity(c) \/ MergeRelationship(c)
  BY <1>7 DEF TrySlug, MergeEntity, MergeRelationship
<1> QED BY <1>1, <1>2, <1>3, <1>4, <1>5, <1>6, <1>7 DEF Step, ImportStep

\* A call that re-embeds is under way, from its first step on.
LEMMA ReembedRuns ==
  ASSUME Shaped, NEW c \in Clients, Step(c) \/ ImportStep(c), Op(c) = "reembed"
  PROVE  call'[c].pc # "idle"
<1>1. CASE BeginReembed(c)
  BY <1>1, BeginReembedFields
<1>2. CASE Page(c)
  BY <1>2, PageFields DEF Same, CallFields
<1>3. CASE WriteVector(c)
  BY <1>3, WriteVectorFields
<1> QED BY <1>1, <1>2, <1>3, StepsOf

\* The vector an update is to write is the embedding of what it makes of what it read,
\* by the model of the handle: a new model makes the two contend.
VectorInv ==
  \A c \in Clients :
    /\ Op(c) = "update" /\ request[c].id \notin contended
    /\ call[c].pc = "write" \/ (call[c].pc = "pick" /\ call[c].refused # {})
    => call[c].vector = Embeds(c)

LEMMA OwnVector ==
  ASSUME Sound, VectorInv, NEW c \in Clients, Step(c) \/ ImportStep(c), Op(c) = "update",
         request[c].id \notin contended,
         call'[c].pc = "write" \/ (call'[c].pc = "pick" /\ call'[c].refused # {})
  PROVE  call'[c].vector = Embeds(c)'
<1>1. /\ IsCall(call[c]) /\ request' = request /\ Shaped
      /\ call[c].pc = "write" \/ (call[c].pc = "pick" /\ call[c].refused # {}) => call[c].vector = Embeds(c)
  BY StepFrame DEF Sound, Shaped, CallShaped, VectorInv
<1>2. model' = model
  <2>1. ~BeginReembed(c)
    BY DEF BeginReembed
  <2> QED BY <1>1, <2>1, ModelStays
<1>3. ASSUME call'[c].read = call[c].read
      PROVE  Embeds(c)' = Embeds(c)
  BY <1>1, <1>2, <1>3 DEF Embeds, Wanted, MergedContent, Op
<1>4. CASE BeginUpdate(c)
  <2> DEFINE next == [call[c] EXCEPT !.pc = "hook", !.read = entities[request[c].id]]
             a == Answer(call[c], "not_found")
  <2>1. call'[c] \in {next, a}
    BY <1>1, <1>4, OwnRecord DEF BeginUpdate
  <2>2. next.pc = "hook"
    BY <1>1 DEF IsCall, CallFields
  <2>3. a.pc = "done"
    BY <1>1, AnswerFields
  <2> HIDE DEF next, a
  <2> QED BY <2>1, <2>2, <2>3
<1>5. CASE Hook(c)
  <2> DEFINE pick == [call[c] EXCEPT !.pc = "pick", !.n = 1, !.refused = {}]
             write == [call[c] EXCEPT !.pc = "write", !.vector = Embeds(c)]
             a == Failed(call[c], "cancelled")
  <2>1. call'[c] \in {pick, write, a}
    BY <1>1, <1>5, OwnRecord DEF Hook
  <2>2. pick.pc = "pick" /\ pick.refused = {} /\ write.vector = Embeds(c) /\ write.read = call[c].read
    BY <1>1 DEF IsCall, CallFields
  <2>3. a.pc \in {"done", "index"}
    BY <1>1, FailedFields
  <2> HIDE DEF pick, write, a
  <2> QED BY <1>3, <2>1, <2>2, <2>3
<1>6. CASE PickSlug(c)
  <2> DEFINE again == [call[c] EXCEPT !.n = @ + 1]
             vector == IF call[c].refused = {} THEN Embeds(c) ELSE call[c].vector
             write == [call[c] EXCEPT !.pc = "write", !.slug = Candidate(c), !.vector = vector]
  <2>1. call'[c] \in {again, write} /\ call[c].pc = "pick"
    BY <1>1, <1>6, OwnRecord DEF PickSlug
  <2>2. /\ again.pc = call[c].pc /\ again.refused = call[c].refused
        /\ again.vector = call[c].vector /\ again.read = call[c].read
    BY <1>1 DEF IsCall, CallFields
  <2>3. write.vector = vector /\ write.read = call[c].read
    BY <1>1 DEF IsCall, CallFields
  <2>4. vector = Embeds(c)
    BY <1>1, <2>1
  <2> HIDE DEF again, write, vector
  <2> QED BY <1>1, <1>3, <2>1, <2>2, <2>3, <2>4
<1>7. CASE WriteUpdate(c)
  <2> DEFINE x == [id |-> request[c].id, document |-> <<Document(Merged(request[c].id, Updates(c)))>>]
             next == [Indexing(call[c], "updated") EXCEPT !.todo = <<x>>]
             conflict == SlugConflict(c)
  <2>1. /\ call[c].pc = "write"
        /\ \/ call'[c] = next
           \/ \E reply : call'[c] = Answer(call[c], reply)
           \/ call'[c] = conflict
    BY <1>1, <1>7, OwnRecord DEF WriteUpdate
  <2>2. next.pc = "index"
    <3> HIDE DEF x
    <3> QED BY <1>1, UpdatedFields
  <2>3. \A reply : Answer(call[c], reply).pc = "done"
    BY <1>1, AnswerFields
  <2>4. conflict.read = call[c].read /\ conflict.vector = call[c].vector
    BY <1>1, ConflictFields DEF Same, CallFields
  <2> HIDE DEF next, conflict
  <2> QED BY <1>1, <1>3, <2>1, <2>2, <2>3, <2>4
<1>8. CASE Index(c) \/ Return(c)
  <2> DEFINE next == [call[c] EXCEPT !.todo = Tail(@)]
             a == [call[c] EXCEPT !.pc = "done"]
  <2>1. call[c].pc = "index" /\ call'[c] \in {next, a}
    BY <1>1, <1>8, OwnRecord DEF Index, Return
  <2>2. next.pc = call[c].pc /\ a.pc = "done"
    BY <1>1 DEF IsCall, CallFields
  <2> HIDE DEF next, a
  <2> QED BY <2>1, <2>2
<1> QED BY <1>1, <1>4, <1>5, <1>6, <1>7, <1>8, StepsOf

LEMMA StepKeepsVectors ==
  ASSUME Sound, ContentionNoted', VectorInv, NEW c \in Clients, Step(c) \/ ImportStep(c),
         contended \subseteq contended'
  PROVE  VectorInv'
<1>1. /\ request' = request /\ Shaped
      /\ \A d \in Clients \ {c} : call'[d] = call[d]
  BY StepFrame DEF Sound
<1> SUFFICES ASSUME NEW d \in Clients, Op(d)' = "update", request'[d].id \notin contended',
                    call'[d].pc = "write" \/ (call'[d].pc = "pick" /\ call'[d].refused # {})
             PROVE  call'[d].vector = Embeds(d)'
  BY DEF VectorInv
<1>2. Op(d) = "update" /\ request[d].id \notin contended
  BY <1>1 DEF Op
<1>3. CASE d = c
  BY <1>2, <1>3, OwnVector
<1>4. CASE d # c /\ ~BeginReembed(c)
  <2>1. call'[d] = call[d] /\ model' = model
    BY <1>1, <1>4, ModelStays
  <2>2. Embeds(d)' = Embeds(d)
    BY <1>1, <2>1 DEF Embeds, Wanted, MergedContent, Op
  <2> QED BY <1>2, <2>1, <2>2 DEF VectorInv
<1>5. CASE d # c /\ BeginReembed(c)
  <2>1. request[d].id \in Ids
    BY <1>1, <1>2, AskedUpdate DEF Shaped
  <2>2. WorksOn(d)' = {request[d].id}
    BY <1>1, <1>2 DEF WorksOn, Running, Op
  <2>3. Op(c)' = "reembed" /\ call'[c].pc = "page"
    BY <1>1, <1>5, BeginReembedFields DEF Op
  <2>4. WorksOn(c)' = Ids
    BY <2>3 DEF WorksOn, Running
  <2> QED BY <1>1, <1>5, <2>1, <2>2, <2>4 DEF ContentionNoted
<1> QED BY <1>3, <1>4, <1>5

-----------------------------------------------------------------------------
\* What a re-embedding has passed has a vector of its model and its own text, or is a
\* known exception, or is among the vectors still to write, which are the right ones.
VectorRight(i) == entities[i].vector = VectorOf(entities[i], model)

Settled(c, i) ==
  \/ i \in call[c].failed \cup contended \cup Imported \cup Retyped(c)
  \/ VectorRight(i)
  \/ call[c].pc = "vectors" /\ \E x \in ToSet(call[c].todo) : x.id = i

VectorsToWrite(c) ==
  /\ IsSeq(call[c].todo) /\ call[c].todo # <<>>
  /\ \A x \in ToSet(call[c].todo) :
       /\ x.id \in Stored
       /\ x.id \notin contended \cup Imported =>
            x.vector = VectorOf(entities[x.id], model)

Reaching(c) ==
  /\ call[c].offset \in Nat /\ call[c].total \in Nat /\ call[c].total <= Len(order)
  /\ call[c].counted = {order[k] : k \in 1..call[c].total}
  /\ \A k \in 1..call[c].total : k <= call[c].offset => Settled(c, order[k])
  /\ call[c].pc = "vectors" => VectorsToWrite(c)
  /\ call[c].pc = "done" => call[c].offset >= call[c].total

\* One that was stopped or aborted promises nothing.
GivenUp(c) == call[c].reply \in {"stopped", "aborted"}

ReembedInv ==
  \A c \in Clients : Op(c) = "reembed" =>
    /\ call[c].pc = "idle" => call[c].offset = 0
    /\ call[c].pc # "done" => call[c].reply = "none"
    /\ \A d \in call[c].ended : d \in Clients /\ call[d].pc = "done"
    /\ call[c].pc # "idle" /\ ~GivenUp(c) /\ NoneDeletes /\ NoOtherReembeds(c) => Reaching(c)

\* An update that gives a type and nothing else keeps the vector.
RetypesOnly(c) ==
  Op(c) = "update" /\ request[c].patch.type # Keep /\ ~NeedsReembed(request[c].patch)

LEMMA UpdateKeepsVector ==
  ASSUME Sound, NamesInv, VectorInv, NEW c \in Clients, UpdatesOne(c), ~RetypesOnly(c),
         request[c].id \notin contended \cup Imported, VectorRight(request[c].id)
  PROVE  LET m == Merged(request[c].id, Updates(c)) IN
         m.vector = VectorOf(m, model)
<1> DEFINE i == request[c].id
           patch == request[c].patch
           read == call[c].read
           m == Merged(i, Updates(c))
<1>1. Shaped /\ Op(c) = "update" /\ call[c].pc = "write" /\ i \in Stored
  BY DEF Sound, UpdatesOne, UpdateEntity
<1>2. /\ m.type = IF Wanted(c).type # read.type THEN patch.type ELSE entities[i].type
      /\ m.label = IF patch.label # Keep THEN patch.label ELSE entities[i].label
      /\ m.content = IF ChangesContent(patch) THEN MergedContent(c) ELSE entities[i].content
      /\ m.vector = IF call[c].vector # <<>> THEN call[c].vector ELSE entities[i].vector
  BY <1>1, UpdateFields
<1>3. m.type = Wanted(c).type /\ m.label = Wanted(c).label
  BY <1>1, UpdateWritesWanted DEF NamesInv
<1>4. entities[i].content = read.content
  BY <1>1 DEF NamesInv, ReadIsStored, ReadFields
<1>5. call[c].vector = Embeds(c)
  BY <1>1 DEF VectorInv
<1> HIDE DEF m
<1>6. CASE NeedsReembed(patch)
  <2>1. Embeds(c) = Embedding(Wanted(c).type, Wanted(c).label, MergedContent(c), model)
    BY <1>1, <1>6 DEF Embeds
  <2>2. Embeds(c) # <<>>
    BY <2>1 DEF Embedding
  <2>3. m.vector = Embedding(m.type, m.label, MergedContent(c), model)
    BY <1>2, <1>3, <1>5, <2>1, <2>2
  <2>4. m.content = MergedContent(c)
    <3>1. CASE ChangesContent(patch)
      BY <1>2, <3>1
    <3>2. CASE ~ChangesContent(patch)
      <4>1. patch.set = {} /\ patch.clear = {}
        BY <3>2 DEF ChangesContent
      <4>2. MergedContent(c) = read.content \cup {}
        BY <4>1 DEF MergedContent
      <4> QED BY <1>2, <1>4, <3>2, <4>2
    <3> QED BY <3>1, <3>2
  <2> QED BY <2>3, <2>4 DEF VectorOf, m
<1>7. CASE ~NeedsReembed(patch)
  <2>1. Embeds(c) = <<>>
    BY <1>1, <1>7 DEF Embeds
  <2>2. patch.type = Keep /\ patch.label = Keep /\ ~ChangesContent(patch)
    BY <1>1, <1>7 DEF RetypesOnly, NeedsReembed
  <2>3. Wanted(c).type = read.type
    BY <1>1, <2>2 DEF Wanted
  <2>4. /\ m.type = entities[i].type /\ m.label = entities[i].label
        /\ m.content = entities[i].content /\ m.vector = entities[i].vector
    BY <1>2, <1>5, <2>1, <2>2, <2>3
  <2> QED BY <2>4 DEF VectorRight, VectorOf, m
<1> QED BY <1>6, <1>7

\* Nothing but a re-embedding and a new type makes a right vector wrong.
LEMMA VectorStays ==
  ASSUME Sound, NamesInv, VectorInv, NoneDeletes, NEW c \in Clients, Step(c) \/ ImportStep(c),
         Op(c) # "reembed", contended \subseteq contended', Imported \subseteq Imported',
         NEW i \in Stored \ (contended' \cup Imported'), VectorRight(i),
         RetypesOnly(c) => request[c].id # i
  PROVE  VectorRight(i)'
<1>1. Writes(c) /\ StoreInv /\ Shaped
  BY StepWrites DEF Sound
<1>2. model' = model
  BY <1>1, ModelStays DEF BeginReembed
<1>3. ASSUME entities'[i] = entities[i]
      PROVE  VectorRight(i)'
  BY <1>2, <1>3 DEF VectorRight
<1>4. CASE UNCHANGED <<entities, slugIndex, order>>
  BY <1>3, <1>4
<1>5. CASE CreatesOne(c)
  <2>1. PICK j \in Ids : \E e : CreateEntity(j, e)
    BY <1>5 DEF CreatesOne
  <2> QED BY <1>3, <2>1, CreateEffect
<1>6. CASE UpdatesOne(c)
  <2> DEFINE m == Merged(request[c].id, Updates(c))
  <2>1. /\ entities'[request[c].id] = m
        /\ \A j \in Stored \ {request[c].id} : entities'[j] = entities[j]
    BY <1>1, <1>6, UpdateEffect DEF UpdatesOne
  <2>2. CASE i = request[c].id
    <3>1. m.vector = VectorOf(m, model)
      BY <1>6, <2>2, UpdateKeepsVector
    <3> HIDE DEF m
    <3> QED BY <1>2, <2>1, <2>2, <3>1 DEF VectorRight
  <2> QED BY <1>3, <2>1, <2>2
<1>7. CASE ImportsOne(c)
  <2>1. PICK j \in Ids :
          /\ \/ \E e : CreateEntity(j, e) \/ ImportEntity(j, e)
             \/ \E updates : UpdateEntity(j, updates)
          /\ j \in call'[c].wrote
    BY <1>7 DEF ImportsOne
  <2>2. j \in Imported'
    <3>1. request' = request
      BY <1>1, StepFrame
    <3> QED BY <1>7, <2>1, <3>1 DEF ImportsOne, Imported, Op
  <2>3. \A k \in Stored \ {j} : entities'[k] = entities[k]
    BY <1>1, <2>1, CreateEffect, ImportEffect, UpdateEffect
  <2> QED BY <1>3, <2>2, <2>3
<1>8. ~DeletesSome(c) /\ ~PurgesSome(c) /\ ~VectorOne(c)
  BY DEF NoneDeletes, DeletesSome, PurgesSome, VectorOne
<1> QED BY <1>1, <1>4, <1>5, <1>6, <1>7, <1>8 DEF Writes

LEMMA BeginReaches ==
  ASSUME Sound, OrderInv, NoneDeletes, NEW c \in Clients, BeginReembed(c), call[c].offset = 0
  PROVE  Reaching(c)'
<1>1. /\ call'[c].pc = "page" /\ call'[c].total = Cardinality(Stored) /\ call'[c].counted = Stored
      /\ call'[c].offset = 0 /\ order' = order
  BY BeginReembedFields DEF Sound, Same, CallFields
<1>2. order \in Seq(Ids) /\ ToSet(order) = Stored /\ Len(order) = Cardinality(Stored)
  BY DEF OrderInv
<1>3. Len(order) \in Nat /\ DOMAIN order = 1..Len(order)
  BY <1>2
<1>4. Stored = {order[k] : k \in 1..Len(order)}
  BY <1>2, <1>3 DEF ToSet
<1>5. \A n \in Nat : \A k \in 1..n : ~(k <= 0)
  OBVIOUS
<1>6. call'[c].total = Len(order) /\ call'[c].total \in Nat
  BY <1>1, <1>2, <1>3
<1>7. \A k \in 1..call'[c].total : ~(k <= call'[c].offset)
  BY <1>1, <1>5, <1>6
<1>8. call'[c].counted = {order'[k] : k \in 1..call'[c].total}
  BY <1>1, <1>4, <1>6
<1>9. call'[c].offset \in Nat /\ call'[c].total <= Len(order')
  BY <1>1, <1>3, <1>6
<1> QED BY <1>1, <1>6, <1>7, <1>8, <1>9 DEF Reaching

\* A page is the part of the order between the offset and the next one.
LEMMA PageIsNext ==
  ASSUME Sound, OrderInv, NoneDeletes, NEW c \in Clients, Reaching(c), MorePages(call[c])
  PROVE  /\ call[c].offset + Len(PageOf(c)) \in Nat
         /\ PageOf(c) \in Seq(Ids) /\ PageOf(c) # <<>> /\ ToSet(PageOf(c)) \subseteq Stored
         /\ \A k \in 1..call[c].total :
              k <= call[c].offset + Len(PageOf(c)) /\ ~(k <= call[c].offset) =>
                order[k] \in ToSet(PageOf(c))
<1> DEFINE lo == call[c].offset
           n == Len(order)
           hi == IF lo + BatchSize < n THEN lo + BatchSize ELSE n
           page == PageOf(c)
<1>1. /\ lo \in Nat /\ call[c].total \in Nat /\ call[c].total <= n /\ lo < call[c].total
      /\ order \in Seq(Ids) /\ ToSet(order) = Stored /\ n \in Nat
  BY DEF Reaching, MorePages, OrderInv
<1>2. hi \in Nat /\ lo < hi /\ hi <= n
  BY <1>1, RepositoryAssumption
<1>3. page = SubSeq(order, lo + 1, hi)
  BY DEF PageOf
<1> HIDE DEF hi, lo, n, page
<1>4. /\ page \in Seq(Ids) /\ Len(page) = hi - lo
      /\ \A j \in 1..(hi - lo) : page[j] = order[lo + j]
  BY <1>1, <1>2, <1>3 DEF n
<1>5. DOMAIN page = 1..(hi - lo) /\ DOMAIN order = 1..n
  BY <1>1, <1>2, <1>4 DEF n
<1>6. lo + Len(page) \in Nat /\ lo + Len(page) = hi
  BY <1>1, <1>2, <1>4
<1>7. ToSet(page) \subseteq Stored
  <2> SUFFICES ASSUME NEW j \in 1..(hi - lo)
               PROVE  page[j] \in Stored
    BY <1>5 DEF ToSet
  <2>1. lo + j \in 1..n
    BY <1>1, <1>2
  <2> QED BY <1>1, <1>4, <1>5, <2>1 DEF ToSet
<1>8. page # <<>>
  BY <1>1, <1>2, <1>4
<1>9. ASSUME NEW k \in 1..call[c].total, k <= hi, ~(k <= lo)
      PROVE  order[k] \in ToSet(page)
  <2>1. k - lo \in 1..(hi - lo) /\ lo + (k - lo) = k
    BY <1>1, <1>2, <1>9
  <2>2. page[k - lo] = order[k]
    BY <1>4, <2>1
  <2> QED BY <1>5, <2>1, <2>2 DEF ToSet
<1> QED BY <1>4, <1>6, <1>7, <1>8, <1>9 DEF lo, page

LEMMA PageReaches ==
  ASSUME Sound, OrderInv, NoneDeletes, NEW c \in Clients, Reaching(c), Page(c), ~GivenUp(c)',
         contended \subseteq contended', Imported \subseteq Imported', Retyped(c)' = Retyped(c)
  PROVE  Reaching(c)'
<1> DEFINE next == call[c].offset + Len(PageOf(c))
<1>1. /\ call[c].pc = "page" /\ UNCHANGED <<entities, order, model>>
      /\ call'[c].total = call[c].total /\ call'[c].counted = call[c].counted
      /\ call[c].failed \subseteq call'[c].failed
      /\ \/ /\ MorePages(call[c]) /\ call'[c].pc = "vectors" /\ call'[c].todo = VectorsOf(c)
            /\ call'[c].offset = next
         \/ /\ MorePages(call[c]) /\ call'[c].pc = "page" /\ call'[c].offset = next
            /\ ToSet(PageOf(c)) \subseteq call'[c].failed
         \/ /\ ~MorePages(call[c]) /\ call'[c].pc = "done" /\ call'[c].offset = call[c].offset
  BY PageFields DEF Sound, Same, CallFields, GivenUp
<1>2. /\ call[c].offset \in Nat /\ call[c].total \in Nat /\ call[c].total <= Len(order)
      /\ call[c].counted = {order[k] : k \in 1..call[c].total}
  BY DEF Reaching
<1>3. ASSUME NEW k \in 1..call[c].total, k <= call[c].offset
      PROVE  Settled(c, order[k])'
  <2>1. \/ order[k] \in call[c].failed \cup contended \cup Imported \cup Retyped(c)
        \/ VectorRight(order[k])
    BY <1>1, <1>3 DEF Reaching, Settled
  <2>2. VectorRight(order[k]) => VectorRight(order[k])'
    BY <1>1 DEF VectorRight
  <2> QED BY <1>1, <2>1, <2>2 DEF Settled
<1>4. CASE MorePages(call[c]) /\ call'[c].pc = "vectors" /\ call'[c].todo = VectorsOf(c) /\ call'[c].offset = next
  <2>1. /\ next \in Nat /\ PageOf(c) \in Seq(Ids) /\ PageOf(c) # <<>> /\ ToSet(PageOf(c)) \subseteq Stored
        /\ \A k \in 1..call[c].total : k <= next /\ ~(k <= call[c].offset) => order[k] \in ToSet(PageOf(c))
    BY <1>4, PageIsNext
  <2> DEFINE page == PageOf(c)
             row(i) == [id |-> i, vector |-> VectorOf(entities[i], model)]
             todo == [k \in DOMAIN page |-> row(page[k])]
  <2>2. call'[c].todo = todo
    BY <1>4 DEF VectorsOf
  <2>3. page \in Seq(Ids) /\ page # <<>> /\ DOMAIN page = 1..Len(page) /\ Len(page) \in Nat
    BY <2>1
  <2>4. \A i : row(i).id = i /\ row(i).vector = VectorOf(entities[i], model)
    OBVIOUS
  <2> HIDE DEF page, row
  <2>5. /\ todo \in Seq({row(i) : i \in Ids}) /\ todo # <<>>
    BY <2>3
  <2>6. \A x \in ToSet(todo) : \E i \in ToSet(page) : x = row(i)
    BY DEF ToSet
  <2>7. \A i \in ToSet(page) : row(i) \in ToSet(todo)
    BY DEF ToSet
  <2>8. IsSeq(todo)
    BY <2>5, SeqIsSeq
  <2> HIDE DEF todo
  <2>9. VectorsToWrite(c)'
    BY <1>1, <2>1, <2>2, <2>4, <2>5, <2>6, <2>8 DEF VectorsToWrite, Stored, page
  <2>10. ASSUME NEW k \in 1..call[c].total, k <= next
         PROVE  Settled(c, order[k])'
    <3>1. CASE k <= call[c].offset
      BY <1>3, <3>1
    <3>2. CASE ~(k <= call[c].offset)
      <4>1. order[k] \in ToSet(page)
        BY <2>1, <2>10, <3>2 DEF page
      <4> QED BY <1>1, <1>4, <2>2, <2>4, <2>7, <4>1 DEF Settled
    <3> QED BY <3>1, <3>2
  <2> QED BY <1>1, <1>2, <1>4, <2>1, <2>9, <2>10 DEF Reaching
<1>5. CASE MorePages(call[c]) /\ call'[c].pc = "page" /\ call'[c].offset = next /\ ToSet(PageOf(c)) \subseteq call'[c].failed
  <2>1. /\ next \in Nat
        /\ \A k \in 1..call[c].total : k <= next /\ ~(k <= call[c].offset) => order[k] \in ToSet(PageOf(c))
    BY <1>5, PageIsNext
  <2>2. ASSUME NEW k \in 1..call[c].total, k <= next
        PROVE  Settled(c, order[k])'
    <3>1. CASE k <= call[c].offset
      BY <1>3, <3>1
    <3>2. CASE ~(k <= call[c].offset)
      BY <1>1, <1>5, <2>1, <2>2, <3>2 DEF Settled
    <3> QED BY <3>1, <3>2
  <2> QED BY <1>1, <1>2, <1>5, <2>1, <2>2 DEF Reaching
<1>6. CASE ~MorePages(call[c]) /\ call'[c].pc = "done" /\ call'[c].offset = call[c].offset
  <2>1. call[c].offset >= call[c].total
    <3>1. Len(order) \in Nat
      BY DEF OrderInv
    <3> QED BY <1>2, <1>6, <3>1 DEF MorePages
  <2> QED BY <1>1, <1>2, <1>3, <1>6, <2>1 DEF Reaching
<1> QED BY <1>1, <1>4, <1>5, <1>6

LEMMA EmptyHasNone ==
  ASSUME NEW S, NEW s \in Seq(S)
  PROVE  s = <<>> <=> Len(s) = 0
OBVIOUS

LEMMA WriteVectorReaches ==
  ASSUME Sound, OrderInv, NoneDeletes, NEW c \in Clients, Reaching(c), WriteVector(c), ~GivenUp(c)',
         contended \subseteq contended', Imported \subseteq Imported', Retyped(c)' = Retyped(c)
  PROVE  Reaching(c)'
<1> DEFINE head == Head(call[c].todo)
           tail == Tail(call[c].todo)
<1>1. /\ Op(c) = "reembed" /\ call[c].pc = "vectors" /\ model' = model
      /\ call'[c].todo = tail
      /\ Same(call'[c], call[c], CallFields \ {"pc", "todo", "failed", "failures", "reply"})
      /\ \/ /\ UpdateEntity(head.id, [vector |-> head.vector])
            /\ call'[c].failed = call[c].failed
            /\ call'[c].pc = (IF Len(call[c].todo) = 1 THEN "page" ELSE "vectors")
         \/ head.id \notin Stored
  BY WriteVectorFields DEF Sound
<1>2. /\ call'[c].offset = call[c].offset /\ call'[c].total = call[c].total
      /\ call'[c].counted = call[c].counted
  BY <1>1 DEF Same, CallFields
<1>3. VectorsToWrite(c)
  BY <1>1 DEF Reaching
<1>4. /\ IsSeq(tail) /\ ToSet(call[c].todo) = ToSet(tail) \cup {head}
      /\ Len(tail) = Len(call[c].todo) - 1 /\ Len(call[c].todo) \in Nat \ {0}
  BY <1>3, TailIsSeq DEF VectorsToWrite
<1> HIDE DEF head, tail
<1>5. /\ head.id \in Stored
      /\ head.id \notin contended \cup Imported =>
           head.vector = VectorOf(entities[head.id], model)
  BY <1>3, <1>4 DEF VectorsToWrite
<1>6. /\ UpdateEntity(head.id, [vector |-> head.vector]) /\ call'[c].failed = call[c].failed
      /\ call'[c].pc = (IF Len(call[c].todo) = 1 THEN "page" ELSE "vectors")
  BY <1>1, <1>5
<1>7. /\ Stored' = Stored /\ order' = order
      /\ entities'[head.id] = Merged(head.id, [vector |-> head.vector])
      /\ \A j \in Stored \ {head.id} : entities'[j] = entities[j]
  BY <1>6, UpdateEffect DEF Sound
<1>8. /\ entities'[head.id].type = entities[head.id].type
      /\ entities'[head.id].label = entities[head.id].label
      /\ entities'[head.id].content = entities[head.id].content
      /\ entities'[head.id].vector = head.vector
  <2>1. ShapedEntity(entities[head.id])
    BY <1>5 DEF Sound, Shaped, EntitiesShaped
  <2> QED BY <1>7, <2>1, VectorFields
<1>9. \A j \in Stored : VectorOf(entities'[j], model) = VectorOf(entities[j], model)
  BY <1>7, <1>8 DEF VectorOf
<1>10. \A i : i = head.id /\ i \notin contended \cup Imported => VectorRight(i)'
  BY <1>1, <1>5, <1>8, <1>9 DEF VectorRight
<1>11. \A j \in Stored \ {head.id} : VectorRight(j) => VectorRight(j)'
  BY <1>1, <1>7 DEF VectorRight
<1>12. tail # <<>> <=> Len(call[c].todo) # 1
  <2>1. tail = <<>> <=> Len(tail) = 0
    BY <1>4, EmptyHasNone DEF IsSeq
  <2> QED BY <1>4, <2>1
<1>13. ASSUME NEW i \in Stored, Settled(c, i)
       PROVE  Settled(c, i)'
  <2>1. CASE i \in call[c].failed \cup contended \cup Imported \cup Retyped(c)
    BY <1>6, <2>1 DEF Settled
  <2>2. CASE i = head.id /\ i \notin contended \cup Imported
    BY <1>10, <2>2 DEF Settled
  <2>3. CASE i # head.id /\ VectorRight(i)
    BY <1>11, <2>3 DEF Settled
  <2>4. CASE i # head.id /\ \E x \in ToSet(call[c].todo) : x.id = i
    <3>1. PICK x \in ToSet(tail) : x.id = i
      BY <1>4, <2>4
    <3>2. tail # <<>>
      BY <3>1, EmptyIsSeq
    <3> QED BY <1>1, <1>6, <1>12, <3>1, <3>2 DEF Settled
  <2> QED BY <1>13, <2>1, <2>2, <2>3, <2>4 DEF Settled
<1>14. call'[c].pc = "vectors" => VectorsToWrite(c)'
  BY <1>1, <1>3, <1>4, <1>6, <1>7, <1>9, <1>12 DEF VectorsToWrite
<1>15. \A k \in 1..call[c].total : order[k] \in Stored
  <2>1. /\ order \in Seq(Ids) /\ ToSet(order) = Stored /\ Len(order) \in Nat
        /\ call[c].total \in Nat /\ call[c].total <= Len(order)
    BY DEF OrderInv, Reaching
  <2>2. \A k \in 1..call[c].total : k \in DOMAIN order
    BY <2>1
  <2> QED BY <2>1, <2>2 DEF ToSet
<1> QED BY <1>2, <1>6, <1>7, <1>13, <1>14, <1>15 DEF Reaching

\* The steps of the others.
LEMMA OthersReach ==
  ASSUME Sound, Sound', NamesInv, NamesInv', VectorInv, OrderInv, NoneDeletes,
         NEW r \in Clients, NEW c \in Clients \ {r}, Op(r) = "reembed", call[r].pc # "idle",
         Op(c) # "reembed", Reaching(r), Step(c) \/ ImportStep(c), call[c].pc # "done",
         \A d \in call[r].ended : d \in Clients /\ call[d].pc = "done",
         contended \subseteq contended', Imported \subseteq Imported', Retyped(r)' = Retyped(r)
  PROVE  Reaching(r)'
<1>0. RetypesOnly(c) => request[c].id \in Retyped(r)
  BY DEF RetypesOnly, Retyped
<1>1. call'[r] = call[r] /\ model' = model /\ Writes(c)
  BY StepFrame, ModelStays, StepWrites DEF Sound, BeginReembed
<1>2. /\ Len(order) \in Nat /\ Len(order') \in Nat /\ Len(order) <= Len(order')
      /\ \A k \in 1..Len(order) : order'[k] = order[k]
      /\ Stored \subseteq Stored'
  BY <1>1, OrderGrows
<1>3. /\ call[r].offset \in Nat /\ call[r].total \in Nat /\ call[r].total <= Len(order)
      /\ call[r].counted = {order[k] : k \in 1..call[r].total}
      /\ \A k \in 1..call[r].total : k <= call[r].offset => Settled(r, order[k])
      /\ call[r].pc = "vectors" => VectorsToWrite(r)
      /\ call[r].pc = "done" => call[r].offset >= call[r].total
  BY DEF Reaching
<1>4. \A k \in 1..call[r].total : k \in 1..Len(order) /\ order'[k] = order[k] /\ order[k] \in Stored
  <2>1. order \in Seq(Ids) /\ ToSet(order) = Stored
    BY DEF OrderInv
  <2>2. \A k \in 1..call[r].total : k \in 1..Len(order) /\ k \in DOMAIN order
    BY <1>2, <1>3, <2>1
  <2> QED BY <1>2, <2>1, <2>2 DEF ToSet
<1>5. call[r].total <= Len(order')
  BY <1>2, <1>3
<1>6. call[r].counted = {order'[k] : k \in 1..call[r].total}
  BY <1>3, <1>4
<1>7. ASSUME NEW k \in 1..call[r].total, k <= call[r].offset
      PROVE  Settled(r, order[k])'
  <2>1. \A i : i = order[k] => Settled(r, i) /\ i \in Stored /\ i = order'[k]
    BY <1>3, <1>4, <1>7
  <2>2. ASSUME NEW i, Settled(r, i), i \in Stored
        PROVE  Settled(r, i)'
    <3>1. CASE i \in contended' \cup Imported' \cup call[r].failed \cup Retyped(r)
      BY <1>1, <3>1 DEF Settled
    <3>2. CASE i \notin contended' \cup Imported' \cup Retyped(r) /\ VectorRight(i)
      BY <1>0, <2>2, <3>2, VectorStays DEF Settled
    <3>3. CASE call[r].pc = "vectors" /\ \E x \in ToSet(call[r].todo) : x.id = i
      BY <1>1, <3>3 DEF Settled
    <3> QED BY <2>2, <3>1, <3>2, <3>3 DEF Settled
  <2> QED BY <2>1, <2>2
<1>8. ASSUME call[r].pc = "vectors"
      PROVE  VectorsToWrite(r)'
  <2>1. /\ IsSeq(call[r].todo) /\ call[r].todo # <<>>
        /\ \A x \in ToSet(call[r].todo) :
             /\ x.id \in Stored
             /\ x.id \notin contended \cup Imported =>
                  x.vector = VectorOf(entities[x.id], model)
    BY <1>3, <1>8 DEF VectorsToWrite
  <2>2. ASSUME NEW x \in ToSet(call[r].todo), x.id \notin contended' \cup Imported'
        PROVE  entities'[x.id] = entities[x.id]
    <3>1. WorksOn(r) = Ids /\ x.id \in Stored /\ x.id \in Stored'
      BY <1>2, <1>8, <2>1 DEF WorksOn, Running
    <3>2. x.id \in WorksOn(r) \ (contended' \cup Imported')
      BY <2>2, <3>1 DEF Sound, Shaped, EntitiesShaped
    <3>3. c \in Clients /\ r \in Clients \ {c}
      OBVIOUS
    <3> QED BY <3>1, <3>2, <3>3, OthersKeepIt DEF NamesInv
  <2> QED BY <1>1, <1>2, <2>1, <2>2 DEF VectorsToWrite
<1> QED BY <1>1, <1>3, <1>4, <1>5, <1>6, <1>7, <1>8 DEF Reaching

LEMMA StepKeepsReembeds ==
  ASSUME Sound, Sound', NamesInv, NamesInv', VectorInv, OrderInv, ReembedInv,
         NEW c \in Clients, Step(c) \/ ImportStep(c), contended \subseteq contended'
  PROVE  ReembedInv'
<1>1. /\ request' = request /\ Shaped
      /\ \A d \in Clients \ {c} : call'[d] = call[d]
      /\ Imported \subseteq Imported'
  BY StepFrame, ImportedGrows DEF Sound
<1>0. call[c].pc # "done" /\ \A d \in Clients : call[d].pc = "done" => call'[d].pc = "done"
  BY <1>1, DoneRests
<1> SUFFICES ASSUME NEW r \in Clients, Op(r) = "reembed"
             PROVE  /\ call'[r].pc = "idle" => call'[r].offset = 0
                    /\ call'[r].pc # "done" => call'[r].reply = "none"
                    /\ \A d \in call'[r].ended : d \in Clients /\ call'[d].pc = "done"
                    /\ call'[r].pc # "idle" /\ ~GivenUp(r)' /\ NoneDeletes' /\ NoOtherReembeds(r)'
                       => Reaching(r)'
  BY <1>1 DEF ReembedInv, Op
<1>2. /\ call[r].pc = "idle" => call[r].offset = 0
      /\ call[r].pc # "done" => call[r].reply = "none" /\ ~GivenUp(r)
      /\ \A d \in call[r].ended : d \in Clients /\ call[d].pc = "done"
      /\ call[r].pc # "idle" /\ ~GivenUp(r) /\ NoneDeletes /\ NoOtherReembeds(r) => Reaching(r)
  BY DEF ReembedInv, GivenUp
<1>3. NoneDeletes' => NoneDeletes
  BY <1>1 DEF NoneDeletes, Op
<1>4. NoOtherReembeds(r)' => NoOtherReembeds(r) /\ (c # r => Op(c) # "reembed")
  <2>1. Op(c) = "reembed" => call'[c].pc # "idle"
    BY <1>1, ReembedRuns
  <2> QED BY <1>1, <2>1 DEF NoOtherReembeds, Op
<1>5. call'[r].ended = call[r].ended => Retyped(r)' = Retyped(r)
  BY <1>1 DEF Retyped, Op
<1>6. CASE r = c
  <2>1. call'[c].pc # "idle"
    BY <1>1, <1>6, ReembedRuns
  <2>2. CASE BeginReembed(c)
    <3>1. /\ call[c].pc = "idle" /\ call'[c].reply = call[c].reply
          /\ call'[c].ended = {d \in Clients : call[d].pc = "done"}
      BY <1>1, <2>2, BeginReembedFields DEF Same, CallFields
    <3>2. call'[c].reply = "none"
      BY <1>2, <1>6, <3>1
    <3>3. NoneDeletes' => Reaching(c)'
      BY <1>2, <1>3, <1>6, <2>2, <3>1, BeginReaches
    <3>4. \A d \in call'[c].ended : d \in Clients /\ call'[d].pc = "done"
      BY <1>0, <3>1
    <3> QED BY <1>6, <2>1, <3>2, <3>3, <3>4
  <2>3. CASE Page(c)
    <3>1. /\ call[c].pc = "page" /\ call'[c].ended = call[c].ended
          /\ call'[c].pc # "done" => call'[c].reply = call[c].reply
      BY <1>1, <2>3, PageFields DEF Same, CallFields
    <3>2. call'[c].pc # "done" => call'[c].reply = "none"
      BY <1>2, <1>6, <3>1
    <3>3. ~GivenUp(c)' /\ NoneDeletes' /\ NoOtherReembeds(c)' => Reaching(c)'
      BY <1>1, <1>2, <1>3, <1>4, <1>5, <1>6, <2>3, <3>1, PageReaches
    <3>4. \A d \in call'[c].ended : d \in Clients /\ call'[d].pc = "done"
      BY <1>0, <1>2, <1>6, <3>1
    <3> QED BY <1>6, <2>1, <3>2, <3>3, <3>4
  <2>4. CASE WriteVector(c)
    <3>1. /\ call[c].pc = "vectors" /\ call'[c].ended = call[c].ended
          /\ call'[c].pc # "done" => call'[c].reply = call[c].reply
      BY <1>1, <2>4, WriteVectorFields DEF Same, CallFields
    <3>2. call'[c].pc # "done" => call'[c].reply = "none"
      BY <1>2, <1>6, <3>1
    <3>3. ~GivenUp(c)' /\ NoneDeletes' /\ NoOtherReembeds(c)' => Reaching(c)'
      BY <1>1, <1>2, <1>3, <1>4, <1>5, <1>6, <2>4, <3>1, WriteVectorReaches
    <3>4. \A d \in call'[c].ended : d \in Clients /\ call'[d].pc = "done"
      BY <1>0, <1>2, <1>6, <3>1
    <3> QED BY <1>6, <2>1, <3>2, <3>3, <3>4
  <2> QED BY <1>1, <1>6, <2>2, <2>3, <2>4, StepsOf
<1>7. CASE r # c
  <2>1. call'[r] = call[r]
    BY <1>1, <1>7
  <2>2. GivenUp(r)' = GivenUp(r)
    BY <2>1 DEF GivenUp
  <2>3. /\ call[r].pc # "idle" /\ ~GivenUp(r) /\ NoneDeletes' /\ NoOtherReembeds(r)'
        => Reaching(r)'
    BY <1>0, <1>1, <1>2, <1>3, <1>4, <1>5, <1>7, <2>1, OthersReach
  <2> QED BY <1>0, <1>2, <2>1, <2>2, <2>3
<1> QED BY <1>6, <1>7

\* Together.
LEMMA StutterKeepsReembeds ==
  ASSUME OrderInv, VectorInv, ReembedInv, UNCHANGED vars
  PROVE  OrderInv' /\ VectorInv' /\ ReembedInv'
<1>1. /\ request' = request /\ call' = call /\ entities' = entities /\ order' = order
      /\ contended' = contended /\ model' = model
  BY DEF vars, storeVars, aside
<1>2. \A c : Op(c)' = Op(c) /\ Embeds(c)' = Embeds(c) /\ GivenUp(c)' = GivenUp(c)
  BY <1>1 DEF Op, Embeds, Wanted, MergedContent, GivenUp
<1>3. NoneDeletes' = NoneDeletes /\ Imported' = Imported /\ Stored' = Stored
  BY <1>1 DEF NoneDeletes, Imported, Op, Stored
<1>4. \A c : NoOtherReembeds(c)' = NoOtherReembeds(c) /\ Retyped(c)' = Retyped(c)
  BY <1>1 DEF NoOtherReembeds, Retyped, Op
<1>5. \A c : VectorsToWrite(c)' = VectorsToWrite(c)
  BY <1>1, <1>3 DEF VectorsToWrite
<1>6. \A c : Reaching(c)' = Reaching(c)
  BY <1>1, <1>3, <1>4, <1>5 DEF Reaching, Settled, VectorRight
<1> QED BY <1>1, <1>2, <1>3, <1>4, <1>6 DEF OrderInv, VectorInv, ReembedInv

LEMMA InitHasReembeds ==
  ASSUME Init
  PROVE  OrderInv /\ VectorInv /\ ReembedInv
<1>1. call = [c \in Clients |-> NoCall] /\ StoreInit
  BY DEF Init
<1>2. NoCall.pc = "idle" /\ NoCall.offset = 0 /\ NoCall.reply = "none" /\ NoCall.ended = {}
  BY NoCallFields
<1>3. OrderInv
  BY <1>1 DEF OrderInv, StoreInit, ToSet
<1>4. VectorInv /\ ReembedInv
  BY <1>1, <1>2 DEF VectorInv, ReembedInv, GivenUp
<1> QED BY <1>3, <1>4

\* No entity that a re-embedding counted keeps an embedding of an older model or text
\* once the call has come through all pages, though it pages by offset against a count
\* taken once and reads a page before it writes its vectors: unless the entity is reported
\* as failed, another call worked on it meanwhile, an archive wrote it, an update gave it a
\* type and nothing else, entities were deleted or another re-embedding has begun.  A call
\* that its threshold of failures, an abort signal or a throwing handler ended promises
\* nothing (EntityManager.reembedAll).
THEOREM ReembedReachesEveryEntity == ImportSpec => []ReembedReachesAll
<1>1. Init => OrderInv /\ VectorInv /\ ReembedInv
  BY InitHasReembeds
<1>2. /\ (Sound /\ NamesInv) /\ (Sound /\ NamesInv)' /\ [ImportNext]_vars
      /\ OrderInv /\ VectorInv /\ ReembedInv
      => (OrderInv /\ VectorInv /\ ReembedInv)'
  <2> SUFFICES ASSUME Sound, NamesInv, Sound', NamesInv', OrderInv, VectorInv, ReembedInv,
                      [ImportNext]_vars
               PROVE  OrderInv' /\ VectorInv' /\ ReembedInv'
    OBVIOUS
  <2>1. CASE UNCHANGED vars
    BY <2>1, StutterKeepsReembeds
  <2>2. CASE ImportNext
    <3>1. PICK c \in Clients : Step(c) \/ ImportStep(c)
      BY <2>2 DEF ImportNext
    <3>2. contended \subseteq contended'
      BY <2>2 DEF ImportNext
    <3>3. request' = request /\ Writes(c)
      BY <3>1, StepFrame, StepWrites DEF Sound
    <3>4. OrderInv'
      <4>1. NoneDeletes' = NoneDeletes
        BY <3>3 DEF NoneDeletes, Op
      <4> QED BY <3>3, <4>1, OrderGrows DEF OrderInv
    <3>5. VectorInv'
      BY <3>1, <3>2, StepKeepsVectors DEF NamesInv
    <3>6. ReembedInv'
      BY <3>1, <3>2, StepKeepsReembeds
    <3> QED BY <3>4, <3>5, <3>6
  <2> QED BY <2>1, <2>2
<1>3. ASSUME OrderInv, ReembedInv
      PROVE  ReembedReachesAll
  <2> SUFFICES ASSUME NEW c \in Clients, Op(c) = "reembed", call[c].reply = "reembedded",
                      NoneDeletes, NoOtherReembeds(c),
                      NEW i \in call[c].counted \ (call[c].failed \cup contended \cup Imported \cup Retyped(c))
               PROVE  VectorRight(i)
    BY DEF ReembedReachesAll, VectorRight
  <2>0. call[c].pc = "done" /\ ~GivenUp(c)
    BY <1>3 DEF ReembedInv, GivenUp
  <2>1. /\ call[c].offset \in Nat /\ call[c].total \in Nat /\ call[c].offset >= call[c].total
        /\ call[c].counted = {order[k] : k \in 1..call[c].total}
        /\ \A k \in 1..call[c].total : k <= call[c].offset => Settled(c, order[k])
    BY <1>3, <2>0 DEF ReembedInv, Reaching
  <2>2. PICK k \in 1..call[c].total : i = order[k]
    BY <2>1
  <2>3. k <= call[c].offset
    BY <2>1
  <2> QED BY <2>0, <2>1, <2>2, <2>3 DEF Settled
<1>4. OrderInv /\ ReembedInv => ReembedReachesAll
  BY <1>3
<1> QED BY <1>1, <1>2, <1>4, CallsKeepNames, PTL DEF ImportSpec

-----------------------------------------------------------------------------
\* A merge that runs alone.
Accounted(c, n) ==
  LET row == request[c].rows[n] IN
  \/ row.id \in call[c].failed
  \/ IF IsEntity(row) THEN row.id \in ToSet(call[c].created)
     ELSE row.id \in DOMAIN relationships

\* Rows gone by are accounted for; what was looked up for the current row is still so.
MergingAlone(c) ==
  /\ IsSeq(call[c].created)
  /\ call[c].pc # "done" => call[c].reply = "none"
  /\ call[c].pc \in {"row", "merge", "copy", "relationship"} =>
       \A n \in 1..(call[c].member - 1) : Accounted(c, n)
  /\ call[c].pc \in {"merge", "copy"} =>
       IsSeq(call[c].read) /\ ToSet(call[c].read) = Existing(Row(c))
  /\ call[c].pc = "copy" => SlugHolder(CopySlug(c)) = {}
  /\ call[c].pc = "relationship" => ~RefusesRelationship(Row(c).id, Row(c).rel)
  /\ call[c].pc = "done" =>
       \/ call[c].reply = "abandoned" /\ request[c].conflict = "overwrite" /\ CrossMatch(c, Row(c))
       \/ call[c].reply = "imported" /\ \A n \in DOMAIN request[c].rows : Accounted(c, n)

LoneInv ==
  \A c \in Clients : Op(c) = "merge" /\ DOMAIN request = {c} => MergingAlone(c)

LEMMA OnlyRequestsRun ==
  ASSUME Shaped, NEW c \in Clients, Op(c) = "none"
  PROVE  ~Step(c) /\ ~ImportStep(c)
<1> USE OpAt
<1>1. ~BeginCreate(c) /\ ~BeginUpdate(c) /\ ~Hook(c) /\ ~PickSlug(c) /\ ~WriteCreate(c)
  BY DEF BeginCreate, BeginUpdate, Hook, PickSlug, WriteCreate
<1>2. ~WriteUpdate(c) /\ ~Delete(c) /\ ~Index(c) /\ ~Return(c)
  BY DEF WriteUpdate, Delete, Index, Return
<1>3. ~BeginReembed(c) /\ ~Page(c) /\ ~WriteVector(c)
  BY DEF BeginReembed, Page, WriteVector
<1>4. ~BeginRelate(c) /\ ~WriteRelationship(c) /\ ~RemoveRelationships(c) /\ ~Purge(c)
  BY DEF BeginRelate, WriteRelationship, RemoveRelationships, Purge
<1>5. ~BeginImport(c) /\ ~ImportRow(c) /\ ~LookUp(c) /\ ~LookUpRelationship(c)
  BY DEF BeginImport, ImportRow, LookUp, LookUpRelationship
<1>6. ~TrySlug(c) /\ ~MergeEntity(c) /\ ~MergeRelationship(c)
  BY DEF TrySlug, MergeEntity, MergeRelationship
<1> QED BY <1>1, <1>2, <1>3, <1>4, <1>5, <1>6 DEF Step, ImportStep

\* What a row and its predecessors have come to stays so.
LEMMA AccountedStays ==
  ASSUME NEW c, NEW n, Accounted(c, n), request' = request,
         call[c].failed \subseteq call'[c].failed,
         ToSet(call[c].created) \subseteq ToSet(call'[c].created),
         DOMAIN relationships \subseteq DOMAIN relationships'
  PROVE  Accounted(c, n)'
BY DEF Accounted, IsEntity

\* The end of a row that is accounted for.
LEMMA RowAccounted ==
  ASSUME Shaped, NEW c \in Clients, Op(c) = "merge", MergingAlone(c), request' = request,
         call[c].pc \in {"row", "merge", "copy", "relationship"},
         DOMAIN relationships \subseteq DOMAIN relationships',
         NEW cl, IsCall(cl), call'[c] = NextRow(c, cl),
         cl.member = call[c].member, cl.reply = "none", IsSeq(cl.created),
         call[c].failed \subseteq cl.failed, ToSet(call[c].created) \subseteq ToSet(cl.created),
         \/ Row(c).id \in cl.failed
         \/ IF IsEntity(Row(c)) THEN Row(c).id \in ToSet(cl.created)
            ELSE Row(c).id \in DOMAIN relationships'
  PROVE  MergingAlone(c)'
<1> DEFINE a == NextRow(c, cl)
           m == call[c].member
<1>2. call'[c] = a
  OBVIOUS
<1>9. /\ \/ /\ m < Len(request[c].rows)
            /\ a.pc = "row" /\ a.member = cl.member + 1 /\ a.reply = cl.reply
         \/ /\ ~(m < Len(request[c].rows))
            /\ a.pc = "done" /\ a.member = cl.member /\ a.reply = "imported"
      /\ Same(a, cl, CallFields \ {"pc", "member", "reply"})
  BY NextRowFields
<1> HIDE DEF a
<1>1. /\ \/ /\ m < Len(request[c].rows)
            /\ a.pc = "row" /\ a.member = m + 1 /\ a.reply = "none"
         \/ /\ ~(m < Len(request[c].rows))
            /\ a.pc = "done" /\ a.member = m /\ a.reply = "imported"
      /\ Same(a, cl, CallFields \ {"pc", "member", "reply"})
  BY <1>9
<1>3. call'[c].failed = cl.failed /\ call'[c].created = cl.created
  BY <1>1, <1>2 DEF Same, CallFields
<1>4. m \in 1..Len(request[c].rows) /\ request[c].rows \in Seq(ArchiveRow)
  <2>1. ImportShaped(c)
    BY DEF Shaped, CallShaped
  <2> QED BY <2>1, AskedImport DEF ImportShaped, Shaped
<1>5. DOMAIN request[c].rows = 1..Len(request[c].rows) /\ Len(request[c].rows) \in Nat /\ m \in Nat
  BY <1>4
<1>6. ASSUME NEW n \in 1..m
      PROVE  Accounted(c, n)'
  <2>1. CASE n = m
    BY <1>3, <2>1 DEF Accounted, Row, IsEntity
  <2>2. CASE n # m
    <3>1. n \in 1..(m - 1)
      BY <1>5, <2>2
    <3>2. Accounted(c, n)
      BY <3>1 DEF MergingAlone
    <3> QED BY <1>3, <3>2, AccountedStays
  <2> QED BY <2>1, <2>2
<1>7. CASE m < Len(request[c].rows) /\ a.pc = "row" /\ a.member = m + 1 /\ a.reply = "none"
  <2>1. 1..(call'[c].member - 1) = 1..m
    BY <1>2, <1>5, <1>7
  <2> QED BY <1>2, <1>3, <1>6, <1>7, <2>1 DEF MergingAlone
<1>8. CASE ~(m < Len(request[c].rows)) /\ a.pc = "done" /\ a.member = m /\ a.reply = "imported"
  <2>1. DOMAIN request[c].rows = 1..m
    BY <1>4, <1>5, <1>8
  <2> QED BY <1>2, <1>3, <1>6, <1>8, <2>1 DEF MergingAlone
<1> QED BY <1>1, <1>7, <1>8

\* A row that is skipped.
LEMMA SkipAccounts ==
  ASSUME Shaped, NEW c \in Clients, Op(c) = "merge", MergingAlone(c), request' = request,
         call[c].pc \in {"row", "merge", "copy", "relationship"},
         DOMAIN relationships \subseteq DOMAIN relationships', call'[c] = Skip(c)
  PROVE  MergingAlone(c)'
<1> DEFINE cl == [call[c] EXCEPT !.failed = @ \cup {Row(c).id}]
<1>1. IsCall(call[c])
  BY DEF Shaped, CallShaped
<1>2. /\ IsCall(cl) /\ cl.failed = call[c].failed \cup {Row(c).id}
      /\ cl.member = call[c].member /\ cl.reply = call[c].reply /\ cl.created = call[c].created
  BY <1>1 DEF IsCall, CallFields
<1>3. call'[c] = NextRow(c, cl)
  BY DEF Skip
<1>4. call[c].reply = "none" /\ IsSeq(call[c].created)
  BY DEF MergingAlone
<1> HIDE DEF cl
<1> QED BY <1>2, <1>3, <1>4, RowAccounted

\* Steps within a row that write nothing.
LEMMA WithinRow ==
  ASSUME NEW c \in Clients, MergingAlone(c), request' = request,
         UNCHANGED storeVars, call[c].pc \in {"row", "merge"},
         call'[c].pc \in {"merge", "copy", "relationship"},
         call'[c].member = call[c].member, call'[c].failed = call[c].failed,
         call'[c].created = call[c].created, call'[c].reply = call[c].reply,
         call'[c].pc \in {"merge", "copy"} =>
           IsSeq(call'[c].read) /\ ToSet(call'[c].read) = Existing(Row(c)),
         call'[c].pc = "copy" => call'[c].n = call[c].n /\ SlugHolder(CopySlug(c)) = {},
         call'[c].pc = "relationship" => ~RefusesRelationship(Row(c).id, Row(c).rel)
  PROVE  MergingAlone(c)'
<1>1. Row(c)' = Row(c)
  BY DEF Row
<1>2. \A row : Existing(row)' = Existing(row)
  BY DEF Existing, SlugHolder, Stored, storeVars
<1>3. Existing(Row(c))' = Existing(Row(c))
  BY <1>1, <1>2
<1>4. call'[c].pc = "copy" => SlugHolder(CopySlug(c))' = {}
  <2> SUFFICES ASSUME call'[c].pc = "copy"
               PROVE  SlugHolder(CopySlug(c))' = {}
    OBVIOUS
  <2>1. CopySlug(c)' = CopySlug(c)
    BY <1>1 DEF CopySlug
  <2>2. \A s : SlugHolder(s)' = SlugHolder(s)
    BY DEF SlugHolder, Stored, storeVars
  <2> QED BY <2>1, <2>2
<1>5. call'[c].pc = "relationship" => ~RefusesRelationship(Row(c).id, Row(c).rel)'
  BY <1>1 DEF RefusesRelationship, Stored, storeVars
<1>6. \A n \in 1..(call[c].member - 1) : Accounted(c, n)'
  BY AccountedStays DEF MergingAlone, storeVars
<1>7. call[c].reply = "none" /\ IsSeq(call[c].created)
  BY DEF MergingAlone
<1> QED BY <1>3, <1>4, <1>5, <1>6, <1>7 DEF MergingAlone

LEMMA BeginMergesAlone ==
  ASSUME Shaped, NEW c \in Clients, Op(c) = "merge", MergingAlone(c), BeginImport(c)
  PROVE  MergingAlone(c)'
<1> DEFINE row == [call[c] EXCEPT !.pc = "row"]
           a == Answer(call[c], "imported")
<1>1. /\ call[c].pc = "idle" /\ request' = request
      /\ \/ request[c].rows = <<>> /\ call'[c] = a
         \/ call'[c] = row
  BY OwnRecord DEF BeginImport, aside
<1>2. IsCall(call[c]) /\ call[c].member = 1 /\ call[c].reply = "none" /\ IsSeq(call[c].created)
  BY <1>1 DEF Shaped, CallShaped, ImportShaped, MergingAlone
<1>3. /\ row.pc = "row" /\ row.member = call[c].member /\ row.reply = call[c].reply
      /\ row.created = call[c].created
  BY <1>2 DEF IsCall, CallFields
<1>4. a.pc = "done" /\ a.reply = "imported" /\ a.created = call[c].created
  BY <1>2, AnswerFields DEF Same, CallFields
<1> HIDE DEF row, a
<1>5. CASE request[c].rows = <<>> /\ call'[c] = a
  <2>1. DOMAIN request'[c].rows = {}
    BY <1>1, <1>5
  <2> QED BY <1>2, <1>4, <1>5, <2>1 DEF MergingAlone
<1>6. CASE call'[c] = row
  <2>1. 1..(call'[c].member - 1) = {}
    BY <1>2, <1>3, <1>6
  <2> QED BY <1>2, <1>3, <1>6, <2>1 DEF MergingAlone
<1> QED BY <1>1, <1>5, <1>6

LEMMA ExistingIsFinite ==
  ASSUME Shaped, NEW row
  PROVE  /\ Existing(row) \subseteq Stored /\ IsFiniteSet(Existing(row))
         /\ IsSeq(SetToSeq(Existing(row))) /\ ToSet(SetToSeq(Existing(row))) = Existing(row)
<1>1. Existing(row) \subseteq Stored
  BY DEF Existing, SlugHolder
<1>2. IsFiniteSet(Existing(row))
  BY <1>1, FS_Subset DEF Shaped
<1> QED BY <1>1, <1>2, SetToSeqIsSeq

LEMMA LookUpAlone ==
  ASSUME Shaped, NEW c \in Clients, Op(c) = "merge", MergingAlone(c), LookUp(c)
  PROVE  MergingAlone(c)'
<1> DEFINE read == SetToSeq(Existing(Row(c)))
           next == [call[c] EXCEPT !.pc = "merge", !.read = read, !.n = 1]
<1>1. /\ call[c].pc = "row" /\ request' = request /\ UNCHANGED storeVars
      /\ call'[c] = next \/ call'[c] = Skip(c)
  BY OwnRecord DEF LookUp, aside
<1>2. IsCall(call[c])
  BY DEF Shaped, CallShaped
<1>3. IsSeq(read) /\ ToSet(read) = Existing(Row(c))
  BY ExistingIsFinite
<1> HIDE DEF read
<1>4. /\ next.pc = "merge" /\ next.read = read /\ next.member = call[c].member
      /\ next.failed = call[c].failed /\ next.created = call[c].created
      /\ next.reply = call[c].reply
  BY <1>2 DEF IsCall, CallFields
<1> HIDE DEF next
<1>5. CASE call'[c] = next
  BY <1>1, <1>3, <1>4, <1>5, WithinRow
<1>6. CASE call'[c] = Skip(c)
  BY <1>1, <1>6, SkipAccounts DEF storeVars
<1> QED BY <1>1, <1>5, <1>6

LEMMA TrySlugAlone ==
  ASSUME Shaped, NEW c \in Clients, Op(c) = "merge", MergingAlone(c), TrySlug(c)
  PROVE  MergingAlone(c)'
<1> DEFINE again == [call[c] EXCEPT !.n = @ + 1]
           copy == [call[c] EXCEPT !.pc = "copy"]
<1>1. /\ call[c].pc = "merge" /\ request' = request /\ UNCHANGED storeVars
      /\ \/ call'[c] = again
         \/ call'[c] = copy /\ SlugHolder(CopySlug(c)) = {}
  BY OwnRecord DEF TrySlug, aside
<1>2. IsCall(call[c]) /\ IsSeq(call[c].read) /\ ToSet(call[c].read) = Existing(Row(c))
  BY <1>1 DEF Shaped, CallShaped, MergingAlone
<1>3. /\ again.pc = call[c].pc /\ again.read = call[c].read /\ again.member = call[c].member
      /\ again.failed = call[c].failed /\ again.created = call[c].created
      /\ again.reply = call[c].reply
  BY <1>2 DEF IsCall, CallFields
<1>4. /\ copy.pc = "copy" /\ copy.read = call[c].read /\ copy.member = call[c].member
      /\ copy.failed = call[c].failed /\ copy.created = call[c].created
      /\ copy.reply = call[c].reply /\ copy.n = call[c].n
  BY <1>2 DEF IsCall, CallFields
<1> HIDE DEF again, copy
<1>5. CASE call'[c] = again
  BY <1>1, <1>2, <1>3, <1>5, WithinRow
<1>6. CASE call'[c] = copy /\ SlugHolder(CopySlug(c)) = {}
  BY <1>1, <1>2, <1>4, <1>6, WithinRow
<1> QED BY <1>1, <1>5, <1>6

\* The only refusal left is that of a row that matches two entities.
LEMMA RefusalIsCrossMatch ==
  ASSUME Shaped, NEW c \in Clients, Op(c) = "merge", MergingAlone(c), MergeRefused(c),
         \/ call[c].pc = "copy"
         \/ call[c].pc = "merge" /\ (call[c].read = <<>> \/ request[c].conflict # "rename")
  PROVE  request[c].conflict = "overwrite" /\ CrossMatch(c, Row(c))
<1> DEFINE row == Row(c)
           read == call[c].read
<1>1. /\ IsEntity(row) /\ IsSeq(read) /\ ToSet(read) = Existing(row)
      /\ call[c].pc = "copy" =>
           SlugHolder(CopySlug(c)) = {} /\ read # <<>> /\ request[c].conflict = "rename"
  BY DEF Shaped, CallShaped, ImportShaped, MergingAlone
<1>2. \A s : \A i, j \in SlugHolder(s) : i = j
  BY DEF SlugHolder
<1>3. CASE read = <<>>
  <2>1. Existing(row) = {}
    BY <1>1, <1>3, EmptyIsSeq
  <2>2. row.id \notin Stored /\ SlugHolder(row.entity.slug) = {}
    BY <2>1 DEF Existing
  <2> QED BY <1>3, <2>2 DEF MergeRefused, RefusesSlug
<1>4. CASE read # <<>> /\ request[c].conflict = "overwrite"
  <2>1. read[1] \in Existing(row)
    <3>1. read \in Seq(Existing(row))
      BY <1>1 DEF IsSeq
    <3> QED BY <1>4, <3>1
  <2>2. read[1] \notin Stored \/ RefusesSlug(read[1], row.entity.slug)
    BY <1>4 DEF MergeRefused
  <2>3. CASE row.id \in Stored
    <3>1. read[1] = row.id
      BY <2>1, <2>3 DEF Existing
    <3> QED BY <1>1, <1>4, <2>2, <2>3, <3>1 DEF CrossMatch
  <2>4. CASE row.id \notin Stored
    <3>1. read[1] \in SlugHolder(row.entity.slug)
      BY <2>1, <2>4 DEF Existing
    <3>2. read[1] \in Stored
      BY <3>1 DEF SlugHolder
    <3> QED BY <1>2, <2>2, <3>1, <3>2 DEF RefusesSlug
  <2> QED BY <2>3, <2>4
<1>5. CASE read # <<>> /\ request[c].conflict = "rename"
  <2>1. SlugHolder(CopySlug(c)) = {}
    BY <1>1, <1>5
  <2> QED BY <1>5, <2>1 DEF MergeRefused, RefusesSlug
<1> QED BY <1>3, <1>4, <1>5 DEF MergeRefused

LEMMA MergeEntityAlone ==
  ASSUME Shaped, NEW c \in Clients, Op(c) = "merge", MergingAlone(c), MergeEntity(c)
  PROVE  MergingAlone(c)'
<1> DEFINE next == [call[c] EXCEPT !.created = Append(@, Row(c).id), !.wrote = @ \cup {Written(c)}]
           a == Answer(call[c], "abandoned")
<1>1. /\ \/ call[c].pc = "copy"
         \/ call[c].pc = "merge" /\ (call[c].read = <<>> \/ request[c].conflict # "rename")
      /\ request' = request
      /\ \/ MergeWrite(c) /\ call'[c] = NextRow(c, next)
         \/ MergeRefused(c) /\ UNCHANGED storeVars /\ call'[c] = a
  <2>1. \/ MergeWrite(c) /\ Becomes(c, NextRow(c, next))
        \/ MergeRefused(c) /\ UNCHANGED storeVars /\ Becomes(c, a)
    BY DEF MergeEntity
  <2> HIDE DEF next, a
  <2> QED BY <2>1, OwnRecord DEF MergeEntity
<1>2. /\ IsCall(call[c]) /\ IsEntity(Row(c))
      /\ call[c].reply = "none" /\ IsSeq(call[c].created)
  BY <1>1 DEF Shaped, CallShaped, ImportShaped, MergingAlone
<1>3. /\ IsCall(next) /\ next.created = Append(call[c].created, Row(c).id)
      /\ next.member = call[c].member /\ next.reply = call[c].reply
      /\ next.failed = call[c].failed
  BY <1>2 DEF IsCall, CallFields
<1>4. /\ a.pc = "done" /\ a.reply = "abandoned" /\ a.created = call[c].created
      /\ a.member = call[c].member
  BY <1>2, AnswerFields DEF Same, CallFields
<1> HIDE DEF next, a
<1>5. CASE MergeWrite(c) /\ call'[c] = NextRow(c, next)
  <2>1. relationships' = relationships
    BY <1>5 DEF MergeWrite, CreateEntity, UpdateEntity
  <2>2. IsSeq(next.created) /\ ToSet(next.created) = ToSet(call[c].created) \cup {Row(c).id}
    BY <1>2, <1>3, AppendIsSeq
  <2> QED BY <1>1, <1>2, <1>3, <1>5, <2>1, <2>2, RowAccounted
<1>6. CASE MergeRefused(c) /\ UNCHANGED storeVars /\ call'[c] = a
  <2>1. request[c].conflict = "overwrite" /\ CrossMatch(c, Row(c))
    BY <1>1, <1>6, RefusalIsCrossMatch
  <2>2. Row(c)' = Row(c)
    BY <1>1, <1>4, <1>6 DEF Row
  <2>3. CrossMatch(c, Row(c))'
    BY <1>6, <2>1, <2>2 DEF CrossMatch, IsEntity, RefusesSlug, SlugHolder, Stored, storeVars
  <2> QED BY <1>1, <1>2, <1>4, <1>6, <2>1, <2>3 DEF MergingAlone
<1> QED BY <1>1, <1>5, <1>6

LEMMA RelationshipAlone ==
  ASSUME Shaped, NEW c \in Clients, Op(c) = "merge", MergingAlone(c),
         LookUpRelationship(c) \/ MergeRelationship(c)
  PROVE  MergingAlone(c)'
<1> DEFINE next == [call[c] EXCEPT !.pc = "relationship"]
<1>1. IsCall(call[c]) /\ ImportShaped(c)
  BY DEF Shaped, CallShaped
<1>2. /\ next.pc = "relationship" /\ next.member = call[c].member
      /\ next.failed = call[c].failed /\ next.created = call[c].created
      /\ next.reply = call[c].reply
  BY <1>1 DEF IsCall, CallFields
<1>3. CASE LookUpRelationship(c)
  <2>1. /\ call[c].pc = "row" /\ request' = request /\ UNCHANGED storeVars
        /\ \/ call'[c] = Skip(c)
           \/ call'[c] = next /\ ~RefusesRelationship(Row(c).id, Row(c).rel)
    BY <1>3, OwnRecord DEF LookUpRelationship, aside
  <2> HIDE DEF next
  <2>2. CASE call'[c] = Skip(c)
    BY <2>1, <2>2, SkipAccounts DEF storeVars
  <2>3. CASE call'[c] = next /\ ~RefusesRelationship(Row(c).id, Row(c).rel)
    BY <1>2, <2>1, <2>3, WithinRow
  <2> QED BY <2>1, <2>2, <2>3
<1>4. CASE MergeRelationship(c)
  <2>1. /\ call[c].pc = "relationship" /\ ~IsEntity(Row(c))
        /\ ~RefusesRelationship(Row(c).id, Row(c).rel)
        /\ call[c].reply = "none" /\ IsSeq(call[c].created)
    BY <1>1, <1>4 DEF MergeRelationship, ImportShaped, MergingAlone
  <2>2. /\ CreateRelationship(Row(c).id, Row(c).rel)
        /\ call'[c] = NextRow(c, call[c]) /\ request' = request
    BY <1>4, <2>1, OwnRecord DEF MergeRelationship, RefusesRelationship, aside
  <2>3. /\ DOMAIN relationships \subseteq DOMAIN relationships'
        /\ Row(c).id \in DOMAIN relationships'
    BY <2>2 DEF CreateRelationship, Put
  <2> QED BY <1>1, <2>1, <2>2, <2>3, RowAccounted
<1> QED BY <1>3, <1>4

LEMMA StepKeepsLone ==
  ASSUME Sound, LoneInv, NEW c \in Clients, Step(c) \/ ImportStep(c)
  PROVE  LoneInv'
<1>1. request' = request /\ Shaped
  BY StepFrame DEF Sound
<1> SUFFICES ASSUME NEW d \in Clients, Op(d) = "merge", DOMAIN request = {d}
             PROVE  MergingAlone(d)'
  BY <1>1 DEF LoneInv, Op
<1>2. MergingAlone(d)
  BY DEF LoneInv
<1>3. d = c
  <2>1. c # d => Op(c) = "none"
    BY DEF Op
  <2> QED BY <1>1, <2>1, OnlyRequestsRun
<1>4. \/ BeginImport(d) \/ LookUp(d) \/ TrySlug(d) \/ MergeEntity(d)
      \/ LookUpRelationship(d) \/ MergeRelationship(d)
  BY <1>1, <1>3, StepsOf
<1> QED BY <1>1, <1>2, <1>4, BeginMergesAlone, LookUpAlone, TrySlugAlone, MergeEntityAlone,
           RelationshipAlone

LEMMA StutterKeepsLone ==
  ASSUME LoneInv, UNCHANGED vars
  PROVE  LoneInv'
<1>1. UNCHANGED <<request, call, entities, slugIndex, relationships>>
  BY DEF vars, storeVars, aside
<1>2. Stored' = Stored /\ \A s : SlugHolder(s)' = SlugHolder(s)
  BY <1>1 DEF Stored, SlugHolder
<1>3. \A row : Existing(row)' = Existing(row)
  BY <1>2 DEF Existing
<1>4. \A c : Row(c)' = Row(c)
  BY <1>1 DEF Row
<1>5. \A c, n : Accounted(c, n)' = Accounted(c, n)
  BY <1>1 DEF Accounted, IsEntity
<1> QED BY <1>1, <1>2, <1>3, <1>4, <1>5
        DEF LoneInv, MergingAlone, Op, CopySlug, RefusesRelationship, CrossMatch, RefusesSlug, IsEntity

\* A merge that runs alone answers for every row of its archive, stored or reported, and is
\* abandoned only by an overwriting row that matches one entity by id and another by slug:
\* no slug is refused, no endpoint goes and no conflict comes between the look at a row and
\* its write (importStreamMerge).
THEOREM LoneMergesComplete == ImportSpec => []LoneMergeCompletes
<1>1. Init => LoneInv
  <2>1. NoCall.pc = "idle" /\ NoCall.reply = "none" /\ NoCall.created = <<>>
    BY DEF NoCall
  <2> QED BY <2>1, EmptyIsSeq DEF Init, LoneInv, MergingAlone
<1>2. Sound /\ LoneInv /\ [ImportNext]_vars => LoneInv'
  BY StepKeepsLone, StutterKeepsLone DEF ImportNext
<1>3. LoneInv => LoneMergeCompletes
  BY DEF LoneInv, MergingAlone, LoneMergeCompletes, Accounted
<1> QED BY <1>1, <1>2, <1>3, CallsStaySound, PTL DEF ImportSpec
=============================================================================
