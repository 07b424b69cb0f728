------------------------- MODULE MCMemoryRepository -------------------------
(***************************************************************************)
(* Instances of MemoryRepository and RepositoryImporter for TLC: one to     *)
(* three calls on two entities that are connected.                         *)
(***************************************************************************)
EXTENDS RepositoryImporter, TLC

MCContents == SUBSET {"p", "q"}
\* "q" is a summary, "p" a property that one type declares embeddable.
MCEmbeddable == [T |-> {"q"}, U |-> {"p", "q"}]
MCVectors ==
  {Embedding(type, l, content, m) : type \in Types, l \in Labels, content \in Contents, m \in Models}

StoredEntity(type, label, content) ==
  [type |-> type, label |-> label, slug |-> <<type, label, 1>>, content |-> content,
   vector |-> Embedding(type, label, content, "old")]

Plan(asked, n) ==
  [asked |-> asked, faults |-> n, model |-> "old", order |-> <<1, 2>>,
   entities |-> <<StoredEntity("T", "A", {"p"}), StoredEntity("T", "B", {})>>,
   relationships |-> 11 :> [kind |-> "K", source |-> 1, target |-> 2]]

Input(type, label, id) == [type |-> type, label |-> label, id |-> id, content |-> {}]
Create(inputs) == [op |-> "create", inputs |-> inputs]
Update(id, type, label, set, clear) ==
  [op |-> "update", id |-> id, patch |-> [type |-> type, label |-> label, set |-> set, clear |-> clear,
                                          reembed |-> FALSE]]
Retype(id, type, reembed) ==
  [op |-> "update", id |-> id, patch |-> [type |-> type, label |-> Keep, set |-> {}, clear |-> {},
                                          reembed |-> reembed]]
DeleteOf(ids) == [op |-> "delete", ids |-> ids]
Reembed(m) == [op |-> "reembed", model |-> m, threshold |-> {}]
ReembedUntil(m, n) == [op |-> "reembed", model |-> m, threshold |-> {n}]
Relate(source, target) ==
  [op |-> "relate", id |-> 12, rel |-> [kind |-> "K", source |-> source, target |-> target]]
Unrelate == [op |-> "unrelate", ids |-> {11, 12}]

EntityRow(id, type, label, content) ==
  [item |-> "entity", id |-> id, entity |-> [StoredEntity(type, label, content) EXCEPT !.vector.model = "new"]]
RelationshipRow(id, source, target) ==
  [item |-> "relationship", id |-> id, rel |-> [kind |-> "K", source |-> source, target |-> target]]
Import(rows) == [op |-> "import", rows |-> rows]
Merge(conflict, rows) == [op |-> "merge", conflict |-> conflict, rows |-> rows]

\* An entity stored under the same id, one whose slug another id has, a new one, and
\* a connection of each.
Archive == <<EntityRow(1, "T", "A", {"q"}), EntityRow(6, "T", "B", {}), EntityRow(5, "T", "C", {}),
             RelationshipRow(11, 1, 2), RelationshipRow(12, 5, 1)>>
\* The repository's own archive, later: a changed entity, a new one, a relationship
\* that is stored and one whose id is in use.
ArchiveOfOwn == <<EntityRow(1, "T", "A", {"q"}), EntityRow(5, "T", "C", {}),
                  RelationshipRow(12, 5, 1), RelationshipRow(11, 2, 1)>>
\* New entities that claim a stored slug, and one that claims the slug of a row before.
Claims == <<EntityRow(6, "T", "B", {}), EntityRow(5, "T", "B", {})>>
Copies == <<EntityRow(1, "T", "A", {}), EntityRow(6, "T", "A", {}), RelationshipRow(12, 6, 1)>>
Crossed == <<EntityRow(1, "T", "B", {"q"}), RelationshipRow(12, 2, 1)>>

Both == Create(<<Input("T", "C", Mint), Input("T", "C", Mint)>>)

\* Creations of one label that race for its slugs and a rename to it; updates of one
\* entity; a deletion against creation, update and connection; a re-embedding against
\* each of the others, one that failures stop and one beside changes of type; a caller's own id; rows that claim slugs against deletions, a creation and a rename.
MCPlans == {
  Plan([a |-> Both, b |-> Both, c |-> Update(1, Keep, "C", {}, {})], 0),
  Plan([a |-> Both, b |-> Update(1, "U", "C", {"q"}, {"p"})], 1),
  Plan([a |-> Update(1, "U", Keep, {}, {}), b |-> Update(1, Keep, "B", {"q"}, {}),
        c |-> DeleteOf({1, 3})], 1),
  Plan([a |-> Create(<<Input("U", "B", Mint), Input("T", "A", 1)>>), b |-> DeleteOf({1, 2}),
        c |-> Relate(2, 1)], 1),
  Plan([a |-> Reembed("new"), b |-> Both, c |-> Update(2, Keep, Keep, {"p"}, {})], 1),
  Plan([a |-> ReembedUntil("new", 1), b |-> DeleteOf({1}), c |-> Relate(1, 2)], 1),
  Plan([a |-> Reembed("new"), b |-> Retype(1, "U", FALSE), c |-> Retype(2, "U", TRUE)], 1),
  Plan([a |-> Unrelate, b |-> Relate(1, 2), c |-> DeleteOf({2})], 1),
  Plan([a |-> Create(<<>>), b |-> Merge("skip", <<>>)], 0),
  Plan([a |-> [op |-> "purge", type |-> "T"], b |-> Both, c |-> Relate(1, 2)], 0),
  Plan([a |-> [op |-> "purge", type |-> "K"], b |-> [op |-> "clear"], c |-> Update(1, Keep, "C", {}, {})], 0),
  Plan([a |-> Import(ArchiveOfOwn), b |-> DeleteOf({2, 5})], 0),
  Plan([a |-> Import(Claims), b |-> DeleteOf({2}), c |-> Create(<<Input("T", "B", Mint)>>)], 0),
  Plan([a |-> Import(Claims), b |-> Update(2, Keep, "A", {}, {}), c |-> DeleteOf({6})], 0),
  Plan([a |-> Merge("skip", Archive)], 0), Plan([a |-> Merge("overwrite", Archive)], 0),
  Plan([a |-> Merge("rename", Copies)], 0), Plan([a |-> Merge("overwrite", Crossed)], 0),
  Plan([a |-> Merge("overwrite", Archive), b |-> DeleteOf({1, 5}), c |-> Relate(1, 2)], 0),
  Plan([a |-> Merge("skip", Archive), b |-> Create(<<Input("T", "C", Mint)>>)], 0),
  Plan([a |-> Merge("rename", Copies), b |-> Merge("rename", Copies)], 0)}

=============================================================================
