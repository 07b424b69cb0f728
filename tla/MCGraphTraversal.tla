-------------------------- MODULE MCGraphTraversal ---------------------------
(***************************************************************************)
(* Questions for TLC about small graphs.                                    *)
(***************************************************************************)
EXTENDS GraphTraversal

Rel(id, source, target, type, bidirectional, passes) ==
  [id |-> id, source |-> source, target |-> target, type |-> type,
   bidirectional |-> bidirectional, passes |-> passes]

\* Paths of one, two and three relationships from s to t, two relationships between the
\* same entities, one that can only be followed backwards, and a loop.
Roads ==
  <<Rel(1, "s", "a", "X", FALSE, TRUE), Rel(2, "s", "b", "X", TRUE, TRUE),
    Rel(3, "a", "b", "Y", FALSE, TRUE), Rel(4, "t", "b", "X", TRUE, TRUE),
    Rel(5, "a", "t", "X", FALSE, TRUE), Rel(6, "a", "s", "Y", FALSE, TRUE),
    Rel(7, "s", "t", "X", FALSE, FALSE), Rel(8, "a", "a", "X", FALSE, TRUE)>>

Among(ids) == LET Chosen(r) == r.id \in ids IN SelectSeq(Roads, Chosen)

Kind == [e \in Entities |-> IF e \in {"s", "a"} THEN "K" ELSE "L"]

Providers == BreadthFirst \cup Compiled
Graphs == {Among(ids) : ids \in SUBSET RelationshipIds}
TypeFilters == {{"X"}, RelationshipTypes}
KindFilters == {{"K"}, EntityTypes}

PathQuestions ==
  [asks : {"paths"}, provider : Providers, stored : Graphs, type : {Kind},
   from : {"s"}, to : {"t"}, maxDepth : 1..3, direction : {"both"},
   relationshipTypes : TypeFilters, entityTypes : KindFilters,
   limit : {1, 5}, offset : {0, 1},
   starts : {<<>>}, steps : {<<>>}, returnMode : {"terminal"}]

SelfQuestions ==
  [asks : {"paths"}, provider : Providers, stored : {Among({1})}, type : {Kind},
   from : {"s"}, to : {"s"}, maxDepth : {1}, direction : {"both"},
   relationshipTypes : {{"X"}}, entityTypes : {EntityTypes}, limit : {1}, offset : {1},
   starts : {<<>>}, steps : {<<>>}, returnMode : {"terminal"}]

NeighborhoodQuestions ==
  [asks : {"neighborhood"}, provider : Providers, stored : Graphs, type : {Kind},
   from : {"s"}, to : {"s"}, maxDepth : 1..3, direction : Directions,
   relationshipTypes : TypeFilters, entityTypes : KindFilters, limit : {1}, offset : {0},
   starts : {<<>>}, steps : {<<>>}, returnMode : {"terminal"}]

Hop(direction, types, kinds) ==
  [direction |-> direction, relationshipTypes |-> types, entityTypes |-> kinds,
   times |-> 0, until |-> {}, emits |-> TRUE]

Loop(direction, kinds, times, until, emits) ==
  [direction |-> direction, relationshipTypes |-> RelationshipTypes, entityTypes |-> kinds,
   times |-> times, until |-> until, emits |-> emits]

Anywhere(direction) == Hop(direction, RelationshipTypes, EntityTypes)

\* None, one, two and four steps; filters on the way; there and back.
StepLists ==
  {<<>>, <<Anywhere("both")>>, <<Anywhere("out"), Anywhere("out")>>,
   <<Hop("both", {"X"}, {"K"}), Anywhere("both")>>,
   <<Anywhere("both"), Hop("in", RelationshipTypes, {"K"})>>,
   <<Anywhere("out"), Anywhere("out"), Anywhere("out"), Anywhere("out")>>}

LoopLists ==
  {<<Loop(d, kinds, 3, until, emits)>> :
     d \in {"out", "both"}, kinds \in KindFilters, until \in {{}, {"a"}}, emits \in BOOLEAN}
  \cup {<<Loop("both", EntityTypes, 2, {}, TRUE), Anywhere("in")>>,
        <<Loop("both", EntityTypes, 2, {"b"}, TRUE), Anywhere("both")>>}

Traversals(providers, graphs, lists, limits, modes) ==
  [asks : {"traversal"}, provider : providers, stored : graphs, type : {Kind},
   from : {"s"}, to : {"s"}, maxDepth : {1}, direction : {"both"},
   relationshipTypes : {RelationshipTypes}, entityTypes : {EntityTypes},
   limit : limits, offset : {0},
   starts : {<<"s">>, <<"s", "b">>}, steps : lists, returnMode : modes]

Modes == {"terminal", "path", "all"}

\* A compiled query repeats no step, and its order is the store's.
TraversalQuestions ==
  Traversals({"memory"}, Graphs, StepLists \cup LoopLists, {1, 4, 20}, Modes)
    \cup Traversals(Compiled, {Among({1, 2, 4}), Among({5, 6, 8})}, StepLists, {4, 20}, Modes)
    \cup Traversals({"cosmos"}, {Among({1})}, LoopLists, {4}, {"all"})

MCQuestions ==
  PathQuestions \cup SelfQuestions \cup NeighborhoodQuestions \cup TraversalQuestions
=============================================================================
