-------------------------- MODULE NeighborhoodSearch -------------------------
(***************************************************************************)
(* exploreNeighborhood of the four providers: layer after layer around an   *)
(* entity.  A layer is kept as the pairs of a relationship type and an      *)
(* entity that its buckets hold; the page shown of each bucket and the      *)
(* limit of 10,000 rows of a compiled traversal are left out.               *)
(***************************************************************************)
EXTENDS StoredGraph

VARIABLES
  round,      \* layers asked of the store so far
  visited,    \* entities of the layers so far, the center included
  frontier,   \* the entities of the last layer
  layers

neighborhoodVars == <<round, visited, frontier, layers>>

NeighborhoodInit ==
  /\ round = 0
  /\ visited = {question.from}
  /\ frontier = {question.from}
  /\ layers = <<>>

TypesOf(layer) == {p[1] : p \in layer}
EntitiesOf(layer) == {p[2] : p \in layer}

\* What a frontier reaches through relationships the options admit: the entities not
\* visited that fit, each under every relationship type that leads to it.
Reached(rels) ==
  {p \in {r.type : r \in rels} \X (Entities \ visited) :
     /\ Fits(p[2])
     /\ \E r \in rels, e \in frontier : r.type = p[1] /\ Admitted(r) /\ Leads(r, e, p[2])}

MoreRounds ==
  /\ AsksFor("neighborhood")
  /\ round < question.maxDepth
  /\ frontier # {}

ForgetsOlderLayers(layer) ==
  /\ round' = round + 1
  /\ frontier' = EntitiesOf(layer)
  /\ visited' = frontier \cup EntitiesOf(layer)
  /\ UNCHANGED question

\* A layer is complete before any entity of it counts as visited.
Promote(layer) ==
  /\ round' = round + 1
  /\ frontier' = EntitiesOf(layer)
  /\ visited' = visited \cup EntitiesOf(layer)
  /\ UNCHANGED question

\* The in-memory provider appends a layer, an empty one included, and stops after it.
ExploreStored ==
  /\ MoreRounds /\ question.provider = "memory"
  /\ LET layer == Reached(Relationships)
     IN  layers' = Append(layers, layer) /\ Promote(layer)

\* The SQL provider marks an entity visited as it meets it, so that the layer has it
\* under one type only, the type of the row that came first.
ExploreRows ==
  /\ MoreRounds /\ question.provider = "sql"
  /\ LET reached == Reached(OfType)
     IN  \E first \in [EntitiesOf(reached) -> TypesOf(reached)] :
           LET layer == {<<first[e], e>> : e \in EntitiesOf(reached)}
           IN  /\ layer \subseteq reached
               /\ layers' = Append(layers, layer) /\ Promote(layer)

\* The relationships a compiled traversal of n steps returns: Cosmos those of every
\* walk of up to n steps, Neo4j those of the trails of exactly n.  Direction, property
\* filters and entity types are left to the client.
Retrieved(n) ==
  LET UsedIn(w) == {w.relationships[i] : i \in DOMAIN w.relationships}
      Used(k) == UNION {UsedIn(w) : w \in Trails(OfType, question.from, k)}
  IN  IF question.provider = "cosmos" THEN UNION {Used(k) : k \in 1..n} ELSE Used(n)

\* A compiled search repeats the traversal a step longer for each layer and appends a
\* layer only if it holds anything.
ExploreTraversal ==
  /\ MoreRounds /\ question.provider \in Compiled
  /\ LET layer == Reached(Retrieved(round + 1))
     IN  /\ layers' = IF layer = {} THEN layers ELSE Append(layers, layer)
         /\ Promote(layer)

NeighborhoodNext == ExploreStored \/ ExploreRows \/ ExploreTraversal

Explored == AsksFor("neighborhood") /\ ~MoreRounds

-----------------------------------------------------------------------------
\* The entities a walk of exactly n relationships leads to, in the direction asked for,
\* through entities that fit.
WalkEnds(n) ==
  LET ends[k \in Nat] ==
        IF k = 0 THEN {question.from}
        ELSE LET before == ends[k - 1]
             IN  {f \in Entities : Fits(f) /\ \E r \in Relationships, e \in before :
                                                Admitted(r) /\ Leads(r, e, f)}
  IN  ends[n]

AtDistance(n) == WalkEnds(n) \ UNION {WalkEnds(k) : k \in 0..(n - 1)}

\* The entities n relationships away and no fewer, with the type of each relationship
\* that leads to them from one at distance n - 1.
Buckets(n) ==
  LET nearer == AtDistance(n - 1)
      Pairs(f) == {<<r.type, f>> : r \in {s \in Relationships :
                     Admitted(s) /\ \E e \in nearer : Leads(s, e, f)}}
  IN  UNION {Pairs(f) : f \in AtDistance(n)}

\* Layer n of a neighbourhood holds exactly the entities n relationships away, in the
\* direction asked for and through entities that fit, under each relationship type that
\* leads to them (under one of these for SQL Server), and no layer is missing: every
\* provider gives the same layers, whatever its store returned that the client had to
\* filter, and although an entity counts as visited at a different point in each.
LayersAreDistances ==
  Explored =>
    /\ \A n \in DOMAIN layers :
         /\ layers[n] \subseteq Buckets(n)
         /\ EntitiesOf(layers[n]) = AtDistance(n)
         /\ question.provider # "sql" => layers[n] = Buckets(n)
         /\ question.provider = "sql" => Cardinality(layers[n]) = Cardinality(AtDistance(n))
    /\ \A n \in 1..question.maxDepth : n > Len(layers) => AtDistance(n) = {}
=============================================================================
