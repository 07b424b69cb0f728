---------------------------- MODULE GraphTraversal ---------------------------
(***************************************************************************)
(* GraphTraversal over a storage provider: exploreNeighborhood, traverse,   *)
(* and findPaths by breadth-first search or, in the CosmosDB and Neo4j      *)
(* providers, by one compiled traversal whose rows the client filters.      *)
(***************************************************************************)
EXTENDS PathSearch, NeighborhoodSearch, Traversal

VARIABLE answer   \* the paths the caller is given, once it is given them

vars == <<question, searchVars, neighborhoodVars, traversalVars, answer>>

NoAnswer == {[unanswered |-> TRUE]}

Init ==
  /\ question \in Questions
  /\ SearchInit
  /\ NeighborhoodInit
  /\ TraversalInit
  /\ answer = NoAnswer

-----------------------------------------------------------------------------
(* The compiled search.                                                      *)

\* The rows a traversal that emits every step has: Cosmos those without a repeated
\* entity, the start alone among them, Neo4j those without a repeated relationship.
Candidates ==
  LET shortest == IF question.provider = "cosmos" THEN 0 ELSE 1
      rowsOf(n) == Trails({r \in OfType : r.passes}, question.from, n)
      all == UNION {rowsOf(n) : n \in shortest..question.maxDepth}
  IN  IF question.provider = "cosmos" THEN {w \in all : IsSimple(w)} ELSE all

\* The rows the traversal is asked for at most.
PoolSize == 10 * Wanted

\* The client drops the rows that end elsewhere, repeat an entity or visit one that
\* does not fit.
Matching(pool) ==
  {w \in pool : End(w) = question.to /\ IsSimple(w) /\ FitsBetween(w)}

PageSize(n) ==
  LET left == IF n > question.offset THEN n - question.offset ELSE 0
  IN  IF left < question.limit THEN left ELSE question.limit

\* The store returns rows in an order of its own.  When it has more than the pool holds,
\* what the client can match is whatever part of the matching rows the pool took.
ReadPool ==
  /\ Searching /\ question.provider \in Compiled
  /\ LET candidates == Candidates
         matching == Matching(candidates)
         others == Cardinality(candidates) - Cardinality(matching)
         taken == IF Cardinality(candidates) < PoolSize THEN Cardinality(candidates) ELSE PoolSize
     IN  \E matched \in SUBSET matching :
           /\ Cardinality(matched) <= taken
           /\ taken <= Cardinality(matched) + others
           /\ found' = SetToSeq(matched)
           /\ page' \in kSubset(PageSize(Cardinality(matched)), matched)
  /\ search' = "searched"
  /\ UNCHANGED <<question, queue, nextLevel, current, level, at, seenAt>>

-----------------------------------------------------------------------------
\* A filter on entity types was given.
FiltersEntities == question.entityTypes # EntityTypes

\* The caller is given the paths of the page all of whose entities fit, their ends
\* included, which storage always lets through.
Answer ==
  /\ AsksFor("paths") /\ search = "searched" /\ answer = NoAnswer
  /\ answer' = IF FiltersEntities
               THEN {p \in page : \A i \in DOMAIN p.entities : Fits(p.entities[i])}
               ELSE page
  /\ UNCHANGED <<question, searchVars>>

Finished ==
  /\ Explored \/ Traversed \/ answer # NoAnswer
  /\ UNCHANGED vars

Next ==
  \/ (PathNext \/ ReadPool) /\ UNCHANGED <<neighborhoodVars, traversalVars, answer>>
  \/ NeighborhoodNext /\ UNCHANGED <<searchVars, traversalVars, answer>>
  \/ TraversalNext /\ UNCHANGED <<searchVars, neighborhoodVars, answer>>
  \/ Answer /\ UNCHANGED <<neighborhoodVars, traversalVars>>
  \/ Finished

Spec == Init /\ [][Next]_vars

-----------------------------------------------------------------------------
\* The paths there are.
Paths ==
  {w \in UNION {Trails(Relationships, question.from, n) : n \in 0..question.maxDepth} : IsPath(w)}

ShortestPaths ==
  {p \in Paths : \A q \in Paths : Len(p.relationships) <= Len(q.relationships)}

\* A finished search found no path twice, and the right ones.  A breadth-first search,
\* which drops a path at any entity that was reached on a shorter one, still finds paths
\* in order of length and either every shortest path or, when it stops because the page
\* is full, none but shortest ones, so that it answers nothing only if nothing connects
\* the two.  A compiled search finds every path while the pool holds all rows.
SearchIsComplete ==
  AsksFor("paths") /\ search = "searched" =>
    /\ IsInjective(found)
    /\ question.provider \in BreadthFirst =>
         /\ \A i, j \in DOMAIN found : i < j => Len(found[i].entities) <= Len(found[j].entities)
         /\ \/ ShortestPaths \subseteq FoundPaths
            \/ Len(found) >= Wanted /\ FoundPaths \subseteq ShortestPaths
    /\ question.provider \in Compiled =>
         \/ FoundPaths = Paths
         \/ Cardinality(Candidates) > PoolSize
=============================================================================
