------------------------------ MODULE Traversal ------------------------------
(***************************************************************************)
(* traverse: a specification of steps from some entities, run step by step  *)
(* over the in-memory and SQL Server providers by the fallback executor, or *)
(* compiled to one Gremlin or Cypher query, and read page by page.  A page  *)
(* runs the traversal anew; the graph stands still, so it is run once here  *)
(* and its pages are read one after another.  Results are deduplicated, as  *)
(* they are unless asked otherwise, and compiled steps do not repeat: what  *)
(* a database makes of until beside times is its own.                       *)
(***************************************************************************)
EXTENDS StoredGraph, FiniteSetsExt, SequencesExt

CONSTANTS
  MaxTraversalDepth,   \* what the steps may add up to
  MaxStorageCalls      \* requests to storage after which the fallback gives up

VARIABLES
  phase,      \* "asked", "stepping", "reading", then "read", "refused" or "failed"
  walks,      \* the walks to go on from
  collected,  \* in 'all' mode, every walk so far
  stepAt,     \* the step to make
  loops,      \* rounds of a repeated step so far
  been,       \* entities a repeated step has been to
  calls,      \* requests to storage so far
  rows,       \* the results, before they are cut into pages
  unread,     \* indices of the rows on no page yet
  answered    \* the last page

traversalVars ==
  <<phase, walks, collected, stepAt, loops, been, calls, rows, unread, answered>>

NoPage == [entities |-> {}, relationships |-> {}, hasMore |-> TRUE]

TraversalInit ==
  /\ phase = "asked"
  /\ walks = <<>> /\ collected = <<>>
  /\ stepAt = 1 /\ loops = 0 /\ been = {} /\ calls = 0
  /\ rows = <<>> /\ unread = {}
  /\ answered = NoPage

Steps == question.steps
Repeats(step) == step.times > 0
RepeatsAny == \E i \in DOMAIN Steps : Repeats(Steps[i])
IsStepping == AsksFor("traversal") /\ phase = "stepping"

Depth(step) == IF Repeats(step) THEN step.times ELSE 1

Valid ==
  LET DepthAt(i) == Depth(Steps[i])
  IN  /\ MapThenSumSet(DepthAt, DOMAIN Steps) <= MaxTraversalDepth
      /\ question.returnMode = "path" => Steps # <<>>

\* A specification no validator passes; the Gremlin compiler takes no repeated step in 'all' mode.
Refuse ==
  /\ AsksFor("traversal") /\ phase = "asked"
  /\ Valid => question.provider = "cosmos" /\ question.returnMode = "all" /\ RepeatsAny
  /\ phase' = "refused"
  /\ UNCHANGED <<question, walks, collected, stepAt, loops, been, calls, rows, unread, answered>>

-----------------------------------------------------------------------------
(* The fallback executor.                                                    *)

\* The entities it starts from: with steps to make, no more than fit on a page.
StartEntities ==
  IF Steps # <<>> /\ Len(question.starts) > question.limit
  THEN SubSeq(question.starts, 1, question.limit)
  ELSE question.starts

Begin ==
  /\ AsksFor("traversal") /\ phase = "asked"
  /\ Valid /\ question.provider \in BreadthFirst
  /\ LET begun == [i \in DOMAIN StartEntities |-> Start(StartEntities[i])]
     IN  /\ walks' = begun
         /\ collected' = IF question.returnMode = "all" THEN begun ELSE <<>>
  /\ phase' = "stepping"
  /\ calls' = 1
  /\ UNCHANGED <<question, stepAt, loops, been, rows, unread, answered>>

AllowsType(step, e) == question.type[e] \in step.entityTypes

IgnoresProperties(step, e) ==
  LET Taken(r) == /\ r.type \in step.relationshipTypes
                  /\ Touches(r, e) /\ LeadsTo(step.direction, r, e, OtherEnd(r, e))
  IN  SelectSeq(question.stored, Taken)

\* The relationships a step takes an entity along, whatever entity they lead to.
Along(step, e) ==
  LET Taken(r) == /\ r.type \in step.relationshipTypes /\ r.passes
                  /\ Touches(r, e) /\ LeadsTo(step.direction, r, e, OtherEnd(r, e))
  IN  SelectSeq(question.stored, Taken)

StepFrom(step, w) ==
  LET Leading(r) == AllowsType(step, OtherEnd(r, End(w)))
      taken == SelectSeq(Along(step, End(w)), Leading)
  IN  [i \in DOMAIN taken |-> Extend(w, taken[i])]

Stepped(step) == FlattenSeq([i \in DOMAIN walks |-> StepFrom(step, walks[i])])

\* One request for each walk, and one for the entities if there are any to resolve.
CallsOf(step) ==
  Len(walks) + (IF \E i \in DOMAIN walks : Along(step, End(walks[i])) # <<>> THEN 1 ELSE 0)

Collect(more) ==
  collected' = IF question.returnMode = "all" THEN collected \o more ELSE collected

MakeStep ==
  /\ IsStepping /\ stepAt <= Len(Steps)
  /\ calls + CallsOf(Steps[stepAt]) < MaxStorageCalls
  /\ calls' = calls + CallsOf(Steps[stepAt])
  /\ UNCHANGED <<question, rows, unread, answered>>

TakeStep ==
  /\ MakeStep /\ ~Repeats(Steps[stepAt])
  /\ LET next == Stepped(Steps[stepAt])
     IN  walks' = next /\ Collect(next)
  /\ stepAt' = stepAt + 1
  /\ UNCHANGED <<phase, loops, been>>

At(seq, indices) ==
  LET Asked(i) == i \in indices
      order == SelectSeq([i \in DOMAIN seq |-> i], Asked)
  IN  [n \in DOMAIN order |-> seq[order[n]]]

\* The first walk to each entity that is not in seen.
FirstTo(ws, seen) ==
  At(ws, {i \in DOMAIN ws : /\ End(ws[i]) \notin seen
                            /\ \A j \in 1..(i - 1) : End(ws[j]) # End(ws[i])})

Ends(ws) == {End(ws[i]) : i \in DOMAIN ws}

SeenLastRound == Ends(walks)

\* Where a repeated step starts counts as visited.
Seen == IF loops = 0 THEN Ends(walks) ELSE been

NextRound(last) ==
  /\ loops' = IF last THEN 0 ELSE loops + 1
  /\ stepAt' = IF last THEN stepAt + 1 ELSE stepAt

\* A round that leads nowhere new ends the repetition and leaves the walks of the last one.
RepeatStep ==
  /\ MakeStep /\ Repeats(Steps[stepAt])
  /\ LET step == Steps[stepAt]
         fresh == FirstTo(Stepped(step), Seen)
         Arrives(w) == End(w) \in step.until
         GoesOn(w) == ~Arrives(w)
         matching == SelectSeq(fresh, Arrives)
         continuing == SelectSeq(fresh, GoesOn)
     IN  /\ been' = Seen \cup Ends(fresh)
         /\ walks' = IF fresh = <<>> THEN walks
                     ELSE IF matching # <<>> /\ continuing = <<>> THEN matching ELSE continuing
         /\ Collect(IF step.until = {}
                    THEN IF step.emits THEN fresh ELSE <<>>
                    ELSE (IF step.emits THEN continuing ELSE <<>>) \o matching)
         /\ NextRound(continuing = <<>> \/ loops + 1 = step.times)
  /\ UNCHANGED phase

GiveUp ==
  /\ IsStepping /\ stepAt <= Len(Steps)
  /\ calls + CallsOf(Steps[stepAt]) >= MaxStorageCalls
  /\ phase' = "failed"
  /\ UNCHANGED <<question, walks, collected, stepAt, loops, been, calls, rows, unread, answered>>

-----------------------------------------------------------------------------
(* Results.  A row of 'all' mode is an entity or a relationship, one of the  *)
(* other modes, and every row of Cypher, a walk.                             *)

EntityRow(e) == [entity |-> e]
EntityRows(ws) == [i \in DOMAIN ws |-> EntityRow(End(ws[i]))]
RelationshipRow(r) == [relationship |-> r]
IsWalk(row) == "entities" \in DOMAIN row

WalkedEntities(w) == {w.entities[i] : i \in DOMAIN w.entities}
WalkedRelationships(w) == {w.relationships[i] : i \in DOMAIN w.relationships}

EntitiesOn(some) ==
  UNION {IF IsWalk(row) THEN WalkedEntities(row)
         ELSE IF "entity" \in DOMAIN row THEN {row.entity} ELSE {} : row \in some}

RelationshipsOn(some) ==
  UNION {IF IsWalk(row) THEN WalkedRelationships(row)
         ELSE IF "entity" \in DOMAIN row THEN {} ELSE {row.relationship} : row \in some}

LastOf(w) == w.relationships[Len(w.relationships)]

\* The elements of a union in order of depth, the entities of a depth before its
\* relationships, each where it comes up first.
UnionOf(ws) ==
  LET AtDepth(n) == At(ws, {i \in DOMAIN ws : Len(ws[i].relationships) = n})
      RelationshipRows(n) == [i \in DOMAIN AtDepth(n) |-> RelationshipRow(LastOf(AtDepth(n)[i]))]
      Layer(n) == EntityRows(AtDepth(n)) \o (IF n = 0 THEN <<>> ELSE RelationshipRows(n))
      all == FlattenSeq([n \in 1..(MaxTraversalDepth + 1) |-> Layer(n - 1)])
  IN  At(all, {i \in DOMAIN all : \A j \in 1..(i - 1) : all[j] # all[i]})

Serve(results) ==
  /\ rows' = results
  /\ unread' = DOMAIN results
  /\ phase' = "reading"

Assemble ==
  /\ IsStepping /\ stepAt > Len(Steps)
  /\ Serve(CASE question.returnMode = "all" -> UnionOf(collected)
             [] question.returnMode = "terminal" -> EntityRows(FirstTo(walks, {}))
             [] question.returnMode = "path" -> walks)
  /\ UNCHANGED <<question, walks, collected, stepAt, loops, been, calls, answered>>

-----------------------------------------------------------------------------
(* Compiled queries, which know nothing of bidirectional.                    *)

Hops(step, r, e) ==
  /\ r.type \in step.relationshipTypes /\ r.passes
  /\ \/ r.source = e /\ step.direction # "in"
     \/ r.target = e /\ step.direction # "out"

\* The walks of n steps; those of a Cypher pattern use no relationship twice.
Matches(n, filtering, reusing) ==
  LET matches[k \in Nat] ==
        IF k = 0 THEN {Start(question.starts[i]) : i \in DOMAIN question.starts}
        ELSE LET before == matches[k - 1]
                 From(w) == {Extend(w, r) : r \in {s \in Relationships :
                               /\ Hops(Steps[k], s, End(w))
                               /\ filtering => AllowsType(Steps[k], OtherEnd(s, End(w)))
                               /\ reusing \/ ~Uses(w, s)}}
             IN  UNION {From(w) : w \in before}
  IN  matches[n]

\* A filter on the entities of one depth does not keep a union from the depths beyond.
GremlinUnion ==
  LET At0 == {EntityRow(End(w)) : w \in Matches(0, FALSE, TRUE)}
      AtDepth(n) ==
        LET ending == Matches(n, FALSE, TRUE)
        IN  {EntityRow(End(w)) : w \in {v \in ending : AllowsType(Steps[n], End(v))}}
              \cup {RelationshipRow(LastOf(w)) : w \in ending}
  IN  At0 \cup UNION {AtDepth(n) : n \in DOMAIN Steps}

GremlinRows ==
  LET matched == Matches(Len(Steps), TRUE, TRUE)
  IN  CASE question.returnMode = "all" -> GremlinUnion
        [] question.returnMode = "terminal" -> {EntityRow(End(w)) : w \in matched}
        [] question.returnMode = "path" -> {w \in matched : IsSimple(w)}

CypherRows ==
  LET matched == Matches(Len(Steps), TRUE, FALSE)
  IN  IF question.returnMode = "terminal" THEN {EntityRow(End(w)) : w \in matched} ELSE matched

InSomeOrder(set) == FoldSet(LAMBDA x, seq : Append(seq, x), <<>>, set)

RunCompiled ==
  /\ AsksFor("traversal") /\ phase = "asked"
  /\ Valid /\ question.provider \in Compiled /\ ~RepeatsAny
  /\ Serve(InSomeOrder(IF question.provider = "cosmos" THEN GremlinRows ELSE CypherRows))
  /\ UNCHANGED <<question, walks, collected, stepAt, loops, been, calls, answered>>

-----------------------------------------------------------------------------
(* Pages.                                                                    *)

EndsOfRelationships(some) == UNION {{r.source, r.target} : r \in RelationshipsOn(some)}

NothingPulledIn(shown) == {}

\* A page of a union gets the entities its relationships connect, wherever they stand:
\* from the union in the fallback, from the store on CosmosDB.
PulledIn(shown) ==
  IF question.provider \in BreadthFirst
  THEN EndsOfRelationships(shown) \cap EntitiesOn({rows[i] : i \in DOMAIN rows})
  ELSE EndsOfRelationships(shown)

\* Whether to ask for another page.  The compiled providers take a full page for a sign
\* of more; Neo4j counts a page of 'all' mode by what its rows hold.
HasMore(n, shown) ==
  CASE question.provider \in BreadthFirst -> n < Cardinality(unread)
    [] question.provider = "cosmos" \/ question.returnMode # "all" -> n >= question.limit
    [] OTHER -> Cardinality(EntitiesOn(shown)) + Cardinality(RelationshipsOn(shown)) >= question.limit

\* A database returns rows in an order of its own, here the same for all pages.
ReadPage ==
  /\ AsksFor("traversal") /\ phase = "reading"
  /\ LET n == IF Cardinality(unread) < question.limit THEN Cardinality(unread) ELSE question.limit
         first == {i \in unread : Cardinality({j \in unread : j < i}) < n}
     IN  \E taken \in IF question.provider \in BreadthFirst THEN {first} ELSE kSubset(n, unread) :
           LET shown == {rows[i] : i \in taken}
               more == HasMore(n, shown)
           IN  /\ unread' = unread \ taken
               /\ answered' = [entities |-> EntitiesOn(shown) \cup PulledIn(shown),
                               relationships |-> RelationshipsOn(shown), hasMore |-> more]
               /\ phase' = IF more THEN "reading" ELSE "read"
  /\ UNCHANGED <<question, walks, collected, stepAt, loops, been, calls, rows>>

TraversalNext ==
  \/ Refuse
  \/ Begin
  \/ TakeStep
  \/ RepeatStep
  \/ GiveUp
  \/ Assemble
  \/ RunCompiled
  \/ ReadPage

Traversed == phase \in {"refused", "failed", "read"}

-----------------------------------------------------------------------------
Served == AsksFor("traversal") /\ phase \in {"reading", "read"}

FullStart == Steps = <<>> \/ Len(question.starts) <= question.limit

\* The pages of a traversal lose nothing and each can be used by itself: whoever goes on
\* while hasMore is set has been given every row when it no longer is, though the answer
\* comes from the size of a page on two providers and entities are added to pages after it
\* was cut; and no page of 'all' mode shows a relationship without the entities it connects.
\* Exempt are what the code does otherwise: Neo4j's 'all' mode, whose rows can outnumber
\* the elements they hold, and a repeated step that hides the entities it passed.
PagesHoldTogether ==
  LET rowsAreWalks == question.provider = "neo4j" /\ question.returnMode = "all"
      hides == \E i \in DOMAIN Steps : ~Steps[i].emits
  IN  Served =>
        /\ phase = "read" => unread = {} \/ rowsAreWalks
        /\ hides \/ \A r \in answered.relationships : {r.source, r.target} \subseteq answered.entities

\* The fallback and the compiled Gremlin query are two programs for one specification.
\* Where no relationship is bidirectional, or every step goes both ways, both end at the
\* same entities; their walks without a repeated entity are the same; and in 'all' mode
\* the fallback shows what Gremlin does, less what lies behind an entity that a filter
\* keeps out.  Cypher ends nowhere else.
ProvidersAgree ==
  LET mine == {rows[i] : i \in DOMAIN rows}
      sameWays == \/ \A r \in Relationships : ~r.bidirectional
                  \/ \A i \in DOMAIN Steps : Steps[i].direction = "both"
      filters == \E i \in DOMAIN Steps : Steps[i].entityTypes # EntityTypes
  IN  Served /\ question.provider \in BreadthFirst /\ ~RepeatsAny /\ FullStart /\ sameWays =>
        /\ IsInjective(rows)
        /\ question.returnMode = "terminal" => mine = GremlinRows /\ CypherRows \subseteq mine
        /\ question.returnMode = "path" =>
             {w \in mine : IsSimple(w)} = GremlinRows /\ CypherRows \subseteq mine
        /\ question.returnMode = "all" =>
             mine \subseteq GremlinRows /\ (filters \/ mine = GremlinRows)

\* The entities k rounds of a repeated step lead to, not going on from those of until.
Rounds(step, k) ==
  LET rounds[n \in Nat] ==
        IF n = 0 THEN Range(StartEntities)
        ELSE LET before == IF n = 1 THEN rounds[0] ELSE rounds[n - 1] \ step.until
             IN  {f \in Entities : /\ AllowsType(step, f)
                                   /\ \E r \in Relationships, e \in before :
                                        /\ r.type \in step.relationshipTypes /\ r.passes
                                        /\ LeadsTo(step.direction, r, e, f)}
  IN  rounds[k]

\* A repeated step visits every entity once, as near as it can be reached in the direction
\* and through the entities the step allows and never through one that matches until, and
\* in 'all' mode shows all of them, or without the intermediate ones those that match.
RepeatIsBreadthFirst ==
  LET step == Steps[1]
      Before(k) == UNION {Rounds(step, j) : j \in 0..(k - 1)}
      reached == UNION {Rounds(step, k) : k \in 1..step.times} \ Range(StartEntities)
  IN  Served /\ question.provider \in BreadthFirst /\ question.returnMode = "all"
        /\ Len(Steps) = 1 /\ RepeatsAny =>
        /\ \A w \in Range(collected) :
             LET k == Len(w.relationships) IN End(w) \in Rounds(step, k) \ Before(k)
        /\ Cardinality(Ends(collected)) = Len(collected)
        /\ Ends(collected) \ Range(StartEntities) =
             IF step.emits THEN reached ELSE reached \cap step.until
=============================================================================
