----------------------------- MODULE StoredGraph -----------------------------
(***************************************************************************)
(* One question asked of the stored graph, and what its options admit.      *)
(* The graph does not change while a question is answered.  Property        *)
(* filters on relationships are abstracted to whether a relationship passes *)
(* them; an option that is not given is the set of everything, and an empty *)
(* list of types, which the providers read differently, is not asked.  A    *)
(* path carries its relationships where the code carries their ids.         *)
(***************************************************************************)
EXTENDS Naturals, Sequences, FiniteSets

CONSTANTS
  Entities,
  RelationshipIds,
  EntityTypes,
  RelationshipTypes,
  Questions           \* the questions to ask, each with its graph and options

Directions == {"out", "in", "both"}

\* The breadth-first providers search their own rows; the others compile a traversal.
BreadthFirst == {"memory", "sql"}
Compiled == {"cosmos", "neo4j"}

Relationship ==
  [id : RelationshipIds, source : Entities, target : Entities, type : RelationshipTypes,
   bidirectional : BOOLEAN, passes : BOOLEAN]

\* A step of a traversal: repeated up to `times` times, or not at all if that is 0, and
\* given up at the entities of `until`.
Step ==
  [direction : Directions, relationshipTypes : SUBSET RelationshipTypes,
   entityTypes : SUBSET EntityTypes, times : Nat, until : SUBSET Entities, emits : BOOLEAN]

Question ==
  [asks : {"neighborhood", "paths", "traversal"}, provider : BreadthFirst \cup Compiled,
   stored : Seq(Relationship), type : [Entities -> EntityTypes],
   from : Entities, to : Entities, maxDepth : Nat \ {0}, direction : Directions,
   relationshipTypes : SUBSET RelationshipTypes, entityTypes : SUBSET EntityTypes,
   limit : Nat \ {0}, offset : Nat,
   starts : Seq(Entities), steps : Seq(Step), returnMode : {"terminal", "path", "all"}]

\* A store has one relationship under an id.
ASSUME QuestionAssumption ==
  /\ Questions \subseteq Question
  /\ \A q \in Questions : \A i, j \in DOMAIN q.stored : q.stored[i].id = q.stored[j].id => i = j

VARIABLE question   \* the question being answered

AsksFor(what) == question.asks = what

Relationships == {question.stored[i] : i \in DOMAIN question.stored}

OfType == {r \in Relationships : r.type \in question.relationshipTypes}

Admitted(r) == r.type \in question.relationshipTypes /\ r.passes

\* An entity the filter on entity types lets through.
Fits(e) == question.type[e] \in question.entityTypes

Touches(r, e) == e \in {r.source, r.target}

OtherEnd(r, e) == IF r.source = e THEN r.target ELSE r.source

\* From e the relationship r leads to f in the given direction; one that is bidirectional
\* leads both ways whatever the direction.
LeadsTo(direction, r, e, f) ==
  \/ r.source = e /\ r.target = f /\ (direction # "in" \/ r.bidirectional)
  \/ r.target = e /\ r.source = f /\ (direction # "out" \/ r.bidirectional)

Leads(r, e, f) == LeadsTo(question.direction, r, e, f)

-----------------------------------------------------------------------------
(* Walks, and the paths a question asks for.                                *)

Start(e) == [entities |-> <<e>>, relationships |-> <<>>]

End(w) == w.entities[Len(w.entities)]

Extend(w, r) ==
  [entities |-> Append(w.entities, OtherEnd(r, End(w))),
   relationships |-> Append(w.relationships, r)]

Visits(w, e) == \E i \in DOMAIN w.entities : w.entities[i] = e

Uses(w, r) == \E i \in DOMAIN w.relationships : w.relationships[i] = r

IsSimple(w) ==
  \A i, j \in DOMAIN w.entities : w.entities[i] = w.entities[j] => i = j

\* The walks of n relationships of R from an entity, none of them used twice.
Trails(R, from, n) ==
  LET trails[k \in Nat] ==
        IF k = 0 THEN {Start(from)}
        ELSE LET shorter == trails[k - 1]
             IN  UNION {{Extend(w, r) : r \in {s \in R : Touches(s, End(w)) /\ ~Uses(w, s)}}
                        : w \in shorter}
  IN  trails[n]

\* Between its ends a path visits entities that fit the filter on entity types.
FitsBetween(w) == \A i \in 2..(Len(w.entities) - 1) : Fits(w.entities[i])

Joined(w) ==
  /\ Len(w.entities) = Len(w.relationships) + 1
  /\ \A i \in DOMAIN w.relationships :
       LET r == w.relationships[i]
       IN  /\ r \in Relationships /\ Admitted(r)
           /\ Touches(r, w.entities[i])
           /\ w.entities[i + 1] = OtherEnd(r, w.entities[i])

IsPath(w) ==
  /\ Joined(w)
  /\ w.entities[1] = question.from /\ End(w) = question.to
  /\ IsSimple(w)
  /\ FitsBetween(w)
  /\ Len(w.relationships) <= question.maxDepth
=============================================================================
