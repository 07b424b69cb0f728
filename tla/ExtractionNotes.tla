--------------------------- MODULE ExtractionNotes ---------------------------
(***************************************************************************)
(* What a correction proposed by the full validation does to an extraction *)
(* file: the deterministic half of CorrectionApplier.                      *)
(*                                                                         *)
(* A file is a list of entities and a list of relationships, which name    *)
(* their ends by label.  Properties are one value.  A removed property is  *)
(* an update to the value Absent.  What the code computes from the         *)
(* characters of a label is given by Fold (toLowerCase); no two types      *)
(* differ in case only.                                                    *)
(***************************************************************************)
EXTENDS Integers, SequencesExt

CONSTANTS
  Fold,             \* [Labels -> lower-case labels]
  EntityTypes,      \* the entity types of the vocabulary
  RelationTypes,    \* [declared relationship types -> SUBSET (EntityTypes \X EntityTypes)]
  Open              \* governance is open: unknown types are admitted

\* An entity is [label, type, aliases, value], a relationship [source, kind, target,
\* value]; [entities, relationships] is a file.
\*
\* Corrections, besides what they all have ([id, source, group, sure, approved]):
\*   [op |-> "update", item, at, value]       at: a label, or a relationship's key
\*   [op |-> "delete", item, at]
\*   [op |-> "create", item, new, sound]      sound: sourceRefs and properties are in order
\*   [op |-> "retarget", at, end, to]         end: "source" or "target"
Key(r) == <<r.source, r.kind, r.target>>

\* What a list keeps of a filter: the members at these places, in their order.
Nth(I, k) == CHOOSE i \in I : Cardinality({j \in I : j <= i}) = k
Kept(seq, I) == [k \in 1..Cardinality(I) |-> seq[Nth(I, k)]]

\* findRelationship, and the look-up of an entity by its exact label: 0 if there is none.
FindRelationship(f, key) == SelectInSeq(f.relationships, LAMBDA r : Key(r) = key)
FindEntity(f, label) == SelectInSeq(f.entities, LAMBDA e : e.label = label)

\* buildEntityMap: the last entity of that label in any case, else the first with such
\* an alias, else 0.
Resolve(f, label) ==
  LET Named(e) == Fold[e.label] = Fold[label]
      Aliased(e) == \E a \in e.aliases : Fold[a] = Fold[label]
  IN  IF \E i \in DOMAIN f.entities : Named(f.entities[i])
      THEN SelectLastInSeq(f.entities, Named) ELSE SelectInSeq(f.entities, Aliased)

-----------------------------------------------------------------------------
\* What became of a correction: it was carried out, its end was reached already, its
\* target is missing, or it failed; with the file that results.
Outcome(kind, f) == [kind |-> kind, file |-> f]

Succeeded(outcome) == outcome.kind \in {"applied", "already"}

UpdateProperty(f, c) ==
  LET i == IF c.item = "entity" THEN FindEntity(f, c.at) ELSE FindRelationship(f, c.at)
  IN  IF i = 0 THEN Outcome("not found", f)
      ELSE Outcome("applied", IF c.item = "entity" THEN [f EXCEPT !.entities[i].value = c.value]
                              ELSE [f EXCEPT !.relationships[i].value = c.value])

\* Mutation of DeleteEntity: the relationships are left to a later correction.
DeleteEntityAlone(f, label) ==
  [f EXCEPT !.entities = Kept(@, {i \in DOMAIN @ : @[i].label # label})]

\* An entity goes with the relationships that name it, in just this spelling.
DeleteEntity(f, label) ==
  LET Names(r) == label \in {r.source, r.target}
  IN  [entities |-> Kept(f.entities, {i \in DOMAIN f.entities : f.entities[i].label # label}),
       relationships |-> Kept(f.relationships, {i \in DOMAIN f.relationships : ~ Names(f.relationships[i])})]

Delete(f, c) ==
  LET g == IF c.item = "entity" THEN DeleteEntity(f, c.at)
           ELSE [f EXCEPT !.relationships = Kept(@, {i \in DOMAIN @ : Key(@[i]) # c.at})]
      found == IF c.item = "entity" THEN FindEntity(f, c.at) # 0 ELSE FindRelationship(f, c.at) # 0
  IN  IF found THEN Outcome("applied", g) ELSE Outcome("already", f)

\* An unknown type is the one defect that governance may forgive.
CreateEntity(f, c) ==
  LET i == SelectInSeq(f.entities, LAMBDA e : Fold[e.label] = Fold[c.new.label])
  IN  IF ~ c.sound THEN Outcome("failed", f)
      ELSE IF i # 0 THEN Outcome(IF f.entities[i].type = c.new.type THEN "already" ELSE "failed", f)
      ELSE IF c.new.type \notin EntityTypes /\ ~ Open THEN Outcome("failed", f)
      ELSE Outcome("applied", [f EXCEPT !.entities = Append(@, c.new)])

\* The ends of a relationship of a declared type must be of types it allows.
EndsAllowed(kind, source, target) ==
  kind \in DOMAIN RelationTypes => <<source.type, target.type>> \in RelationTypes[kind]

CreateRelationship(f, c) ==
  LET s == Resolve(f, c.new.source)
      t == Resolve(f, c.new.target)
      new == [c.new EXCEPT !.source = f.entities[s].label, !.target = f.entities[t].label]
  IN  IF ~ c.sound \/ s = 0 \/ t = 0 THEN Outcome("failed", f)
      ELSE IF FindRelationship(f, Key(new)) # 0 THEN Outcome("already", f)
      ELSE IF \/ ~ EndsAllowed(new.kind, f.entities[s], f.entities[t])
              \/ new.kind \notin DOMAIN RelationTypes /\ ~ Open
      THEN Outcome("failed", f)
      ELSE Outcome("applied", [f EXCEPT !.relationships = Append(@, new)])

\* One end moves; an edge that is there already survives in its place.
Retarget(f, c) ==
  LET i == FindRelationship(f, c.at)
      r == f.relationships[i]
      to == Resolve(f, c.to)
      s == IF c.end = "source" THEN to ELSE Resolve(f, r.source)
      t == IF c.end = "target" THEN to ELSE Resolve(f, r.target)
      moved == [r EXCEPT ![c.end] = f.entities[to].label]
  IN  IF i = 0 THEN Outcome("not found", f)
      ELSE IF s = 0 \/ t = 0 THEN Outcome("failed", f)
      ELSE IF ~ EndsAllowed(r.kind, f.entities[s], f.entities[t]) THEN Outcome("failed", f)
      ELSE Outcome("applied",
             IF \E j \in DOMAIN f.relationships \ {i} : Key(f.relationships[j]) = Key(moved)
             THEN [f EXCEPT !.relationships = RemoveAt(@, i)]
             ELSE [f EXCEPT !.relationships[i] = moved])

ApplyOne(f, c) ==
  CASE c.op = "update" -> UpdateProperty(f, c)
    [] c.op = "delete" -> Delete(f, c)
    [] c.op = "create" -> IF c.item = "entity" THEN CreateEntity(f, c) ELSE CreateRelationship(f, c)
    [] c.op = "retarget" -> Retarget(f, c)

-----------------------------------------------------------------------------
(* A pass over the selected corrections of one file.  A pass is the file   *)
(* so far and the ids of the corrections that succeeded.                   *)

\* One correction by itself: what fails or finds nothing is passed over.
Single(pass, c) ==
  LET outcome == ApplyOne(pass.file, c)
  IN  [file |-> outcome.file,
       done |-> IF Succeeded(outcome) THEN pass.done \cup {c.id} ELSE pass.done]

\* Creates come before the edges that need them, retargets before the deletion that
\* would take the edge along.
InPrecedence(members) ==
  LET Of(op) == Kept(members, {i \in DOMAIN members : members[i].op = op})
  IN  Of("create") \o Of("retarget") \o Of("update") \o Of("delete")

\* Mutation of Group: the members are applied one by one.
GroupPiecemeal(pass, members) == FoldLeft(Single, pass, InPrecedence(members))

\* All members of a group in their order on a copy of the file, which is adopted if
\* each of them succeeds.
Group(pass, members) ==
  LET copy == FoldLeft(Single, pass, InPrecedence(members))
  IN  IF {members[i].id : i \in DOMAIN members} \subseteq copy.done THEN copy ELSE pass

\* In the order of the list, a group where its first member stands.
Pass(f, corrections) ==
  LET First(i) == corrections[i].group = {} \/ \A j \in 1..(i - 1) : corrections[j].group # corrections[i].group
      GroupOf(i) == Kept(corrections, {j \in DOMAIN corrections : corrections[j].group = corrections[i].group})
      Unit(pass, i) ==
        IF ~ First(i) THEN pass
        ELSE IF corrections[i].group = {} THEN Single(pass, corrections[i])
        ELSE Group(pass, GroupOf(i))
  IN  FoldLeftDomain(Unit, [file |-> f, done |-> {}], corrections)

-----------------------------------------------------------------------------
(* What files and corrections are made of.                                 *)

IsList(s) == s \in Seq(ToSet(s))

IsEntity(e) == e = [label |-> e.label, type |-> e.type, aliases |-> e.aliases, value |-> e.value]

IsRelationship(r) == r = [source |-> r.source, kind |-> r.kind, target |-> r.target, value |-> r.value]

IsFile(f) ==
  /\ f = [entities |-> f.entities, relationships |-> f.relationships]
  /\ IsList(f.entities) /\ \A i \in DOMAIN f.entities : IsEntity(f.entities[i])
  /\ IsList(f.relationships) /\ \A i \in DOMAIN f.relationships : IsRelationship(f.relationships[i])

IsCorrection(c) ==
  /\ {"id", "source", "group", "approved", "op"} \subseteq DOMAIN c
  /\ c.op \in {"create", "retarget", "update", "delete"}
  /\ c.op = "create" =>
       /\ {"item", "new"} \subseteq DOMAIN c
       /\ IF c.item = "entity" THEN IsEntity(c.new) ELSE IsRelationship(c.new)
  /\ c.op = "retarget" => "end" \in DOMAIN c /\ c.end \in {"source", "target"}

AreCorrections(cs) == IsList(cs) /\ \A i \in DOMAIN cs : IsCorrection(cs[i])

=============================================================================
