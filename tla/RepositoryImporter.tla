-------------------------- MODULE RepositoryImporter --------------------------
(***************************************************************************)
(* Imports of an archive into a repository that others use: bulk rows      *)
(* ("import", the create mode) and rows merged one by one ("merge").  The   *)
(* archive's vocabulary is in place.  An archive is a sequence of rows,    *)
(* entities before relationships, each a chunk of its own.                 *)
(***************************************************************************)
EXTENDS MemoryRepository

Row(c) == request[c].rows[call[c].member]

IsEntity(row) == row.item = "entity"

\* The next row, or the end of the archive.
NextRow(c, cl) ==
  IF call[c].member < Len(request[c].rows) THEN [cl EXCEPT !.pc = "row", !.member = @ + 1]
  ELSE Answer(cl, "imported")

BeginImport(c) ==
  /\ Op(c) \in {"import", "merge"} /\ call[c].pc = "idle"
  /\ Becomes(c, IF request[c].rows = <<>> THEN Answer(call[c], "imported")
                ELSE [call[c] EXCEPT !.pc = "row"])
  /\ UNCHANGED <<storeVars, aside>>

\* What the store refuses is reported; the import goes on.
ImportRow(c) ==
  LET row == Row(c) IN
  /\ Op(c) = "import" /\ call[c].pc = "row"
  /\ \/ /\ IsEntity(row)
        /\ ImportEntity(row.id, row.entity)
        /\ Becomes(c, NextRow(c, [call[c] EXCEPT !.wrote = @ \cup {row.id}]))
     \/ /\ ~IsEntity(row)
        /\ ImportRelationship(row.id, row.rel, FALSE)
        /\ Becomes(c, NextRow(c, call[c]))
     \/ /\ ~IsEntity(row)
        /\ RefusesRow(row.id, row.rel, FALSE)
        /\ Becomes(c, NextRow(c, [call[c] EXCEPT !.failed = @ \cup {row.id}]))
        /\ UNCHANGED storeVars
  /\ unheard' = unheard \cup (IF IsEntity(row) THEN {row.id} ELSE {})
  /\ UNCHANGED <<request, model, metadata, documents, announced, minted, faults>>

\* The stored entity a row conflicts with: the one with its id, or else with its slug.
Existing(row) == IF row.id \in Stored THEN {row.id} ELSE SlugHolder(row.entity.slug)

Skip(c) == NextRow(c, [call[c] EXCEPT !.failed = @ \cup {Row(c).id}])

\* Whether there is a conflict is read before it is resolved.
LookUp(c) ==
  LET row == Row(c)  existing == Existing(row) IN
  /\ Op(c) = "merge" /\ call[c].pc = "row" /\ IsEntity(row)
  /\ Becomes(c, IF existing # {} /\ request[c].conflict = "skip" THEN Skip(c)
                ELSE [call[c] EXCEPT !.pc = "merge", !.read = SetToSeq(existing), !.n = 1])
  /\ UNCHANGED <<storeVars, aside>>

\* A renamed copy takes the first slug that is free, of those kept for copies.
CopySlug(c) == [Row(c).entity.slug EXCEPT ![3] = MaxSuffix + call[c].n]

\* The entity that a row writes: a new one, the one it conflicts with, or a copy.
Written(c) ==
  IF call[c].read = <<>> THEN Row(c).id
  ELSE IF request[c].conflict = "overwrite" THEN call[c].read[1] ELSE minted + 1

\* What a row writes: a new entity, over the one it conflicts with, whose type stays,
\* or a copy of it.  Ids bounds the ids that are generated.
MergeWrite(c) ==
  LET row == Row(c)  existing == call[c].read IN
  \/ /\ existing = <<>>
     /\ CreateEntity(row.id, row.entity)
     /\ UNCHANGED minted
  \/ /\ existing # <<>> /\ request[c].conflict = "overwrite"
     /\ UpdateEntity(existing[1], Restrict(row.entity, {"label", "slug", "content", "vector"}))
     /\ UNCHANGED minted
  \/ /\ existing # <<>> /\ request[c].conflict = "rename"
     /\ minted + 1 \in Ids
     /\ CreateEntity(minted + 1, [row.entity EXCEPT !.slug = CopySlug(c)])
     /\ minted' = minted + 1

\* The store refuses what MergeWrite would do.
MergeRefused(c) ==
  LET row == Row(c)  existing == call[c].read IN
  \/ existing = <<>> /\ (row.id \in Stored \/ RefusesSlug(row.id, row.entity.slug))
  \/ /\ existing # <<>> /\ request[c].conflict = "overwrite"
     /\ existing[1] \notin Stored \/ RefusesSlug(existing[1], row.entity.slug)
  \/ /\ existing # <<>> /\ request[c].conflict = "rename"
     /\ RefusesSlug(minted + 1, CopySlug(c))

\* A copy's slug is tried before it is taken.
TrySlugUnseen(c) ==
  /\ call[c].pc = "merge" /\ call[c].read # <<>> /\ request[c].conflict = "rename"
  /\ Becomes(c, [call[c] EXCEPT !.pc = "copy"])
  /\ UNCHANGED <<storeVars, aside>>
TrySlug(c) ==
  /\ call[c].pc = "merge" /\ call[c].read # <<>> /\ request[c].conflict = "rename"
  /\ CopySlug(c) \in Slugs
  /\ Becomes(c, IF SlugHolder(CopySlug(c)) # {} THEN [call[c] EXCEPT !.n = @ + 1]
                ELSE [call[c] EXCEPT !.pc = "copy"])
  /\ UNCHANGED <<storeVars, aside>>

\* A row the store refuses, other than for its property names, ends the import.
MergeEntity(c) ==
  /\ \/ call[c].pc = "copy"
     \/ call[c].pc = "merge" /\ (call[c].read = <<>> \/ request[c].conflict # "rename")
  /\ \/ /\ MergeWrite(c)
        /\ unheard' = unheard \cup {Written(c)}
        /\ Becomes(c, NextRow(c, [call[c] EXCEPT !.created = Append(@, Row(c).id),
                                                !.wrote = @ \cup {Written(c)}]))
     \/ /\ MergeRefused(c)
        /\ Becomes(c, Answer(call[c], "abandoned"))
        /\ UNCHANGED <<storeVars, minted, unheard>>
  /\ UNCHANGED <<request, model, metadata, documents, announced, faults>>

\* A relationship that is stored, or lacks an endpoint, is skipped; an endpoint that
\* goes between the check and the write ends the import.
LookUpRelationship(c) ==
  LET row == Row(c) IN
  /\ Op(c) = "merge" /\ call[c].pc = "row" /\ ~IsEntity(row)
  /\ Becomes(c, IF RefusesRelationship(row.id, row.rel) THEN Skip(c)
                ELSE [call[c] EXCEPT !.pc = "relationship"])
  /\ UNCHANGED <<storeVars, aside>>

MergeRelationship(c) ==
  LET row == Row(c) IN
  /\ call[c].pc = "relationship"
  /\ \/ /\ CreateRelationship(row.id, row.rel)
        /\ Becomes(c, NextRow(c, call[c]))
     \/ /\ row.id \in DOMAIN relationships
        /\ Becomes(c, Skip(c))
        /\ UNCHANGED storeVars
     \/ /\ row.id \notin DOMAIN relationships /\ RefusesRelationship(row.id, row.rel)
        /\ Becomes(c, Answer(call[c], "abandoned"))
        /\ UNCHANGED storeVars
  /\ UNCHANGED aside

ImportStep(c) ==
  \/ BeginImport(c) \/ ImportRow(c)
  \/ LookUp(c) \/ TrySlug(c) \/ MergeEntity(c) \/ LookUpRelationship(c) \/ MergeRelationship(c)

ImportNext ==
  /\ \E c \in Clients : Step(c) \/ ImportStep(c)
  /\ contended' = contended \cup Contention'

ImportSpec == Init /\ [][ImportNext]_vars

-----------------------------------------------------------------------------
\* A row that would take another entity's slug along with the id it matches.
CrossMatch(c, row) ==
  IsEntity(row) /\ row.id \in Stored /\ RefusesSlug(row.id, row.entity.slug)

\* A merge that runs alone is not abandoned, unless an overwriting row matches one
\* entity by id and another by slug: renamed copies find a slug again and again, rows
\* that conflict are resolved, and relationships are stored or reported, so that at the
\* end every relationship of the archive is one or the other (importStreamMerge).
LoneMergeCompletes ==
  \A c \in Clients : Op(c) = "merge" /\ DOMAIN request = {c} =>
    /\ call[c].reply = "abandoned" =>
         request[c].conflict = "overwrite" /\ CrossMatch(c, Row(c))
    /\ call[c].reply = "imported" =>
         \A n \in DOMAIN request[c].rows : LET row == request[c].rows[n] IN
           \/ row.id \in call[c].failed
           \/ IF IsEntity(row) THEN row.id \in ToSet(call[c].created)
              ELSE row.id \in DOMAIN relationships

=============================================================================
