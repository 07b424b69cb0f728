----------------------------- MODULE Neo4jImporter -----------------------------
(***************************************************************************)
(* importBulk of the Neo4j provider.  The chunks of an import go through a  *)
(* pool, the entities' before the relationships'.  A chunk is a statement   *)
(* that locks the marker and writes all its rows or none; when one row is   *)
(* in the way of the others they are written one by one.  An insert gives   *)
(* each statement a token, for the driver may send a statement again that   *)
(* has written its rows; an upsert merges rows by their id and needs none.  *)
(***************************************************************************)
EXTENDS Neo4jRepository

NewChunk == [
  pc       |-> "waiting",
  row      |-> 1,      \* the next row, when they are written one by one
  refused  |-> {},     \* rows whose id was taken: the tokens will tell
  imported |-> {}]

Chunks(c) == DOMAIN call[c].chunks

Pc(c, k) == call[c].chunks[k].pc

ChunkGoes(c, k, pc) == [call[c] EXCEPT !.chunks[k].pc = pc]

\* The first failure is the import's; a chunk that is under way meets it at its next row.
Stops(c, k, why) ==
  [ChunkGoes(c, k, "over") EXCEPT !.stopped = IF @ = None THEN why ELSE @]

HoldsEntities(c, k) == request[c].chunks[k][1].kind = "entity"

BeginImport(c) ==
  /\ Op(c) = "import" /\ call[c].pc = "idle"
  /\ Becomes(c, [Goes(c, "importing") EXCEPT !.chunks = [k \in DOMAIN request[c].chunks |-> NewChunk]])
  /\ UNCHANGED <<Unmarked, faults>>

\* runBounded
UnderWay(c) == {k \in Chunks(c) : Pc(c, k) \notin {"waiting", "over"}}

Dispatch(c, k) ==
  /\ Pc(c, k) = "waiting" /\ call[c].stopped = None
  /\ Cardinality(UnderWay(c)) < PoolSize
  /\ \A i \in 1..(k - 1) : Pc(c, i) # "waiting" /\ (HoldsEntities(c, i) # HoldsEntities(c, k) => Pc(c, i) = "over")
  /\ Becomes(c, ChunkGoes(c, k, "sent"))
  /\ UNCHANGED <<Unmarked, faults>>

-----------------------------------------------------------------------------
\* What a statement does with rows: a row of an edge needs its endpoints, and an upsert
\* of one finds no other edge under its id.
Written(c, row) ==
  RowOf(c, row).kind = "edge" =>
    /\ ToSet(RowOf(c, row).ends) \subseteq IdsOf(Entities(Repo(c)))
    /\ request[c].insert \/ \A d \in StoredUnder(c, row) : d.ends = RowOf(c, row).ends

ItemOf(c, row, token) ==
  Item(RowOf(c, row).id, RowOf(c, row).kind, marker[Repo(c)], RowOf(c, row).ends, token)

\* An upsert leaves a stored item's token alone, and gives a new one none.
Stores(c, rows, token) ==
  data[Repo(c)] \cup
    IF request[c].insert THEN {ItemOf(c, row, token) : row \in rows}
    ELSE {ItemOf(c, row, Token(None, 0, 0)) : row \in {w \in rows : StoredUnder(c, w) = {}}}

Imports(c, k, rows, pc) ==
  [ChunkGoes(c, k, pc) EXCEPT !.chunks[k].imported = @ \cup rows, !.wrote = @ \cup rows]

\* The constraints on the ids of entities.
Clash(c, rows) ==
  LET ids == {RowOf(c, row).id : row \in rows} IN
  /\ request[c].insert
  /\ \E row \in rows : RowOf(c, row).kind = "entity"
  /\ Cardinality(ids) < Cardinality(rows) \/ ids \cap IdsOf(data[Repo(c)]) # {}

SendChunk(c, k) ==
  LET r == Repo(c)
      rows == {row \in RowsOf(c, k) : Written(c, row)}
      lands == ChangesData(r, Stores(c, rows, Token(c, k, 0)))
  IN
  /\ Pc(c, k) = "sent"
  /\ \/ /\ ~Locked(c)
        /\ Becomes(c, Stops(c, k, "missing"))
        /\ UNCHANGED <<data, faults>>
     \/ /\ Locked(c) /\ Clash(c, RowsOf(c, k))
        /\ Becomes(c, ChunkGoes(c, k, "count"))
        /\ UNCHANGED <<data, faults>>
     \/ /\ Locked(c) /\ ~Clash(c, RowsOf(c, k)) /\ ~\E row \in RowsOf(c, k) : RowOf(c, row).bad
        /\ lands
        /\ \/ Submitted(c, Imports(c, k, rows, "over"), "importing")
           \/ Fault /\ Becomes(c, [ChunkGoes(c, k, "rows") EXCEPT !.wrote = @ \cup rows])
     \/ /\ Locked(c)   \* refused for a row's sake, for memory, or for a node that went meanwhile
        /\ Fault \/ (UNCHANGED faults /\ \E row \in RowsOf(c, k) : RowOf(c, row).bad)
        /\ Becomes(c, ChunkGoes(c, k, "rows"))
        /\ UNCHANGED data
  /\ UNCHANGED <<marker, vocabulary, index, late, swept>>

\* All ids carry the chunk's token: its first run had written it whole.
CountCarrying(c, k) ==
  LET carrying == {d \in Entities(Repo(c)) : d.by = Token(c, k, 0)} IN
  /\ Pc(c, k) = "count"
  /\ Becomes(c, IF Cardinality(carrying) = Cardinality(RowsOf(c, k))
                THEN [ChunkGoes(c, k, "over") EXCEPT !.chunks[k].imported = RowsOf(c, k)]
                ELSE ChunkGoes(c, k, "rows"))
  /\ UNCHANGED <<Unmarked, faults>>

-----------------------------------------------------------------------------
\* Row by row.  A row of an entity has a token of its own, since its id may come twice; the
\* ids of edges come once, and they keep the chunk's.
ChunkToken(c, row) == Token(c, row[1], 0)
RowToken(c, row) == Token(c, row[1], IF RowOf(c, row).kind = "entity" THEN row[2] ELSE 0)

NextRow(cl, c, k) ==
  IF cl.chunks[k].row < Len(request[c].chunks[k]) THEN [cl EXCEPT !.chunks[k].row = @ + 1]
  ELSE [cl EXCEPT !.chunks[k].pc = IF cl.chunks[k].refused = {} THEN "over" ELSE "tokens"]

ImportRow(c, k) ==
  LET r == Repo(c)
      row == <<k, call[c].chunks[k].row>>
      rows == {w \in {row} : Written(c, w)}
  IN
  /\ Pc(c, k) = "rows"
  /\ \/ /\ call[c].stopped # None
        /\ Becomes(c, ChunkGoes(c, k, "over"))
        /\ UNCHANGED <<data, faults>>
     \/ /\ call[c].stopped = None /\ ~Locked(c)
        /\ Becomes(c, Stops(c, k, "missing"))
        /\ UNCHANGED <<data, faults>>
     \/ /\ call[c].stopped = None /\ Locked(c) /\ Clash(c, {row})
        /\ Becomes(c, NextRow([call[c] EXCEPT !.chunks[k].refused = @ \cup {row}], c, k))
        /\ UNCHANGED <<data, faults>>
     \/ /\ call[c].stopped = None /\ Locked(c) /\ ~Clash(c, {row}) /\ ~RowOf(c, row).bad
        /\ ChangesData(r, Stores(c, rows, RowToken(c, row)))
        /\ Submitted(c, NextRow(Imports(c, k, rows, "rows"), c, k), "importing")
     \/ /\ call[c].stopped = None /\ Locked(c) /\ RowOf(c, row).bad
        /\ Becomes(c, NextRow(call[c], c, k))
        /\ UNCHANGED <<data, faults>>
  /\ UNCHANGED <<marker, vocabulary, index, late, swept>>

\* A row that was refused was written if what is stored has its token, or the chunk's.
ReadTokens(c, k) ==
  LET own(row) == \E d \in StoredUnder(c, row) : d.by \in {RowToken(c, row), ChunkToken(c, row)} IN
  /\ Pc(c, k) = "tokens"
  /\ Becomes(c, [ChunkGoes(c, k, "over") EXCEPT
       !.chunks[k].imported = @ \cup {row \in call[c].chunks[k].refused : own(row)}])
  /\ UNCHANGED <<Unmarked, faults>>

\* A failure that is no row's stops the import.
ChunkFails(c, k) ==
  /\ k \in UnderWay(c) /\ Fault
  /\ Becomes(c, Stops(c, k, "failed"))
  /\ UNCHANGED Unmarked

\* An import that has sent nothing looks for the marker here.
EndImport(c) ==
  /\ call[c].pc = "importing"
  /\ \/ /\ \A k \in Chunks(c) : Pc(c, k) = "over"
        /\ call[c].stopped = None
        /\ Becomes(c, IF Chunks(c) = {} /\ ~Locked(c) THEN Missing(c)
             ELSE [Replies(c, "imported") EXCEPT
                     !.told = UNION {call[c].chunks[k].imported : k \in Chunks(c)}])
     \/ /\ UnderWay(c) = {} /\ call[c].stopped # None
        /\ Becomes(c, Replies(c, call[c].stopped))
  /\ UNCHANGED <<Unmarked, faults>>

ImportStep(c) ==
  \/ BeginImport(c) \/ EndImport(c)
  \/ call[c].pc = "importing" /\ \E k \in Chunks(c) :
       Dispatch(c, k) \/ SendChunk(c, k) \/ CountCarrying(c, k) \/ ImportRow(c, k) \/ ReadTokens(c, k)

ImportTrouble(c) == call[c].pc = "importing" /\ \E k \in Chunks(c) : ChunkFails(c, k)

=============================================================================
