-------------------------- MODULE MCStorageProviders --------------------------
(***************************************************************************)
(* What the clients of StorageProviders ask for: combinations in which the  *)
(* calls have something to do with one another.                             *)
(***************************************************************************)
EXTENDS StorageProviders

Stored(i, kind, ends) == Item(i, kind, First, ends, Token(First, 0, 0))
Entity(i) == Stored(i, "entity", <<>>)
Edge(i, from, to) == Stored(i, "edge", <<from, to>>)
Change == Stored(First, "record", <<>>)
Native == Stored("n1", "native", <<>>)

Ask(op) == [op |-> op, repository |-> "r"]
Other(op) == [op |-> op, repository |-> "s"]
Add(i) == [op |-> "entity", repository |-> "r", id |-> i, ends |-> <<>>, minted |-> FALSE]
Connect(i, minted) == [op |-> "edge", repository |-> "r", id |-> i, ends |-> <<"e1", "e2">>, minted |-> minted]
Drop(ids) == [op |-> "remove", repository |-> "r", ids |-> ids]
Erase(i) == [op |-> "erase", repository |-> "r", ids |-> {i}]

ARow(i) == [id |-> i, kind |-> "entity", ends |-> <<>>, bad |-> FALSE]
BadRow(i) == [ARow(i) EXCEPT !.bad = TRUE]
EdgeRow(i, from, to) == [id |-> i, kind |-> "edge", ends |-> <<from, to>>, bad |-> FALSE]

Import(insert, chunks) == [op |-> "import", repository |-> "r", insert |-> insert, chunks |-> chunks]

\* An entity that comes twice in a chunk, and edges of which one may have no source.
Chunked == << <<ARow("e1"), ARow("e1")>>, <<ARow("e2")>>, <<EdgeRow("k1", "e1", "e2"), EdgeRow("k2", "e3", "e2")>> >>

BadChunk == << <<ARow("e1"), BadRow("e2")>>, <<EdgeRow("k1", "e1", "e2")>> >>

ChunkOfTwo == << <<ARow("e1"), ARow("e2")>>, <<EdgeRow("k1", "e1", "e2")>> >>

\* An edge that comes twice, as the same edge and as another.
TwiceAnEdge == << <<ARow("e1"), ARow("e2")>>,
                  <<EdgeRow("k1", "e1", "e2"), EdgeRow("k1", "e1", "e2"), EdgeRow("k1", "e2", "e1")>> >>

MCOrder == <<"e1", "e2", "e3">>

NoAsk == [op |-> "none", repository |-> "r"]

Plan(where, first, second, third, live, holds, f) ==
  [provider |-> where, live |-> live, data |-> holds, faults |-> f,
   asked |-> LET all == ("a" :> first) @@ ("b" :> second) @@ ("c" :> third)
             IN Restrict(all, {c \in {"a", "b", "c"} : all[c] # NoAsk})]

Pair == {Entity("e1"), Entity("e2"), Edge("k1", "e1", "e2")}

CosmosPlans ==
  {Plan("cosmosdb", Ask("delete"), Ask("create"), x, {"r"}, {Entity("e1")}, 0) :
     x \in {Add("e2"), Ask("save"), Other("create"), Ask("delete")}}
  \cup {Plan("cosmosdb", Ask("delete"), Ask("delete"), Ask("create"), {"r"}, {}, 1),
        Plan("cosmosdb", Ask("delete"), Ask("delete"), Add("e1"), {"r"}, {Change}, 0)}
  \cup {Plan("cosmosdb", Ask("create"), Ask("delete"), Ask("create"), {}, {}, 1)}
  \cup {Plan("cosmosdb", Ask("delete"), x, Connect("k2", FALSE), {"r"}, Pair, 1) :
     x \in {Ask("purge"), Ask("clear")}}
  \cup {Plan("cosmosdb", Ask("delete"), Ask("cut"), y, {"r"}, Pair, 1) :
     y \in {Connect("k2", FALSE), Drop({"e1", "e2"})}}
  \cup {Plan("cosmosdb", Ask("delete"), x, Drop({"e1", "e2"}), {"r"}, Pair, 0) :
     x \in {Ask("purge"), Ask("clear")}}
  \cup {Plan("cosmosdb", Ask("save"), Ask("save"), Ask("delete"), {"r"}, {}, 1)}
  \cup {Plan("cosmosdb", Ask("purge"), Ask("purge"), Add("e3"), {"r"}, {Entity("e1"), Entity("e2")}, 1)}
  \cup {Plan("cosmosdb", Import(insert, ChunkOfTwo), Ask("delete"), Ask("create"), {"r"}, {}, 0) :
     insert \in BOOLEAN}
  \cup {Plan("cosmosdb", Import(TRUE, Chunked), Drop({"e1"}), NoAsk, {"r"}, {}, 1),
        Plan("cosmosdb", Import(FALSE, BadChunk), Add("e1"), NoAsk, {"r"}, {}, 2),
        Plan("cosmosdb", Import(FALSE, TwiceAnEdge), NoAsk, NoAsk, {"r"}, {}, 2),
        Plan("cosmosdb", Import(TRUE, <<>>), Ask("delete"), NoAsk, {"r"}, {}, 0)}

Neo4jPlans ==
  {Plan("neo4j", Ask("delete"), Ask("create"), x, {"r"}, Pair, 1) :
     x \in {Add("e3"), Ask("save"), Connect("k1", FALSE), Connect("k2", TRUE)}}
  \cup {Plan("neo4j", Ask("delete"), Ask("create"), Ask("delete"), {"r"}, {Entity("e1")}, 1)}
  \cup {Plan("neo4j", Ask("create"), Ask("create"), Ask("delete"), {}, {}, 1)}
  \cup {Plan("neo4j", Ask("delete"), Ask("save"), NoAsk, {"r"}, {Change, Native}, 1)}
  \cup {Plan("neo4j", Ask("save"), Ask("save"), NoAsk, {"r"}, {}, 1)}
  \cup {Plan("neo4j", Add("e1"), Add("e1"), Drop({"e1"}), {"r"}, {}, 2)}
  \cup {Plan("neo4j", Ask("delete"), x, Connect("k2", TRUE), {"r"}, Pair, 1) :
     x \in {Ask("purge"), Ask("cut"), Ask("clear"), Drop({"e1", "e2"})}}
  \cup {Plan("neo4j", Import(insert, Chunked), Drop({"e1"}), NoAsk, {"r"}, {}, 2) : insert \in BOOLEAN}
  \cup {Plan("neo4j", Import(insert, ChunkOfTwo), Add("e2"), NoAsk, {"r"}, {}, 2) : insert \in BOOLEAN}
  \cup {Plan("neo4j", Import(insert, ChunkOfTwo), Ask("delete"), Ask("create"), {"r"}, {}, 1) :
     insert \in BOOLEAN}
  \cup {Plan("neo4j", Import(insert, BadChunk), Add("e1"), NoAsk, {"r"}, {}, 1) : insert \in BOOLEAN}
  \cup {Plan("neo4j", Import(TRUE, <<>>), Ask("delete"), NoAsk, {"r"}, {}, 0),
        Plan("neo4j", Import(TRUE, << <<ARow("e1")>>, <<ARow("e2")>> >>), Ask("delete"), Ask("create"), {"r"}, {}, 0)}

SqlServerPlans ==
  {Plan("sqlserver", Ask("delete"), Ask("create"), x, {"r"}, Pair, 1) :
     x \in {Add("e3"), Ask("save"), Ask("delete"), Connect("k2", FALSE), Import(TRUE, ChunkOfTwo), Import(FALSE, BadChunk)}}
  \cup {Plan("sqlserver", Ask("create"), Ask("create"), Ask("delete"), {}, {}, 1)}
  \cup {Plan("sqlserver", Add("e1"), Add("e1"), Ask("create"), {}, {}, 1)}
  \cup {Plan("sqlserver", Ask("save"), Ask("save"), Ask("delete"), {"r"}, {}, 1)}
  \cup {Plan("sqlserver", x, y, Connect("k2", FALSE), {"r"}, Pair, 1) :
     x \in {Ask("purge"), Ask("cut"), Ask("clear"), Drop({"e1", "e2"})}, y \in {Erase("e1"), Ask("delete")}}

MCPlans == CosmosPlans \cup Neo4jPlans \cup SqlServerPlans

-----------------------------------------------------------------------------
\* A delete that meets a create between its two writes, and then entities and a relationship.
TwoEntities == << <<ARow("e1"), ARow("e2")>> >>

EdgePlans ==
  {[provider |-> "cosmosdb", live |-> {}, data |-> {}, faults |-> 0,
    asked |-> ("a" :> Ask("create")) @@ ("b" :> Ask("delete"))
              @@ ("c" :> Import(FALSE, TwoEntities)) @@ ("d" :> Connect("k1", FALSE))]}

=============================================================================
