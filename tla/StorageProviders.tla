--------------------------- MODULE StorageProviders ---------------------------
(***************************************************************************)
(* Calls on the repositories of a store: the three persistent providers     *)
(* behind the one contract, StorageProvider, whose promises RepositoryLife  *)
(* states.                                                                  *)
(***************************************************************************)
EXTENDS CosmosImporter, Neo4jImporter, SqlServerRepository

Step(c) ==
  \/ BeginDelete(c) \/ ReadVersion(c)
  \/ provider = "cosmosdb" /\ (CosmosStep(c) \/ CosmosImportStep(c))
  \/ provider = "neo4j" /\ (Neo4jStep(c) \/ ImportStep(c))
  \/ provider = "sqlserver" /\ SqlServerStep(c)

\* What goes wrong, nothing makes happen.
Trouble(c) ==
  \/ Fails(c)
  \/ provider = "cosmosdb" /\ CosmosImportTrouble(c)
  \/ provider = "neo4j" /\ ImportTrouble(c)

Next == (\E c \in Clients : Step(c) \/ Trouble(c)) /\ Observed

\* A process goes on with its call; requests are answered.
Spec == Init /\ [][Next]_vars /\ \A c \in Clients : WF_vars(Step(c) /\ Observed)

=============================================================================
