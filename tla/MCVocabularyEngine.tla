------------------------- MODULE MCVocabularyEngine -------------------------
(***************************************************************************)
(* Instances of VocabularyEngine for TLC.                                  *)
(***************************************************************************)
EXTENDS VocabularyEngine

MCNames == {"Person", "person", "worksOn", "WORKS_ON"}

\* "person" is only of use to a delete: it is Person but for its case.
MCSnake == [n \in MCNames |-> IF n = "worksOn" THEN "WORKS_ON" ELSE n]

MCFold == [n \in MCNames |-> CASE n \in {"Person", "person"} -> "person"
                               [] n = "worksOn" -> "workson"
                               [] n = "WORKS_ON" -> "works_on"]

\* Jaro-Winkler puts "workson" and "works_on" above the 0.85 threshold.
MCSimilar ==
  ({"Person", "person"} \X {"Person", "person"}) \cup
  ({"worksOn", "WORKS_ON"} \X {"worksOn", "WORKS_ON"})

MCExact == [n \in MCNames |-> n]

MCDeclarable == [kind \in Kinds |-> MCNames]

Prop(op, kind, name) == [op |-> op, kind |-> kind, name |-> name]

Config(mode, requireApproval, dedup) ==
  [mode |-> mode, requireApproval |-> requireApproval, deduplicationEnabled |-> dedup]

Def(type, major, minor) ==
  [type |-> type, since |-> [major |-> major, minor |-> minor], revision |-> 0]

WithPerson ==
  [version |-> [major |-> 1, minor |-> 0],
   types |-> [kind \in Kinds |-> IF kind = "entity" THEN {Def("Person", 1, 0)} ELSE {}]]

Open == Config("open", FALSE, TRUE)

-----------------------------------------------------------------------------
(* Entity types: adds that would duplicate one another, edits, deletes by  *)
(* the exact and by a near-miss name, over a store that ignores case.      *)

EntityVocabularies == {WithPerson, EmptyVocabulary}
EntityConfigs == {Open}
EntityProposals ==
  {Prop("add", "entity", "Person"), Prop("add", "entity", "person"),
   Prop("edit", "entity", "Person"),
   Prop("delete", "entity", "Person"), Prop("delete", "entity", "person")}

-----------------------------------------------------------------------------
(* Relationship types: proposals that reach WORKS_ON by conversion, enough *)
(* of them for a call to lose all its attempts, and a configuration that   *)
(* changes under open handles.                                             *)

WithWorksOn ==
  [version |-> [major |-> 1, minor |-> 0],
   types |-> [kind \in Kinds |-> IF kind = "relationship" THEN {Def("WORKS_ON", 1, 0)} ELSE {}]]

ContendedVocabularies == {WithWorksOn}
ContendedConfigs == {Open, Config("managed", TRUE, TRUE)}
ContendedProposals ==
  {Prop("edit", "relationship", "worksOn"),
   Prop("delete", "relationship", "worksOn")}

-----------------------------------------------------------------------------
(* A relationship type declared as has_a1b: it is stored as HAS_A1B, and   *)
(* HAS_A1B itself converts to HAS_A1_B.                                    *)

ConvertNames == {"has_a1b", "HAS_A1B", "HAS_A1_B"}
ConvertSnake == [n \in ConvertNames |-> IF n = "has_a1b" THEN "HAS_A1B" ELSE "HAS_A1_B"]
ConvertFold == [n \in ConvertNames |-> IF n = "HAS_A1_B" THEN "has_a1_b" ELSE "has_a1b"]
ConvertExact == [n \in ConvertNames |-> n]
ConvertSimilar == ConvertNames \X ConvertNames
ConvertDeclarable == [kind \in Kinds |-> ConvertNames]
ConvertVocabularies ==
  {[version |-> [major |-> 1, minor |-> 0],
    types |-> [kind \in Kinds |-> IF kind = "relationship" THEN {Def("HAS_A1B", 1, 0)} ELSE {}]]}
ConvertProposals == {Prop("delete", "relationship", "HAS_A1B")}

=============================================================================
