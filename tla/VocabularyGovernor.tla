------------------------- MODULE VocabularyGovernor -------------------------
(***************************************************************************)
(* What governance makes of a vocabulary proposal: the verdict, and the    *)
(* vocabulary and change record of an approved one.  These are the pure    *)
(* functions of packages/core/src/vocabulary together with the checks      *)
(* VocabularyEngine runs around them; VocabularyEngine.tla puts them       *)
(* between a read and a compare-and-set write.                             *)
(*                                                                         *)
(* A type name is a member of a small set; what the code computes from its *)
(* characters (SCREAMING_SNAKE_CASE, case folding, similarity, identifier  *)
(* rules) is given by constants, so nothing here depends on spelling.      *)
(*                                                                         *)
(* A type list of the code is a set of definitions here.  Each definition  *)
(* carries the vocabulary version that declared it (createdAt in the       *)
(* code): it keeps two definitions of one name apart, and "first in the    *)
(* list" is "declared first".  The type's own version counts its edits.    *)
(***************************************************************************)
EXTENDS Integers, Sequences

CONSTANTS
  Names,      \* type names, as proposed or as declared
  Snake,      \* [Names -> Names]: toScreamingSnakeCase
  Fold,       \* foldTypeName: equal for names that differ by case or padding
  StoreKey,   \* equal for names a store cannot tell apart in a delete by type
  Similar,    \* pairs <<proposed, declared>> the deduplicator calls duplicates
  Declarable  \* names validateNewTypeName accepts, by kind

Kinds == {"entity", "relationship"}

ASSUME NamesAssumption ==
  /\ Snake \in [Names -> Names]
  /\ Similar \subseteq Names \X Names
  /\ \A n \in Names : <<n, n>> \in Similar
  /\ Declarable \in [Kinds -> SUBSET Names]
  \* A store may be looser than an exact match, but no looser than folding.
  /\ \A m, n \in Names : StoreKey[m] = StoreKey[n] => Fold[m] = Fold[n]

-----------------------------------------------------------------------------
(* Versions "major.minor.0": no vocabulary write bumps the patch.          *)

Version == [major : Nat, minor : Nat]

Before(v, w) == \/ v.major < w.major
                \/ v.major = w.major /\ v.minor < w.minor

Minor(v) == [v EXCEPT !.minor = @ + 1]

Major(v) == [major |-> v.major + 1, minor |-> 0]

-----------------------------------------------------------------------------
TypeDef == [type : Names, since : Version, revision : Nat]

Vocabulary == [version : Version, types : [Kinds -> SUBSET TypeDef]]

Proposal == [op : {"add", "edit", "delete"}, kind : Kinds, name : Names]

GovernanceConfig == [mode : {"locked", "managed", "open"},
                     requireApproval : BOOLEAN,
                     deduplicationEnabled : BOOLEAN]

ChangeRecord == [op : {"add", "edit", "delete"}, kind : Kinds, type : Names,
                 previousVersion : Version, newVersion : Version]

-----------------------------------------------------------------------------
Definitions(v, kind, name) == {d \in v.types[kind] : d.type = name}

Declares(v, kind, name) == Definitions(v, kind, name) # {}

\* The name a new declaration or a new item of data is stored under.
StoredName(kind, name) == IF kind = "relationship" THEN Snake[name] ELSE name

\* The declared name a proposal means: the name itself when it is declared,
\* else the name data is stored under.
Target(v, p) == IF Declares(v, p.kind, p.name)
                THEN p.name
                ELSE StoredName(p.kind, p.name)

First(defs) == {d \in defs : \A e \in defs : ~Before(e.since, d.since)}

Duplicated(v, p, g) ==
  /\ p.op = "add"
  /\ g.mode = "open" => g.deduplicationEnabled
  /\ \E d \in v.types[p.kind] : <<p.name, d.type>> \in Similar

\* A new type's name is checked here; property schemas are taken to be valid.
Malformed(p) == p.op = "add" /\ p.name \notin Declarable[p.kind]

CanPropose(g) == g.mode # "locked"

Refused(v, p, g) == Malformed(p) \/ ~CanPropose(g) \/ Duplicated(v, p, g)

Queued(v, p, g) == /\ ~Refused(v, p, g)
                   /\ g.mode = "managed" /\ g.requireApproval

\* An edit or a delete of a type that is not declared.
Absent(v, p, g) == /\ ~Refused(v, p, g) /\ ~Queued(v, p, g)
                   /\ p.op # "add" /\ ~Declares(v, p.kind, Target(v, p))

Approved(v, p, g) == /\ ~Refused(v, p, g) /\ ~Queued(v, p, g)
                     /\ p.op = "add" \/ Declares(v, p.kind, Target(v, p))

\* Mutation of DeclaresNearMatch: only the exact name counts.
DeclaresExactMatch(v, p) == Declares(v, p.kind, Target(v, p))

\* A declared type that an undeclared target could be mistaken for.
DeclaresNearMatch(v, p) ==
  \E d \in v.types[p.kind] :
    \/ Fold[d.type] = Fold[Target(v, p)]
    \/ p.kind = "relationship" /\ Snake[d.type] = Target(v, p)

-----------------------------------------------------------------------------
\* Mutation of NewVersion: an edit does not count as a new version.
NewVersionUnlessEdit(v, p) == CASE p.op = "delete" -> Major(v.version)
                                [] p.op = "add"    -> Minor(v.version)
                                [] p.op = "edit"   -> v.version

NewVersion(v, p) == IF p.op = "delete" THEN Major(v.version)
                                       ELSE Minor(v.version)

ApplyAdd(v, p) ==
  v.types[p.kind] \cup
    {[type |-> StoredName(p.kind, p.name), since |-> NewVersion(v, p), revision |-> 0]}

Revise(d) == [d EXCEPT !.revision = @ + 1]

\* The first definition is revised.  An entity edit puts the result in the
\* place of every definition of the name, a relationship edit in its own only.
ApplyEdit(v, p) ==
  LET named    == Definitions(v, p.kind, Target(v, p))
      replaced == IF p.kind = "entity" THEN named ELSE First(named)
  IN  (v.types[p.kind] \ replaced) \cup {Revise(d) : d \in First(named)}

ApplyDelete(v, p) == v.types[p.kind] \ Definitions(v, p.kind, Target(v, p))

Applied(v, p) ==
  [version |-> NewVersion(v, p),
   types   |-> [v.types EXCEPT ![p.kind] =
                  CASE p.op = "add"    -> ApplyAdd(v, p)
                    [] p.op = "edit"   -> ApplyEdit(v, p)
                    [] p.op = "delete" -> ApplyDelete(v, p)]]

ResultType(v, p) == IF p.op = "add" THEN StoredName(p.kind, p.name)
                                    ELSE Target(v, p)

Record(v, p) ==
  [op |-> p.op, kind |-> p.kind, type |-> ResultType(v, p),
   previousVersion |-> v.version, newVersion |-> NewVersion(v, p)]

=============================================================================
