---------------------------- MODULE SlugDirectory ----------------------------
(***************************************************************************)
(* What a repository promises to whoever knows an entity by its slug: an   *)
(* entity has one slug, no two entities have the same one, and a lookup    *)
(* answers with the entity that has the slug, whoever writes meanwhile.    *)
(* The promise ends, for one slug, when a claim gives it to an entity while *)
(* another has it; then a lookup still answers with one of them at most.   *)
(***************************************************************************)
CONSTANTS Ids, Slugs

VARIABLES
  named,    \* the slug of each stored entity
  found,    \* the answer to a lookup of each slug: a set of at most one entity
  doubled   \* the slugs that have been claimed while another entity had them

Free(s, i) == \A j \in DOMAIN named \ {i} : named[j] # s

Gives(i, s) == named' = [j \in DOMAIN named \cup {i} |-> IF j = i THEN s ELSE named[j]]

\* An entity is stored under a free slug, or moves to one.
Name(i, s) ==
  /\ Free(s, i) \/ s \in doubled
  /\ Gives(i, s)
  /\ UNCHANGED doubled

\* An entity is stored under a slug that another has.
Claim(i, s) ==
  /\ ~Free(s, i)
  /\ Gives(i, s)
  /\ doubled' = doubled \cup {s}

Remove(gone) ==
  /\ named' = [j \in DOMAIN named \ gone |-> named[j]]
  /\ UNCHANGED doubled

Holders(s) == {i \in DOMAIN named : named[i] = s}

Answers ==
  /\ found = [s \in Slugs |-> found[s]]
  /\ \A s \in Slugs :
       /\ found[s] \subseteq Holders(s)
       /\ \A i, j \in found[s] : i = j
       /\ s \notin doubled => found[s] = Holders(s)

Init ==
  /\ DOMAIN named \subseteq Ids /\ named \in [DOMAIN named -> Slugs]
  /\ doubled = {}
  /\ \A i \in DOMAIN named : Free(named[i], i)
  /\ Answers

Next ==
  /\ \/ \E i \in Ids, s \in Slugs : Name(i, s) \/ Claim(i, s)
     \/ \E gone \in SUBSET Ids : Remove(gone)
  /\ Answers'

Spec == Init /\ [][Next]_<<named, found, doubled>>

=============================================================================
