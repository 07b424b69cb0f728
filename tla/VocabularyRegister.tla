------------------------- MODULE VocabularyRegister -------------------------
(***************************************************************************)
(* What a vocabulary promises to everyone who proposes changes to it,      *)
(* whatever the number of processes, retries and failures: it is one       *)
(* register, changed by one approved proposal at a time, each judged       *)
(* against the vocabulary it replaces and recorded in the change log.      *)
(***************************************************************************)
EXTENDS VocabularyGovernor

CONSTANTS
  InitialVocabularies,  \* vocabularies a repository may be created with
  Configs               \* governance configurations handles may hold

VARIABLES
  stored,     \* the vocabulary
  changeLog   \* the change records, in the order the changes were stored

Init == /\ stored \in InitialVocabularies
        /\ changeLog = <<>>

Change(p, g) ==
  /\ Approved(stored, p, g)
  /\ stored' = Applied(stored, p)
  /\ changeLog' = Append(changeLog, Record(stored, p))

Next == \E p \in Proposal, g \in Configs : Change(p, g)

Spec == Init /\ [][Next]_<<stored, changeLog>>

=============================================================================
