-------------------------- MODULE VocabularyEngine --------------------------
(***************************************************************************)
(* VocabularyEngine.proposeChange, run by several handles on one           *)
(* repository, over a store with a compare-and-set vocabulary write.       *)
(*                                                                         *)
(* A call reads the vocabulary fresh, has it judged (VocabularyGovernor),  *)
(* and saves the result against the version it read; a conflict starts it  *)
(* over, at most VOCABULARY_WRITE_ATTEMPTS times.  A type deletion then    *)
(* deletes the type's data, in batches that may fail part-way; sending it  *)
(* again finds the type absent and resumes the data step.  Every await of  *)
(* the code separates two steps here, and any step may fail.               *)
(*                                                                         *)
(* Writers store entities and relationships validated against a vocabulary *)
(* they read earlier.  How old that vocabulary is does not depend on this  *)
(* module: a read served by the provider's cache (VocabularyCache) is a    *)
(* writer that read earlier and stored later.                              *)
(*                                                                         *)
(* The store keeps a vocabulary and its change record together, as the     *)
(* SQL Server, Neo4j and in-memory providers do.  CosmosDB's write is not  *)
(* a transaction and may store the vocabulary without its record.          *)
(*                                                                         *)
(* Data is told apart by type alone: the edges that go with a deleted      *)
(* entity are left out.                                                    *)
(***************************************************************************)
EXTENDS VocabularyGovernor, FiniteSets

CONSTANTS
  InitialVocabularies,  \* vocabularies the repository may be created with
  Configs,              \* governance configurations the repository may have
  Clients,              \* handles that propose changes
  Writers,              \* writes of one entity or relationship each
  Seeds,                \* ids of the data each initial type starts with
  Proposals,            \* the proposals the clients may send
  MayUndercount,        \* TRUE if a batch may report fewer deletions than it made
  MaxProposals          \* bound on the proposals sent, resends included

ASSUME EngineAssumption ==
  /\ InitialVocabularies \subseteq Vocabulary
  /\ \A v \in InitialVocabularies, kind \in Kinds :
       \A d \in v.types[kind] : d.since = v.version
  /\ Configs \subseteq GovernanceConfig
  /\ Proposals \subseteq Proposal /\ Proposals # {}
  /\ MayUndercount \in BOOLEAN
  /\ MaxProposals \in Nat

VOCABULARY_WRITE_ATTEMPTS == 3

VARIABLES
  stored,       \* the vocabulary in the store
  changeLog,    \* the change records in the store
  data,         \* entities and relationships in the store
  governance,   \* the governance configuration in the store
  handle,       \* the configuration each handle captured when it was opened
  call,         \* the state of each handle's proposeChange
  begun,        \* writes that have been validated
  pending,      \* validated items on their way to the store
  sent,         \* number of proposals sent
  \* History, read by the properties only:
  rivals,       \* changes others stored during each call
  doomed,       \* data each deletion undertook to delete when it read
  late,         \* data stored under a type no longer declared
  interrupted   \* deletions that stored the vocabulary and then failed

store   == <<stored, changeLog>>
history == <<rivals, doomed, late, interrupted>>
vars    == <<stored, changeLog, data, governance, handle, call, begun, pending,
             sent, rivals, doomed, late, interrupted>>

-----------------------------------------------------------------------------
Item == [kind : Kinds, type : Names, id : Seeds \cup Writers]

Interruption == [kind : Kinds, name : Names, type : Names]

Reply == [status : {"none", "approved", "rejected", "pending_approval",
                    "conflict", "error"},
          type : Names, version : Version]

EmptyVocabulary == [version |-> [major |-> 0, minor |-> 0],
                    types   |-> [kind \in Kinds |-> {}]]

NoReply(p) == [status |-> "none", type |-> p.name, version |-> EmptyVocabulary.version]

Call == [phase : {"idle", "read", "decide", "cascade", "resume", "reread", "answered"},
         proposal : Proposal, snapshot : Vocabulary,
         attempt : 1..VOCABULARY_WRITE_ATTEMPTS, removed : BOOLEAN, reply : Reply]

NewCall(p) == [phase |-> "read", proposal |-> p, snapshot |-> EmptyVocabulary,
               attempt |-> 1, removed |-> FALSE, reply |-> NoReply(p)]

\* A call is over, and forgets all but what it was asked and what it answers.
Finished(p, status, type, version) ==
  [NewCall(p) EXCEPT !.phase = "answered",
                     !.reply = [status |-> status, type |-> type, version |-> version]]

Unused == [NewCall(CHOOSE p \in Proposals : TRUE) EXCEPT !.phase = "idle"]

Idle(c)     == call[c].phase \in {"idle", "answered"}
Deleting(c) == call[c].phase \in {"cascade", "resume"}
HasRead(c)  == call[c].phase \in {"decide", "cascade", "resume"}

\* The name a deletion resolved to, and the data the store deletes for it.
Victim(c) == Target(call[c].snapshot, call[c].proposal)

Matching(c) == {x \in data : /\ x.kind = call[c].proposal.kind
                             /\ StoreKey[x.type] = StoreKey[Victim(c)]}

\* The version from which on the victim was not declared, as the call knows.
Base(c) == IF call[c].phase = "cascade"
           THEN NewVersion(call[c].snapshot, call[c].proposal)
           ELSE call[c].snapshot.version

-----------------------------------------------------------------------------
Init ==
  /\ stored \in InitialVocabularies
  /\ changeLog = <<>>
  /\ data = {x \in Item : x.id \in Seeds /\ Declares(stored, x.kind, x.type)}
  /\ governance \in Configs
  /\ handle = [c \in Clients |-> governance]
  /\ call = [c \in Clients |-> Unused]
  /\ begun = {}
  /\ pending = {}
  /\ sent = 0
  /\ rivals = [c \in Clients |-> 0]
  /\ doomed = [c \in Clients |-> {}]
  /\ late = {}
  /\ interrupted = {}

-----------------------------------------------------------------------------
(* DeepMemory: a handle keeps the configuration it was opened with.        *)

UpdateRepository(g) ==
  /\ governance' = g
  /\ UNCHANGED <<stored, changeLog, data, handle, call, begun, pending, sent, history>>

OpenRepository(c) ==
  /\ Idle(c)
  /\ handle' = [handle EXCEPT ![c] = governance]
  /\ UNCHANGED <<stored, changeLog, data, governance, call, begun, pending, sent, history>>

-----------------------------------------------------------------------------
(* proposeChange, from the request to the verdict.                         *)

ProposeChange(c, p) ==
  /\ Idle(c)
  /\ sent < MaxProposals
  /\ sent' = sent + 1
  /\ call' = [call EXCEPT ![c] = NewCall(p)]
  /\ rivals' = [rivals EXCEPT ![c] = 0]
  /\ doomed' = [doomed EXCEPT ![c] = {}]
  /\ UNCHANGED <<stored, changeLog, data, governance, handle, begun, pending,
                 late, interrupted>>

Doomed(v, p, g) ==
  IF /\ p.op = "delete"
     /\ Approved(v, p, g) \/ (Absent(v, p, g) /\ ~DeclaresNearMatch(v, p))
  THEN {x \in data : x.kind = p.kind /\
          \/ x.type = Target(v, p)
          \/ [kind |-> p.kind, name |-> p.name, type |-> x.type] \in interrupted}
  ELSE {}

ReadFresh(c) ==
  /\ call[c].phase = "read"
  /\ call' = [call EXCEPT ![c].phase = "decide", ![c].snapshot = stored]
  /\ doomed' = [doomed EXCEPT ![c] = Doomed(stored, call[c].proposal, handle[c])]
  /\ UNCHANGED <<stored, changeLog, data, governance, handle, begun, pending, sent,
                 rivals, late, interrupted>>

Answer(c, status, type, version) ==
  call' = [call EXCEPT ![c] = Finished(@.proposal, status, type, version)]

\* The verdict is not an approval and there is no data step to resume.
Decline(c) ==
  LET v == call[c].snapshot
      p == call[c].proposal
      g == handle[c]
  IN  /\ call[c].phase = "decide"
      /\ \/ /\ Queued(v, p, g)
            /\ Answer(c, "pending_approval", p.name, EmptyVocabulary.version)
         \/ /\ Refused(v, p, g)
            /\ Answer(c, "rejected", p.name, EmptyVocabulary.version)
         \/ /\ Absent(v, p, g)
            /\ p.op = "edit" \/ DeclaresNearMatch(v, p)
            /\ Answer(c, "rejected", Target(v, p), EmptyVocabulary.version)
      /\ UNCHANGED <<stored, changeLog, data, governance, handle, begun, pending,
                     sent, history>>

-----------------------------------------------------------------------------
(* The compare-and-set write.                                              *)

CanSave(c) == /\ call[c].phase = "decide"
              /\ Approved(call[c].snapshot, call[c].proposal, handle[c])

\* Mutation of VersionMatches: a comparison of majors only.
MajorMatches(c) == stored.version.major = call[c].snapshot.version.major

VersionMatches(c) == stored.version = call[c].snapshot.version

\* Mutation of Store: the change record is forgotten.
StoreUnlogged(c) ==
  /\ stored' = Applied(call[c].snapshot, call[c].proposal)
  /\ rivals' = [d \in Clients |-> IF d = c THEN rivals[d] ELSE rivals[d] + 1]
  /\ UNCHANGED changeLog

\* saveVocabulary's effect: the vocabulary and its change record together.
Store(c) ==
  /\ stored' = Applied(call[c].snapshot, call[c].proposal)
  /\ changeLog' = Append(changeLog, Record(call[c].snapshot, call[c].proposal))
  /\ rivals' = [d \in Clients |-> IF d = c THEN rivals[d] ELSE rivals[d] + 1]

Approve(c) == Answer(c, "approved", ResultType(call[c].snapshot, call[c].proposal),
                     NewVersion(call[c].snapshot, call[c].proposal))

\* Mutation of AfterSave: the data of a deleted type is left alone.
AfterSaveNoData(c) == Approve(c)

\* A stored deletion goes on to the type's data, any other change is answered.
AfterSave(c) == IF call[c].proposal.op = "delete"
                THEN call' = [call EXCEPT ![c].phase = "cascade"]
                ELSE Approve(c)

\* Mutation of Save: an approved proposal is applied to whatever is stored now.
SaveRebased(c) ==
  LET p == call[c].proposal
  IN  /\ CanSave(c)
      /\ stored' = Applied(stored, p)
      /\ changeLog' = Append(changeLog, Record(stored, p))
      /\ AfterSave(c)
      /\ UNCHANGED <<data, governance, handle, begun, pending, sent, history>>

Save(c) ==
  /\ CanSave(c) /\ VersionMatches(c)
  /\ Store(c)
  /\ AfterSave(c)
  /\ UNCHANGED <<data, governance, handle, begun, pending, sent, doomed, late,
                 interrupted>>

Interrupt(c) ==
  interrupted' = interrupted \cup
    {[kind |-> call[c].proposal.kind, name |-> call[c].proposal.name, type |-> Victim(c)]}

\* The write lands and its acknowledgement is lost.
SaveUnacknowledged(c) ==
  LET p == call[c].proposal
  IN  /\ CanSave(c) /\ VersionMatches(c)
      /\ Store(c)
      /\ Answer(c, "error", p.name, EmptyVocabulary.version)
      /\ IF p.op = "delete" THEN Interrupt(c) ELSE UNCHANGED interrupted
      /\ UNCHANGED <<data, governance, handle, begun, pending, sent, doomed, late>>

\* Mutation of MayRetry: one attempt too few.
MayRetryOnceLess(c) == call[c].attempt + 1 < VOCABULARY_WRITE_ATTEMPTS

MayRetry(c) == call[c].attempt < VOCABULARY_WRITE_ATTEMPTS

\* Mutation of SaveConflict: the retry judges the vocabulary it read before.
RetryWithoutReading(c) == CanSave(c) /\ ~VersionMatches(c) /\ UNCHANGED vars

SaveConflict(c) ==
  LET p == call[c].proposal
  IN  /\ CanSave(c) /\ ~VersionMatches(c)
      /\ IF MayRetry(c)
         THEN call' = [call EXCEPT ![c] = [NewCall(p) EXCEPT !.attempt = call[c].attempt + 1]]
         ELSE Answer(c, "conflict", p.name, EmptyVocabulary.version)
      /\ UNCHANGED <<stored, changeLog, data, governance, handle, begun, pending,
                     sent, history>>

-----------------------------------------------------------------------------
(* The data step of a type deletion: right after the write, or resumed by  *)
(* a deletion that found its type absent.                                  *)

ResumeTypeDeletion(c) ==
  LET v == call[c].snapshot
      p == call[c].proposal
  IN  /\ call[c].phase = "decide"
      /\ p.op = "delete" /\ Absent(v, p, handle[c]) /\ ~DeclaresNearMatch(v, p)
      /\ call' = [call EXCEPT ![c].phase = "resume"]
      /\ UNCHANGED <<stored, changeLog, data, governance, handle, begun, pending,
                     sent, history>>

\* Whether the deletions reported so far, one more request included, are any.
Reports(c) == IF Matching(c) = {}
              THEN {call[c].removed}
              ELSE {TRUE} \cup IF MayUndercount THEN {call[c].removed} ELSE {}

DeleteBatch(c) ==
  /\ Deleting(c)
  /\ \E batch \in SUBSET Matching(c) \ {{}} : data' = data \ batch
  /\ \E removed \in Reports(c) : call' = [call EXCEPT ![c].removed = removed]
  /\ UNCHANGED <<stored, changeLog, governance, handle, begun, pending, sent, history>>

\* Mutation of LastBatch: one batch that removed something is enough.
OneBatchOnly(c) == IF call[c].removed THEN UNCHANGED data ELSE data' = data \ Matching(c)

\* A store is done with a type when a request took all that was left of its data.
LastBatch(c) == data' = data \ Matching(c)

CascadeDone(c) ==
  LET v == call[c].snapshot
      p == call[c].proposal
  IN  /\ Deleting(c)
      /\ LastBatch(c)
      /\ \/ /\ call[c].phase = "cascade"
            /\ Answer(c, "approved", Victim(c), NewVersion(v, p))
         \/ /\ call[c].phase = "resume" /\ TRUE \in Reports(c)
            /\ call' = [call EXCEPT ![c].phase = "reread"]
         \/ /\ call[c].phase = "resume" /\ FALSE \in Reports(c)
            /\ Answer(c, "rejected", Victim(c), EmptyVocabulary.version)
      /\ interrupted' = {i \in interrupted : i.kind # p.kind \/ i.type # Victim(c)}
      /\ UNCHANGED <<stored, changeLog, governance, handle, begun, pending,
                     sent, rivals, doomed, late>>

RereadVersion(c) ==
  /\ call[c].phase = "reread"
  /\ Answer(c, "approved", Victim(c), stored.version)
  /\ UNCHANGED <<stored, changeLog, data, governance, handle, begun, pending, sent,
                 history>>

\* Any request to the store, or to the embedding provider, may fail.
Fail(c) ==
  /\ ~Idle(c)
  /\ Answer(c, "error", call[c].proposal.name, EmptyVocabulary.version)
  /\ IF Deleting(c) THEN Interrupt(c) ELSE UNCHANGED interrupted
  /\ UNCHANGED <<stored, changeLog, data, governance, handle, begun, pending, sent,
                 rivals, doomed, late>>

-----------------------------------------------------------------------------
(* EntityManager and RelationshipManager, as far as types go: validate     *)
(* against a vocabulary, store later.  A relationship is looked up and     *)
(* stored under its SCREAMING_SNAKE_CASE form.                             *)

ValidateWrite(w) ==
  /\ w \notin begun
  /\ \E kind \in Kinds, name \in Names :
       /\ Declares(stored, kind, StoredName(kind, name))
       /\ pending' = pending \cup {[kind |-> kind, type |-> StoredName(kind, name), id |-> w]}
  /\ begun' = begun \cup {w}
  /\ UNCHANGED <<stored, changeLog, data, governance, handle, call, sent, history>>

StoreWrite(x) ==
  /\ x \in pending
  /\ pending' = pending \ {x}
  /\ data' = data \cup {x}
  /\ late' = IF Declares(stored, x.kind, x.type) THEN late ELSE late \cup {x}
  /\ UNCHANGED <<stored, changeLog, governance, handle, call, begun, sent, rivals,
                 doomed, interrupted>>

-----------------------------------------------------------------------------
\* The steps of a call once it is made, as long as nothing fails.
Proceed(c) == \/ ReadFresh(c)
              \/ Decline(c)
              \/ Save(c)
              \/ SaveConflict(c)
              \/ ResumeTypeDeletion(c)
              \/ DeleteBatch(c)
              \/ CascadeDone(c)
              \/ RereadVersion(c)

Next == \/ \E g \in Configs : UpdateRepository(g)
        \/ \E c \in Clients : \/ OpenRepository(c)
                              \/ \E p \in Proposals : ProposeChange(c, p)
                              \/ Proceed(c)
                              \/ SaveUnacknowledged(c)
                              \/ Fail(c)
        \/ \E w \in Writers : ValidateWrite(w)
        \/ \E x \in pending : StoreWrite(x)

Spec == Init /\ [][Next]_vars

\* Every promise the engine awaits settles: a call in progress takes its next
\* step, or fails.  Nothing is obliged to fail, and nobody to send a proposal, to
\* write or to reconfigure.
FairSpec == Spec /\ \A c \in Clients : WF_vars(Proceed(c))

-----------------------------------------------------------------------------
(* Properties.                                                             *)

TypeOK ==
  /\ stored \in Vocabulary
  /\ changeLog \in Seq(ChangeRecord)
  /\ data \subseteq Item
  /\ governance \in Configs
  /\ handle \in [Clients -> Configs]
  /\ call \in [Clients -> Call]
  /\ begun \subseteq Writers
  /\ pending \subseteq Item
  /\ sent \in 0..MaxProposals
  /\ rivals \in [Clients -> Nat]
  /\ doomed \in [Clients -> SUBSET Item]
  /\ late \subseteq Item
  /\ interrupted \subseteq Interruption

\* No lost update.  Whatever a call read, and however long ago, each change of
\* the store is an approved proposal applied to the vocabulary it replaces and
\* logged with it (proposeChange's read, evaluate, compare-and-set cycle).
Register == INSTANCE VocabularyRegister WITH
  InitialVocabularies <- InitialVocabularies,
  Configs <- Configs,
  stored <- stored,
  changeLog <- changeLog
ImplementsRegister == Register!Spec

\* The change log is the vocabulary's history: each record starts at the
\* version the one before it produced, versions only grow, and the last one is
\* the version stored (saveVocabulary stores the record with the vocabulary).
VersionChain ==
  /\ \A i \in 1..Len(changeLog) : Before(changeLog[i].previousVersion, changeLog[i].newVersion)
  /\ \A i \in 1..Len(changeLog)-1 : changeLog[i].newVersion = changeLog[i+1].previousVersion
  /\ changeLog # <<>> => changeLog[Len(changeLog)].newVersion = stored.version

\* What compare-and-set rests on: a version identifies a vocabulary.  No call holds
\* a vocabulary newer than the store's, and one that holds the store's version
\* holds the store's vocabulary ("every successful write moves the version").
VersionIdentifiesVocabulary ==
  \A c \in Clients : HasRead(c) =>
    \/ Before(call[c].snapshot.version, stored.version)
    \/ call[c].snapshot = stored

\* Deduplication survives concurrency: of two proposals that would duplicate
\* one another at most one is stored, because the loser of the compare-and-set
\* is deduplicated again against the winner (attemptProposal).
NoDuplicateTypes ==
  \A kind \in Kinds : \A d, e \in stored.types[kind] :
    Before(d.since, e.since) => <<e.type, d.type>> \notin Similar

\* A conflict reaches the caller only if others changed the vocabulary at least
\* once for every attempt it was granted (VOCABULARY_WRITE_ATTEMPTS).
ConflictMeansContention ==
  \A c \in Clients : call[c].reply.status = "conflict" =>
                       rivals[c] >= VOCABULARY_WRITE_ATTEMPTS

\* An approval is backed by a change record of the same kind of change to the same
\* type.  A deletion that found the type absent makes no second record: it answers for
\* the record the first one stored, or has taken data of a type that was declared
\* anew after it had read (the window the comment of resumeTypeDeletion describes).
Backed(c, op, type, version) ==
  \E i \in 1..Len(changeLog) :
    /\ changeLog[i].op = op
    /\ changeLog[i].kind = call[c].proposal.kind
    /\ StoreKey[changeLog[i].type] = StoreKey[type]
    /\ ~Before(version, changeLog[i].newVersion)

ApprovedIsLogged ==
  \A c \in Clients : call[c].reply.status = "approved" =>
    LET op == call[c].proposal.op
        reply == call[c].reply
    IN  \/ Backed(c, op, reply.type, reply.version)
        \/ op = "delete" /\ Backed(c, "add", reply.type, reply.version)

\* The answer to a deletion is final: whether "approved" or "not found", none of
\* the data it found of its type, or an interrupted sending of the same proposal
\* left behind, is still there ("rejected 'not found' when nothing was left").
DeleteAnswerIsFinal ==
  \A c \in Clients : call[c].reply.status \in {"approved", "rejected"} =>
                       doomed[c] \cap data = {}

\* Data of a type the vocabulary does not declare has a known cause: its deletion
\* is in progress or was interrupted, or it was validated before the deletion and
\* stored after ("data left behind under a type that no longer exists is
\* detectable and can be deleted again").
OrphansAccounted ==
  \A x \in data : ~Declares(stored, x.kind, x.type) =>
    \/ x \in late
    \/ \E i \in interrupted : i.kind = x.kind /\ i.type = x.type
    \/ \E c \in Clients : Deleting(c) /\ x \in Matching(c)

\* No step deletes the data of a type that stands.  If a type is declared while
\* its data is deleted, it was declared anew after the deleting call had seen it
\* gone (the window the comment of resumeTypeDeletion describes).
NoStandingDataLost ==
  [][ \A x \in data \ data' : \A d \in stored.types[x.kind] :
        d.type = x.type =>
          \E c \in Clients : Deleting(c) /\ x \in Matching(c) /\ Before(Base(c), d.since)
    ]_vars

\* Every call is answered: conflicts, batches and failures end (the attempt bound
\* "keeps a persistently contended vocabulary from looping forever").
EveryCallIsAnswered ==
  \A c \in Clients : ~Idle(c) ~> call[c].phase = "answered"

=============================================================================
