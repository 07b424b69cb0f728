---------------------- MODULE VocabularyEngine_proofs ----------------------
(***************************************************************************)
(* VocabularyEngine, for any type names, vocabularies, configurations,     *)
(* proposals, handles and writers.                                         *)
(***************************************************************************)
EXTENDS VocabularyEngine, TLAPS

USE NamesAssumption, EngineAssumption

-----------------------------------------------------------------------------
(* Versions and what governance computes.                                  *)

(***************************************************************************)
(* Before is a strict order on versions.                                   *)
(***************************************************************************)
LEMMA BeforeIsAnOrder ==
  /\ \A v \in Version : ~Before(v, v)
  /\ \A u, v, w \in Version : Before(u, v) /\ Before(v, w) => Before(u, w)
  BY DEF Version, Before

(***************************************************************************)
(* Every approved proposal moves the version forward, so the engine's      *)
(* check that it did ("did not advance the version") never fails.          *)
(***************************************************************************)
LEMMA NewVersionAdvances ==
  ASSUME NEW v \in Vocabulary, NEW p \in Proposal
  PROVE  NewVersion(v, p) \in Version /\ Before(v.version, NewVersion(v, p))
<1>1. v.version \in Version
  BY DEF Vocabulary
<1> QED
  BY <1>1 DEF NewVersion, Major, Minor, Version, Before

(***************************************************************************)
(* The name a proposal means is a name.                                    *)
(***************************************************************************)
LEMMA TargetIsAName ==
  ASSUME NEW v \in Vocabulary, NEW p \in Proposal
  PROVE  Target(v, p) \in Names /\ StoredName(p.kind, p.name) \in Names
  BY DEF Target, StoredName, Proposal

(***************************************************************************)
(* Applying a proposal to a vocabulary makes a vocabulary.                 *)
(***************************************************************************)
LEMMA AppliedIsAVocabulary ==
  ASSUME NEW v \in Vocabulary, NEW p \in Proposal
  PROVE  Applied(v, p) \in Vocabulary
<1>1. p.kind \in Kinds /\ v.types \in [Kinds -> SUBSET TypeDef]
  BY DEF Proposal, Vocabulary
<1>2. NewVersion(v, p) \in Version
  BY NewVersionAdvances
<1>3. ApplyAdd(v, p) \subseteq TypeDef
  <2>1. [type |-> StoredName(p.kind, p.name), since |-> NewVersion(v, p), revision |-> 0]
          \in TypeDef
    BY <1>2, TargetIsAName DEF TypeDef
  <2> QED
    BY <1>1, <2>1 DEF ApplyAdd
<1>4. ApplyEdit(v, p) \subseteq TypeDef
  <2>1. \A d \in TypeDef : Revise(d) \in TypeDef
    BY DEF TypeDef, Revise
  <2>2. First(Definitions(v, p.kind, Target(v, p))) \subseteq TypeDef
    BY <1>1 DEF First, Definitions
  <2> QED
    BY <1>1, <2>1, <2>2 DEF ApplyEdit
<1>5. ApplyDelete(v, p) \subseteq TypeDef
  BY <1>1 DEF ApplyDelete
<1> DEFINE changed == CASE p.op = "add"    -> ApplyAdd(v, p)
                        [] p.op = "edit"   -> ApplyEdit(v, p)
                        [] p.op = "delete" -> ApplyDelete(v, p)
<1>6. changed \subseteq TypeDef
  <2>1. p.op \in {"add", "edit", "delete"}
    BY DEF Proposal
  <2> QED
    BY <1>3, <1>4, <1>5, <2>1
<1>7. Applied(v, p) = [version |-> NewVersion(v, p),
                       types   |-> [v.types EXCEPT ![p.kind] = changed]]
  BY DEF Applied
<1> HIDE DEF changed
<1> QED
  BY <1>1, <1>2, <1>6, <1>7 DEF Vocabulary

(***************************************************************************)
(* The change record of a proposal is a change record.                     *)
(***************************************************************************)
LEMMA RecordIsAChangeRecord ==
  ASSUME NEW v \in Vocabulary, NEW p \in Proposal
  PROVE  Record(v, p) \in ChangeRecord
<1>1. ResultType(v, p) \in Names
  BY TargetIsAName DEF ResultType
<1>2. v.version \in Version /\ NewVersion(v, p) \in Version
  BY NewVersionAdvances DEF Vocabulary
<1> QED
  BY <1>1, <1>2 DEF Record, ChangeRecord, Proposal

-----------------------------------------------------------------------------
(* Calls.                                                                  *)

(***************************************************************************)
(* The vocabulary of a new call is one.                                    *)
(***************************************************************************)
LEMMA EmptyVocabularyIsAVocabulary == EmptyVocabulary \in Vocabulary
<1>1. [major |-> 0, minor |-> 0] \in Version
  BY DEF Version
<1> QED
  BY <1>1 DEF EmptyVocabulary, Vocabulary

(***************************************************************************)
(* A call as it starts is a call.                                          *)
(***************************************************************************)
LEMMA NewCallIsACall ==
  ASSUME NEW p \in Proposal
  PROVE  NewCall(p) \in Call
<1>1. EmptyVocabulary.version \in Version
  BY EmptyVocabularyIsAVocabulary DEF Vocabulary
<1>2. NoReply(p) \in Reply
  BY <1>1 DEF NoReply, Reply, Proposal
<1> QED
  BY <1>2, EmptyVocabularyIsAVocabulary DEF NewCall, Call, VOCABULARY_WRITE_ATTEMPTS

(***************************************************************************)
(* So is a call as it ends, with whatever answer.                          *)
(***************************************************************************)
LEMMA FinishedIsACall ==
  ASSUME NEW p \in Proposal, NEW status \in {"approved", "rejected", "pending_approval",
                                             "conflict", "error"},
         NEW type \in Names, NEW version \in Version
  PROVE  Finished(p, status, type, version) \in Call
<1> DEFINE reply == [status |-> status, type |-> type, version |-> version]
           new   == NewCall(p)
<1>1. reply \in Reply
  BY DEF Reply
<1>2. new \in Call
  BY NewCallIsACall
<1>3. Finished(p, status, type, version) = [new EXCEPT !.phase = "answered", !.reply = reply]
  BY DEF Finished
<1> HIDE DEF reply, new
<1> QED
  BY <1>1, <1>2, <1>3 DEF Call

(***************************************************************************)
(* A call that moves to another phase is a call.                           *)
(***************************************************************************)
LEMMA MovedIsACall ==
  ASSUME NEW x \in Call,
         NEW phase \in {"idle", "read", "decide", "cascade", "resume", "reread", "answered"}
  PROVE  /\ [x EXCEPT !.phase = phase] \in Call
         /\ \A v \in Vocabulary : [x EXCEPT !.phase = phase, !.snapshot = v] \in Call
         /\ \A b \in BOOLEAN : [x EXCEPT !.removed = b] \in Call
         /\ \A n \in 1..VOCABULARY_WRITE_ATTEMPTS : [x EXCEPT !.attempt = n] \in Call
  BY DEF Call

(***************************************************************************)
(* What a call holds.                                                      *)
(***************************************************************************)
LEMMA CallParts ==
  ASSUME TypeOK, NEW c \in Clients
  PROVE  /\ call[c] \in Call /\ handle[c] \in Configs
         /\ call[c].proposal \in Proposal /\ call[c].snapshot \in Vocabulary
         /\ call[c].snapshot.version \in Version
         /\ call[c].attempt \in 1..VOCABULARY_WRITE_ATTEMPTS
         /\ Victim(c) \in Names
         /\ call[c].proposal.name \in Names /\ call[c].proposal.kind \in Kinds
<1>1. call[c] \in Call /\ handle[c] \in Configs
  BY DEF TypeOK
<1>2. call[c].proposal \in Proposal /\ call[c].snapshot \in Vocabulary
  BY <1>1 DEF Call
<1>3. Victim(c) \in Names
  BY <1>2, TargetIsAName DEF Victim
<1>4. call[c].snapshot.version \in Version
  BY <1>2 DEF Vocabulary
<1>5. call[c].attempt \in 1..VOCABULARY_WRITE_ATTEMPTS
  BY <1>1 DEF Call
<1>6. call[c].proposal.name \in Names /\ call[c].proposal.kind \in Kinds
  BY <1>2 DEF Proposal
<1> QED
  BY <1>1, <1>2, <1>3, <1>4, <1>5, <1>6

(***************************************************************************)
(* An answer leaves the calls well typed.                                  *)
(***************************************************************************)
LEMMA AnswerKeepsCalls ==
  ASSUME TypeOK, NEW c \in Clients,
         NEW status \in {"approved", "rejected", "pending_approval", "conflict", "error"},
         NEW type \in Names, NEW version \in Version,
         Answer(c, status, type, version)
  PROVE  call' \in [Clients -> Call]
<1>1. Finished(call[c].proposal, status, type, version) \in Call
  BY CallParts, FinishedIsACall
<1>2. call' = [call EXCEPT ![c] = Finished(call[c].proposal, status, type, version)]
  BY DEF Answer, TypeOK
<1> QED
  BY <1>1, <1>2 DEF TypeOK

(***************************************************************************)
(* A stored change leaves the store well typed.                            *)
(***************************************************************************)
LEMMA StoreKeepsTypes ==
  ASSUME TypeOK, NEW c \in Clients, Store(c)
  PROVE  /\ stored' \in Vocabulary
         /\ changeLog' \in Seq(ChangeRecord)
         /\ rivals' \in [Clients -> Nat]
<1>1. Record(call[c].snapshot, call[c].proposal) \in ChangeRecord
  BY CallParts, RecordIsAChangeRecord
<1>2. Applied(call[c].snapshot, call[c].proposal) \in Vocabulary
  BY CallParts, AppliedIsAVocabulary
<1> QED
  BY <1>1, <1>2 DEF Store, TypeOK

(***************************************************************************)
(* A repository as it is created, before anybody proposes or writes.       *)
(***************************************************************************)
LEMMA InitIsTyped == Init => TypeOK
<1> SUFFICES ASSUME Init PROVE TypeOK
  OBVIOUS
<1>1. stored \in Vocabulary /\ governance \in Configs
  BY DEF Init
<1>2. call \in [Clients -> Call]
  <2>1. (CHOOSE p \in Proposals : TRUE) \in Proposal
    BY Zenon
  <2>2. Unused \in Call
    BY <2>1, NewCallIsACall, MovedIsACall DEF Unused
  <2> QED
    BY <2>2 DEF Init
<1>3. data \subseteq Item
  BY DEF Init
<1>4. changeLog \in Seq(ChangeRecord) /\ sent \in 0..MaxProposals
  BY DEF Init
<1>5. /\ handle \in [Clients -> Configs]
      /\ rivals \in [Clients -> Nat]
      /\ doomed \in [Clients -> SUBSET Item]
  BY <1>1 DEF Init
<1> QED
  BY <1>1, <1>2, <1>3, <1>4, <1>5 DEF Init, TypeOK

(***************************************************************************)
(* An interrupted deletion is remembered as one.                           *)
(***************************************************************************)
LEMMA InterruptKeepsTypes ==
  ASSUME TypeOK, NEW c \in Clients, Interrupt(c)
  PROVE  interrupted' \subseteq Interruption
<1>1. [kind |-> call[c].proposal.kind, name |-> call[c].proposal.name,
       type |-> Victim(c)] \in Interruption
  BY CallParts DEF Interruption
<1> QED
  BY <1>1 DEF Interrupt, TypeOK

(***************************************************************************)
(* Every step keeps the types: in particular no call is ever in a further  *)
(* attempt than VOCABULARY_WRITE_ATTEMPTS, and every vocabulary stored is  *)
(* one.                                                                    *)
(***************************************************************************)
THEOREM TypeCorrect == Spec => []TypeOK
<1>1. Init => TypeOK
  BY InitIsTyped
<1>2. TypeOK /\ [Next]_vars => TypeOK'
  <2> SUFFICES ASSUME TypeOK, [Next]_vars PROVE TypeOK'
    OBVIOUS
  <2>0. EmptyVocabulary.version \in Version /\ stored.version \in Version
    BY EmptyVocabularyIsAVocabulary DEF Vocabulary, TypeOK
  <2>1. ASSUME NEW g \in Configs, UpdateRepository(g) PROVE TypeOK'
    BY <2>1 DEF UpdateRepository, TypeOK, history
  <2>2. ASSUME NEW c \in Clients, OpenRepository(c) PROVE TypeOK'
    BY <2>2 DEF OpenRepository, TypeOK, history
  <2>3. ASSUME NEW c \in Clients, NEW p \in Proposals, ProposeChange(c, p) PROVE TypeOK'
    <3>1. NewCall(p) \in Call
      BY NewCallIsACall
    <3> QED
      BY <2>3, <3>1 DEF ProposeChange, TypeOK
  <2>4. ASSUME NEW c \in Clients, ReadFresh(c) PROVE TypeOK'
    <3> DEFINE read == [call[c] EXCEPT !.phase = "decide", !.snapshot = stored]
    <3>1. read \in Call
      BY CallParts, MovedIsACall DEF TypeOK
    <3>2. call' = [call EXCEPT ![c] = read]
      BY <2>4 DEF ReadFresh, TypeOK
    <3> HIDE DEF read
    <3>3. call' \in [Clients -> Call]
      BY <3>1, <3>2 DEF TypeOK
    <3>4. Doomed(stored, call[c].proposal, handle[c]) \subseteq Item
      BY DEF Doomed, TypeOK
    <3> QED
      BY <2>4, <3>3, <3>4 DEF ReadFresh, TypeOK
  <2>5. ASSUME NEW c \in Clients, Decline(c) PROVE TypeOK'
    <3>1. call' \in [Clients -> Call]
      <4>1. Target(call[c].snapshot, call[c].proposal) \in Names
        BY CallParts, TargetIsAName
      <4> QED
        BY <2>0, <2>5, <4>1, CallParts, AnswerKeepsCalls DEF Decline
    <3> QED
      BY <2>5, <3>1 DEF Decline, TypeOK, history
  <2>6. ASSUME NEW c \in Clients, Save(c) PROVE TypeOK'
    <3>1. call' \in [Clients -> Call]
      <4>1. CASE call[c].proposal.op = "delete"
        <5>1. [call[c] EXCEPT !.phase = "cascade"] \in Call
          BY CallParts, MovedIsACall
        <5>2. call' = [call EXCEPT ![c] = [call[c] EXCEPT !.phase = "cascade"]]
          BY <2>6, <4>1 DEF Save, AfterSave, TypeOK
        <5> QED
          BY <5>1, <5>2 DEF TypeOK
      <4>2. CASE call[c].proposal.op # "delete"
        <5>1. ResultType(call[c].snapshot, call[c].proposal) \in Names
          BY CallParts, TargetIsAName DEF ResultType
        <5>2. NewVersion(call[c].snapshot, call[c].proposal) \in Version
          BY CallParts, NewVersionAdvances
        <5>3. Approve(c)
          BY <2>6, <4>2 DEF Save, AfterSave
        <5> QED
          BY <5>1, <5>2, <5>3, AnswerKeepsCalls DEF Approve
      <4> QED
        BY <4>1, <4>2
    <3>2. Store(c)
      BY <2>6 DEF Save
    <3> QED
      BY <2>6, <3>1, <3>2, StoreKeepsTypes DEF Save, TypeOK
  <2>7. ASSUME NEW c \in Clients, SaveUnacknowledged(c) PROVE TypeOK'
    <3>1. call' \in [Clients -> Call]
      BY <2>0, <2>7, CallParts, AnswerKeepsCalls DEF SaveUnacknowledged
    <3>2. interrupted' \subseteq Interruption
      BY <2>7, InterruptKeepsTypes DEF SaveUnacknowledged, TypeOK
    <3>3. Store(c)
      BY <2>7 DEF SaveUnacknowledged
    <3> QED
      BY <2>7, <3>1, <3>2, <3>3, StoreKeepsTypes DEF SaveUnacknowledged, TypeOK
  <2>8. ASSUME NEW c \in Clients, SaveConflict(c) PROVE TypeOK'
    <3>1. call' \in [Clients -> Call]
      <4>1. CASE MayRetry(c)
        <5>1. call[c].attempt + 1 \in 1..VOCABULARY_WRITE_ATTEMPTS
          BY <4>1, CallParts DEF MayRetry, VOCABULARY_WRITE_ATTEMPTS
        <5>2. [NewCall(call[c].proposal) EXCEPT !.attempt = call[c].attempt + 1] \in Call
          BY <5>1, CallParts, NewCallIsACall, MovedIsACall
        <5> QED
          BY <2>8, <4>1, <5>2 DEF SaveConflict, TypeOK
      <4>2. CASE ~MayRetry(c)
        BY <2>0, <2>8, <4>2, CallParts, AnswerKeepsCalls DEF SaveConflict
      <4> QED
        BY <4>1, <4>2
    <3> QED
      BY <2>8, <3>1 DEF SaveConflict, TypeOK, history
  <2>9. ASSUME NEW c \in Clients, ResumeTypeDeletion(c) PROVE TypeOK'
    <3>1. [call[c] EXCEPT !.phase = "resume"] \in Call
      BY CallParts, MovedIsACall
    <3>2. call' = [call EXCEPT ![c] = [call[c] EXCEPT !.phase = "resume"]]
      BY <2>9 DEF ResumeTypeDeletion, TypeOK
    <3>3. call' \in [Clients -> Call]
      BY <3>1, <3>2 DEF TypeOK
    <3> QED
      BY <2>9, <3>3 DEF ResumeTypeDeletion, TypeOK, history
  <2>10. ASSUME NEW c \in Clients, DeleteBatch(c) PROVE TypeOK'
    <3>1. PICK removed \in Reports(c) :
            call' = [call EXCEPT ![c] = [call[c] EXCEPT !.removed = removed]]
      BY <2>10 DEF DeleteBatch, TypeOK
    <3>0. removed \in BOOLEAN
      BY <3>1, CallParts DEF Reports, Call
    <3>2. [call[c] EXCEPT !.removed = removed] \in Call
      BY <3>0, CallParts, MovedIsACall
    <3>3. call' \in [Clients -> Call]
      BY <3>1, <3>2 DEF TypeOK
    <3>4. data' \subseteq data
      BY <2>10 DEF DeleteBatch
    <3> QED
      BY <2>10, <3>3, <3>4 DEF DeleteBatch, TypeOK, history
  <2>11. ASSUME NEW c \in Clients, CascadeDone(c) PROVE TypeOK'
    <3>1. call' \in [Clients -> Call]
      <4>1. ASSUME call' = [call EXCEPT ![c].phase = "reread"]
            PROVE  call' \in [Clients -> Call]
        <5>1. [call[c] EXCEPT !.phase = "reread"] \in Call
          BY CallParts, MovedIsACall
        <5> QED
          BY <4>1, <5>1 DEF TypeOK
      <4>2. NewVersion(call[c].snapshot, call[c].proposal) \in Version
        BY CallParts, NewVersionAdvances
      <4> QED
        BY <2>0, <2>11, <4>1, <4>2, CallParts, AnswerKeepsCalls DEF CascadeDone
    <3> QED
      BY <2>11, <3>1 DEF CascadeDone, LastBatch, TypeOK
  <2>12. ASSUME NEW c \in Clients, RereadVersion(c) PROVE TypeOK'
    <3>1. call' \in [Clients -> Call]
      BY <2>0, <2>12, CallParts, AnswerKeepsCalls DEF RereadVersion
    <3> QED
      BY <2>12, <3>1 DEF RereadVersion, TypeOK, history
  <2>13. ASSUME NEW c \in Clients, Fail(c) PROVE TypeOK'
    <3>1. call' \in [Clients -> Call]
      BY <2>0, <2>13, CallParts, AnswerKeepsCalls DEF Fail
    <3>2. interrupted' \subseteq Interruption
      BY <2>13, InterruptKeepsTypes DEF Fail, TypeOK
    <3> QED
      BY <2>13, <3>1, <3>2 DEF Fail, TypeOK
  <2>14. ASSUME NEW w \in Writers, ValidateWrite(w) PROVE TypeOK'
    <3>1. PICK kind \in Kinds, name \in Names :
            pending' = pending \cup {[kind |-> kind, type |-> StoredName(kind, name), id |-> w]}
      BY <2>14 DEF ValidateWrite
    <3>2. [kind |-> kind, type |-> StoredName(kind, name), id |-> w] \in Item
      BY DEF Item, StoredName
    <3> QED
      BY <2>14, <3>1, <3>2 DEF ValidateWrite, TypeOK, history
  <2>15. ASSUME NEW x \in pending, StoreWrite(x) PROVE TypeOK'
    BY <2>15 DEF StoreWrite, TypeOK
  <2>16. CASE UNCHANGED vars
    BY <2>16 DEF vars, TypeOK
  <2> QED
    BY <2>1, <2>2, <2>3, <2>4, <2>5, <2>6, <2>7, <2>8, <2>9, <2>10, <2>11, <2>12, <2>13,
       <2>14, <2>15, <2>16 DEF Next, Proceed
<1> QED
  BY <1>1, <1>2, PTL DEF Spec

-----------------------------------------------------------------------------
(***************************************************************************)
(* A version identifies a vocabulary.  Two ways a call can come to hold    *)
(* the store's version: it just read the store, or nothing was stored      *)
(* since.  In both it holds the store's vocabulary, because every write    *)
(* moves the version forward and no version is ever used again.            *)
(***************************************************************************)

(***************************************************************************)
(* A write that passes the compare-and-set replaces the very vocabulary    *)
(* the proposal was judged against, and moves the version forward.         *)
(***************************************************************************)
LEMMA WritesReplaceWhatTheyRead ==
  ASSUME TypeOK, VersionIdentifiesVocabulary, NEW c \in Clients,
         CanSave(c), VersionMatches(c), Store(c)
  PROVE  /\ call[c].snapshot = stored
         /\ stored' = Applied(stored, call[c].proposal)
         /\ Before(stored.version, stored'.version)
<1>1. HasRead(c)
  BY DEF CanSave, HasRead
<1>2. call[c].snapshot = stored
  BY <1>1, BeforeIsAnOrder, CallParts
     DEF VersionIdentifiesVocabulary, VersionMatches
<1>3. stored' = Applied(stored, call[c].proposal)
  BY <1>2 DEF Store
<1>4. stored'.version = NewVersion(stored, call[c].proposal)
  BY <1>3 DEF Applied
<1> QED
  BY <1>2, <1>3, <1>4, CallParts, NewVersionAdvances DEF TypeOK

(***************************************************************************)
(* After a write, every call that has read holds an older version.         *)
(***************************************************************************)
LEMMA WritesOutdateEveryRead ==
  ASSUME TypeOK, VersionIdentifiesVocabulary, NEW c \in Clients, NEW d \in Clients,
         CanSave(c), VersionMatches(c), Store(c), HasRead(d)
  PROVE  Before(call[d].snapshot.version, stored'.version)
<1>1. Before(stored.version, stored'.version)
  BY WritesReplaceWhatTheyRead
<1>2. /\ stored.version \in Version /\ call[d].snapshot.version \in Version
      /\ stored'.version \in Version
  BY StoreKeepsTypes, CallParts DEF TypeOK, Vocabulary
<1> QED
  BY <1>1, <1>2, BeforeIsAnOrder DEF VersionIdentifiesVocabulary

(***************************************************************************)
(* A call that is answered has forgotten what it read; others are left be. *)
(***************************************************************************)
LEMMA AnsweredForgets ==
  ASSUME TypeOK, NEW c \in Clients, NEW d \in Clients, NEW status, NEW type, NEW version,
         Answer(c, status, type, version)
  PROVE  /\ d # c => call'[d] = call[d]
         /\ call'[c].phase = "answered"
<1>1. call' = [call EXCEPT ![c] = Finished(call[c].proposal, status, type, version)]
  BY DEF Answer, TypeOK
<1>2. Finished(call[c].proposal, status, type, version).phase = "answered"
  BY DEF Finished, NewCall
<1> QED
  BY <1>1, <1>2 DEF TypeOK

(***************************************************************************)
(* "Every successful write moves the version": a call that holds the       *)
(* store's version holds the store's vocabulary, and none holds a newer    *)
(* one, for any number of handles and any interleaving.                    *)
(***************************************************************************)
THEOREM VersionsIdentify == Spec => []VersionIdentifiesVocabulary
<1>1. Init => VersionIdentifiesVocabulary
  <2> SUFFICES ASSUME Init, NEW c \in Clients PROVE ~HasRead(c)
    BY DEF VersionIdentifiesVocabulary
  <2>1. Unused.phase = "idle"
    BY DEF Unused, NewCall
  <2> QED
    BY <2>1 DEF Init, HasRead
<1>2. TypeOK /\ VersionIdentifiesVocabulary /\ [Next]_vars => VersionIdentifiesVocabulary'
  <2> SUFFICES ASSUME TypeOK, VersionIdentifiesVocabulary, [Next]_vars,
                      NEW d \in Clients, HasRead(d)'
               PROVE  \/ Before(call'[d].snapshot.version, stored'.version)
                      \/ call'[d].snapshot = stored'
    BY DEF VersionIdentifiesVocabulary
  <2> DEFINE Goal == \/ Before(call'[d].snapshot.version, stored'.version)
                     \/ call'[d].snapshot = stored'
             Quiet == /\ stored' = stored
                      /\ HasRead(d) /\ call'[d].snapshot = call[d].snapshot
  <2>0. Quiet => Goal
    BY DEF VersionIdentifiesVocabulary
  <2>1. ASSUME NEW g \in Configs, UpdateRepository(g) PROVE Goal
    BY <2>0, <2>1 DEF UpdateRepository, HasRead
  <2>2. ASSUME NEW c \in Clients, OpenRepository(c) PROVE Goal
    BY <2>0, <2>2 DEF OpenRepository, HasRead
  <2>3. ASSUME NEW c \in Clients, NEW p \in Proposals, ProposeChange(c, p) PROVE Goal
    <3>1. NewCall(p).phase = "read"
      BY DEF NewCall
    <3>2. call' = [call EXCEPT ![c] = NewCall(p)]
      BY <2>3 DEF ProposeChange
    <3> QED
      BY <2>0, <2>3, <3>1, <3>2 DEF ProposeChange, HasRead, TypeOK
  <2>4. ASSUME NEW c \in Clients, ReadFresh(c) PROVE Goal
    BY <2>0, <2>4 DEF ReadFresh, HasRead, TypeOK
  <2>5. ASSUME NEW c \in Clients, Decline(c) PROVE Goal
    <3>1. \E status, type, version : Answer(c, status, type, version)
      BY <2>5 DEF Decline
    <3> QED
      BY <2>0, <2>5, <3>1, AnsweredForgets DEF Decline, HasRead
  <2>6. ASSUME NEW c \in Clients, Save(c) \/ SaveUnacknowledged(c) PROVE Goal
    <3>1. CanSave(c) /\ VersionMatches(c) /\ Store(c)
      BY <2>6 DEF Save, SaveUnacknowledged
    <3>2. HasRead(d) /\ call'[d].snapshot = call[d].snapshot
      <4>1. CASE call' = [call EXCEPT ![c].phase = "cascade"]
        BY <3>1, <4>1 DEF CanSave, HasRead, TypeOK
      <4>2. CASE \E status, type, version : Answer(c, status, type, version)
        BY <4>2, AnsweredForgets DEF HasRead
      <4> QED
        BY <2>6, <4>1, <4>2 DEF Save, AfterSave, Approve, SaveUnacknowledged
    <3>3. Before(call[d].snapshot.version, stored'.version)
      BY <3>1, <3>2, WritesOutdateEveryRead
    <3> QED
      BY <3>2, <3>3
  <2>7. ASSUME NEW c \in Clients, SaveConflict(c) PROVE Goal
    BY <2>0, <2>7 DEF SaveConflict, Answer, Finished, NewCall, HasRead, TypeOK
  <2>8. ASSUME NEW c \in Clients, ResumeTypeDeletion(c) PROVE Goal
    BY <2>0, <2>8 DEF ResumeTypeDeletion, HasRead, TypeOK
  <2>9. ASSUME NEW c \in Clients, DeleteBatch(c) PROVE Goal
    <3>1. \A x \in Call : \A b : /\ [x EXCEPT !.removed = b].phase = x.phase
                                 /\ [x EXCEPT !.removed = b].snapshot = x.snapshot
      BY DEF Call
    <3>2. PICK b : call' = [call EXCEPT ![c] = [call[c] EXCEPT !.removed = b]]
      BY <2>9 DEF DeleteBatch, TypeOK
    <3>3. call'[d].phase = call[d].phase /\ call'[d].snapshot = call[d].snapshot
      BY <3>1, <3>2 DEF TypeOK
    <3> QED
      BY <2>0, <2>9, <3>3 DEF DeleteBatch, HasRead
  <2>10. ASSUME NEW c \in Clients, CascadeDone(c) PROVE Goal
    <3>1. CASE call' = [call EXCEPT ![c].phase = "reread"]
      BY <2>0, <2>10, <3>1 DEF CascadeDone, HasRead, TypeOK
    <3>2. CASE \E status, type, version : Answer(c, status, type, version)
      BY <2>0, <2>10, <3>2, AnsweredForgets DEF CascadeDone, HasRead
    <3> QED
      BY <2>10, <3>1, <3>2 DEF CascadeDone
  <2>11. ASSUME NEW c \in Clients, RereadVersion(c) \/ Fail(c) PROVE Goal
    <3>1. \E status, type, version : Answer(c, status, type, version)
      BY <2>11 DEF RereadVersion, Fail
    <3> QED
      BY <2>0, <2>11, <3>1, AnsweredForgets DEF RereadVersion, Fail, HasRead
  <2>12. ASSUME NEW w \in Writers, ValidateWrite(w) PROVE Goal
    BY <2>0, <2>12 DEF ValidateWrite, HasRead
  <2>13. ASSUME NEW x \in pending, StoreWrite(x) PROVE Goal
    BY <2>0, <2>13 DEF StoreWrite, HasRead
  <2>14. CASE UNCHANGED vars
    BY <2>0, <2>14 DEF vars, HasRead
  <2> QED
    BY <2>1, <2>2, <2>3, <2>4, <2>5, <2>6, <2>7, <2>8, <2>9, <2>10, <2>11, <2>12, <2>13,
       <2>14 DEF Next, Proceed
<1> QED
  BY <1>1, <1>2, TypeCorrect, PTL DEF Spec

-----------------------------------------------------------------------------
(***************************************************************************)
(* The store, seen from outside.                                           *)
(***************************************************************************)

(***************************************************************************)
(* Nothing but a write that passed the compare-and-set changes the         *)
(* vocabulary or the change log.                                           *)
(***************************************************************************)
LEMMA OnlyWritesChangeTheStore ==
  ASSUME [Next]_vars
  PROVE  \/ UNCHANGED <<stored, changeLog>>
         \/ \E c \in Clients : CanSave(c) /\ VersionMatches(c) /\ Store(c)
<1>1. ASSUME NEW c \in Clients, Save(c) \/ SaveUnacknowledged(c)
      PROVE  CanSave(c) /\ VersionMatches(c) /\ Store(c)
  BY <1>1 DEF Save, SaveUnacknowledged
<1>2. ASSUME NEW c \in Clients,
             ReadFresh(c) \/ Decline(c) \/ SaveConflict(c) \/ ResumeTypeDeletion(c)
      PROVE  UNCHANGED <<stored, changeLog>>
  BY <1>2 DEF ReadFresh, Decline, SaveConflict, ResumeTypeDeletion
<1>3. ASSUME NEW c \in Clients, DeleteBatch(c) \/ CascadeDone(c) \/ RereadVersion(c) \/ Fail(c)
      PROVE  UNCHANGED <<stored, changeLog>>
  BY <1>3 DEF DeleteBatch, CascadeDone, RereadVersion, Fail
<1>4. ASSUME NEW c \in Clients, OpenRepository(c) \/ \E p \in Proposals : ProposeChange(c, p)
      PROVE  UNCHANGED <<stored, changeLog>>
  BY <1>4 DEF OpenRepository, ProposeChange
<1>5. ASSUME \/ \E g \in Configs : UpdateRepository(g)
             \/ \E w \in Writers : ValidateWrite(w)
             \/ \E x \in pending : StoreWrite(x)
             \/ UNCHANGED vars
      PROVE  UNCHANGED <<stored, changeLog>>
  BY <1>5 DEF UpdateRepository, ValidateWrite, StoreWrite, vars
<1> QED
  BY <1>1, <1>2, <1>3, <1>4, <1>5 DEF Next, Proceed

(***************************************************************************)
(* The engine and the register judge and apply proposals alike: the        *)
(* register's governor is this one, instantiated with the same constants.  *)
(***************************************************************************)
LEMMA RegisterHasTheSameGovernor ==
  /\ Register!Proposal = Proposal
  /\ \A v, p, g : Register!Approved(v, p, g) <=> Approved(v, p, g)
  /\ \A v, p : Register!Applied(v, p) = Applied(v, p)
  /\ \A v, p : Register!Record(v, p) = Record(v, p)
<1>1. Register!Proposal = Proposal
  BY DEF Proposal, Kinds, Register!Proposal, Register!Kinds
<1>2. ASSUME NEW v, NEW kind, NEW name
      PROVE  /\ Register!Definitions(v, kind, name) = Definitions(v, kind, name)
             /\ Register!Declares(v, kind, name) <=> Declares(v, kind, name)
             /\ Register!StoredName(kind, name) = StoredName(kind, name)
  BY DEF Definitions, Declares, StoredName, Register!Definitions, Register!Declares,
         Register!StoredName
<1>3. ASSUME NEW v, NEW p
      PROVE  /\ Register!Target(v, p) = Target(v, p)
             /\ Register!NewVersion(v, p) = NewVersion(v, p)
  <2>1. Register!Target(v, p) = Target(v, p)
    BY <1>2, Zenon DEF Target, Register!Target
  <2>2. Register!NewVersion(v, p) = NewVersion(v, p)
    BY DEF NewVersion, Major, Minor, Register!NewVersion, Register!Major, Register!Minor
  <2> QED
    BY <2>1, <2>2
<1>4. ASSUME NEW v, NEW p, NEW g
      PROVE  Register!Approved(v, p, g) <=> Approved(v, p, g)
  <2>1. Register!Refused(v, p, g) <=> Refused(v, p, g)
    BY DEF Refused, Malformed, CanPropose, Duplicated, Register!Refused,
           Register!Malformed, Register!CanPropose, Register!Duplicated
  <2>2. Register!Queued(v, p, g) <=> Queued(v, p, g)
    BY <2>1 DEF Queued, Register!Queued
  <2> QED
    BY <1>2, <1>3, <2>1, <2>2, Zenon DEF Approved, Register!Approved
<1>5. ASSUME NEW v, NEW p
      PROVE  Register!Applied(v, p) = Applied(v, p)
  <2>1. Register!ApplyAdd(v, p) = ApplyAdd(v, p)
    BY <1>2, <1>3, Zenon DEF ApplyAdd, Register!ApplyAdd
  <2>2. /\ \A defs : Register!First(defs) = First(defs)
        /\ \A d : Register!Revise(d) = Revise(d)
    BY DEF First, Before, Revise, Register!First, Register!Before, Register!Revise
  <2>3. Register!ApplyEdit(v, p) = ApplyEdit(v, p)
    BY <1>2, <1>3, <2>2, Zenon DEF ApplyEdit, Register!ApplyEdit
  <2>4. Register!ApplyDelete(v, p) = ApplyDelete(v, p)
    BY <1>2, <1>3, Zenon DEF ApplyDelete, Register!ApplyDelete
  <2> QED
    BY <1>3, <2>1, <2>3, <2>4, Zenon DEF Applied, Register!Applied
<1>6. ASSUME NEW v, NEW p
      PROVE  Register!Record(v, p) = Record(v, p)
  BY <1>2, <1>3, Zenon DEF Record, ResultType, Register!Record, Register!ResultType
<1> QED
  BY <1>1, <1>4, <1>5, <1>6

(***************************************************************************)
(* No lost update: the engine implements the register.  Whatever the       *)
(* handles, retries, failures and writers do, the vocabulary changes only  *)
(* by an approved proposal, judged under a configuration the repository    *)
(* has had, applied to the vocabulary it replaces and logged with it.      *)
(***************************************************************************)
THEOREM EngineImplementsRegister == Spec => ImplementsRegister
<1>1. Init => Register!Init
  BY DEF Init, Register!Init
<1>2. TypeOK /\ VersionIdentifiesVocabulary /\ [Next]_vars
        => [Register!Next]_<<stored, changeLog>>
  <2> SUFFICES ASSUME TypeOK, VersionIdentifiesVocabulary, NEW c \in Clients,
                      CanSave(c), VersionMatches(c), Store(c)
               PROVE  Register!Next
    BY OnlyWritesChangeTheStore
  <2>1. call[c].snapshot = stored
    BY WritesReplaceWhatTheyRead
  <2>2. call[c].proposal \in Proposal /\ handle[c] \in Configs
    BY CallParts
  <2>3. Register!Change(call[c].proposal, handle[c])
    BY <2>1, RegisterHasTheSameGovernor DEF CanSave, Store, Register!Change
  <2> QED
    BY <2>2, <2>3, RegisterHasTheSameGovernor DEF Register!Next
<1> QED
  BY <1>1, <1>2, TypeCorrect, VersionsIdentify, PTL
     DEF Spec, ImplementsRegister, Register!Spec

(***************************************************************************)
(* The change log is an unbroken history that ends at the stored version.  *)
(***************************************************************************)
THEOREM ChangeLogIsTheHistory == Spec => []VersionChain
<1>1. Init => VersionChain
  BY DEF Init, VersionChain
<1>2. TypeOK /\ VersionIdentifiesVocabulary /\ VersionChain /\ [Next]_vars => VersionChain'
  <2> SUFFICES ASSUME TypeOK, VersionIdentifiesVocabulary, VersionChain, [Next]_vars
               PROVE  VersionChain'
    OBVIOUS
  <2>1. CASE UNCHANGED <<stored, changeLog>>
    BY <2>1 DEF VersionChain
  <2>2. ASSUME NEW c \in Clients, CanSave(c), VersionMatches(c), Store(c)
        PROVE  VersionChain'
    <3> DEFINE record == Record(call[c].snapshot, call[c].proposal)
    <3>1. changeLog \in Seq(ChangeRecord) /\ record \in ChangeRecord
      BY CallParts, RecordIsAChangeRecord DEF TypeOK
    <3>2. changeLog' = Append(changeLog, record)
      BY <2>2 DEF Store
    <3>3. record.previousVersion = stored.version /\ record.newVersion = stored'.version
      BY <2>2 DEF Record, Store, Applied, VersionMatches
    <3>4. Before(record.previousVersion, record.newVersion)
      BY <2>2, <3>3, WritesReplaceWhatTheyRead
    <3> HIDE DEF record
    <3>5. Len(changeLog) \in Nat /\ Len(changeLog') = Len(changeLog) + 1
      BY <3>1, <3>2
    <3>6. \A i \in 1..Len(changeLog') :
            changeLog'[i] = IF i <= Len(changeLog) THEN changeLog[i] ELSE record
      BY <3>1, <3>2
    <3>7. \A i \in 1..Len(changeLog') :
            Before(changeLog'[i].previousVersion, changeLog'[i].newVersion)
      BY <3>4, <3>5, <3>6 DEF VersionChain
    <3>8. \A i \in 1..Len(changeLog')-1 :
            changeLog'[i].newVersion = changeLog'[i+1].previousVersion
      <4> SUFFICES ASSUME NEW i \in 1..Len(changeLog)
                   PROVE  changeLog'[i].newVersion = changeLog'[i+1].previousVersion
        BY <3>5
      <4>1. CASE i < Len(changeLog)
        BY <3>5, <3>6, <4>1 DEF VersionChain
      <4>2. CASE i = Len(changeLog)
        <5>1. changeLog # <<>>
          BY <4>2
        <5> QED
          BY <3>3, <3>5, <3>6, <4>2, <5>1 DEF VersionChain
      <4> QED
        BY <3>5, <4>1, <4>2
    <3>9. changeLog'[Len(changeLog')].newVersion = stored'.version
      BY <3>3, <3>5, <3>6
    <3> QED
      BY <3>7, <3>8, <3>9 DEF VersionChain
  <2> QED
    BY <2>1, <2>2, OnlyWritesChangeTheStore
<1> QED
  BY <1>1, <1>2, TypeCorrect, VersionsIdentify, PTL DEF Spec

-----------------------------------------------------------------------------
(***************************************************************************)
(* What the engine's calls promise: a conflict is answered only under      *)
(* contention, and of proposals that would duplicate one another one is    *)
(* stored; the data of every type that stands is spared, data under a type *)
(* that is gone has a known cause, and an approval is backed by the change *)
(* log.                                                                    *)
(***************************************************************************)

-----------------------------------------------------------------------------
(***************************************************************************)
(* Contention.  A call has been overtaken once for every attempt it has    *)
(* behind it, and once more as soon as what it read is out of date.        *)
(***************************************************************************)
Overtaken(x, r, version) ==
  /\ x.phase \in {"read", "decide"} => r >= x.attempt - 1
  /\ x.phase = "decide" /\ x.snapshot.version # version => r >= x.attempt
  /\ x.reply.status = "conflict" => r >= VOCABULARY_WRITE_ATTEMPTS

LosesAreOvertaken == \A c \in Clients : Overtaken(call[c], rivals[c], stored.version)

(***************************************************************************)
(* A call just made has not been overtaken and need not have been.         *)
(***************************************************************************)
LEMMA NewCallIsNotOvertaken ==
  ASSUME NEW p \in Proposal, NEW r \in Nat, NEW version
  PROVE  /\ Overtaken(NewCall(p), r, version)
         /\ Overtaken([NewCall(p) EXCEPT !.phase = "idle"], r, version)
         /\ \A n \in Nat : r >= n - 1 =>
              Overtaken([NewCall(p) EXCEPT !.attempt = n], r, version)
  BY DEF Overtaken, NewCall, NoReply

(***************************************************************************)
(* An answer other than "conflict" promises nothing about contention.      *)
(***************************************************************************)
LEMMA OtherAnswersPromiseNothing ==
  ASSUME TypeOK, NEW c \in Clients, NEW status, NEW type, NEW version,
         Answer(c, status, type, version),
         status = "conflict" => rivals'[c] >= VOCABULARY_WRITE_ATTEMPTS
  PROVE  Overtaken(call'[c], rivals'[c], stored'.version)
<1>1. call'[c] = Finished(call[c].proposal, status, type, version)
  BY DEF Answer, TypeOK
<1>2. /\ call'[c].phase = "answered"
      /\ call'[c].reply.status = status
  BY <1>1 DEF Finished, NewCall
<1> QED
  BY <1>2 DEF Overtaken

(***************************************************************************)
(* A write by one call overtakes every other.                              *)
(***************************************************************************)
LEMMA WritesOvertake ==
  ASSUME TypeOK, LosesAreOvertaken, NEW c \in Clients, NEW d \in Clients, d # c,
         Store(c), call'[d] = call[d]
  PROVE  Overtaken(call'[d], rivals'[d], stored'.version)
<1>1. rivals'[d] = rivals[d] + 1 /\ rivals[d] \in Nat
  BY DEF Store, TypeOK
<1>2. call[d].attempt \in Nat
  BY CallParts DEF VOCABULARY_WRITE_ATTEMPTS
<1> QED
  BY <1>1, <1>2 DEF Overtaken, LosesAreOvertaken, VOCABULARY_WRITE_ATTEMPTS

(***************************************************************************)
(* VOCABULARY_WRITE_ATTEMPTS: a caller is told "conflict" only if others   *)
(* changed the vocabulary at least once for every attempt its call was     *)
(* granted; no call loses an attempt to nobody.                            *)
(***************************************************************************)
THEOREM ConflictsMeanContention == Spec => []ConflictMeansContention
<1>1. Init => LosesAreOvertaken
  <2> SUFFICES ASSUME Init, NEW c \in Clients
               PROVE  Overtaken(call[c], rivals[c], stored.version)
    BY DEF LosesAreOvertaken
  <2>1. call[c] = Unused /\ rivals[c] = 0
    BY DEF Init
  <2>2. (CHOOSE p \in Proposals : TRUE) \in Proposal
    BY Zenon
  <2>3. Overtaken(Unused, 0, stored.version)
    BY <2>2, NewCallIsNotOvertaken DEF Unused
  <2> QED
    BY <2>1, <2>3
<1>2. TypeOK /\ LosesAreOvertaken /\ [Next]_vars => LosesAreOvertaken'
  <2> SUFFICES ASSUME TypeOK, LosesAreOvertaken, [Next]_vars, NEW d \in Clients
               PROVE  Overtaken(call'[d], rivals'[d], stored'.version)
    BY DEF LosesAreOvertaken
  <2> DEFINE Goal == Overtaken(call'[d], rivals'[d], stored'.version)
             Quiet == /\ stored' = stored /\ rivals' = rivals
                      /\ call'[d] = call[d]
  <2>0. Quiet => Goal
    BY DEF LosesAreOvertaken
  <2>a. ASSUME NEW c \in Clients, NEW status, NEW type, NEW version,
               Answer(c, status, type, version), status # "conflict",
               stored' = stored, rivals' = rivals
        PROVE  Goal
    BY <2>0, <2>a, AnsweredForgets, OtherAnswersPromiseNothing
  <2>1. ASSUME NEW g \in Configs, UpdateRepository(g) PROVE Goal
    BY <2>0, <2>1 DEF UpdateRepository, history
  <2>2. ASSUME NEW c \in Clients, OpenRepository(c) PROVE Goal
    BY <2>0, <2>2 DEF OpenRepository, history
  <2>3. ASSUME NEW c \in Clients, NEW p \in Proposals, ProposeChange(c, p) PROVE Goal
    <3>1. CASE d = c
      <4>1. call'[d] = NewCall(p) /\ rivals'[d] = 0
        BY <2>3, <3>1 DEF ProposeChange, TypeOK
      <4>2. p \in Proposal
        OBVIOUS
      <4>3. \A version : Overtaken(NewCall(p), 0, version)
        BY <4>2, NewCallIsNotOvertaken
      <4> QED
        BY <4>1, <4>3
    <3>2. CASE d # c
      <4>1. /\ call'[d] = call[d] /\ rivals'[d] = rivals[d]
            /\ stored' = stored
        BY <2>3, <3>2 DEF ProposeChange, TypeOK
      <4> QED
        BY <4>1 DEF LosesAreOvertaken
    <3> QED
      BY <3>1, <3>2
  <2>4. ASSUME NEW c \in Clients, ReadFresh(c) PROVE Goal
    <3>0. stored' = stored /\ rivals' = rivals
      BY <2>4 DEF ReadFresh
    <3>1. CASE d = c
      <4>1. call'[d] = [call[d] EXCEPT !.phase = "decide", !.snapshot = stored]
        BY <2>4, <3>1 DEF ReadFresh, TypeOK
      <4>2. /\ call'[d].phase = "decide" /\ call'[d].snapshot = stored
            /\ call'[d].attempt = call[d].attempt /\ call'[d].reply = call[d].reply
        BY <4>1, CallParts DEF Call
      <4>3. call[d].phase = "read"
        BY <2>4, <3>1 DEF ReadFresh
      <4> QED
        BY <3>0, <4>2, <4>3 DEF LosesAreOvertaken, Overtaken
    <3>2. CASE d # c
      BY <2>0, <2>4, <3>0, <3>2 DEF ReadFresh, TypeOK
    <3> QED
      BY <3>1, <3>2
  <2>5. ASSUME NEW c \in Clients, Decline(c) PROVE Goal
    BY <2>a, <2>5 DEF Decline, history
  <2>6. ASSUME NEW c \in Clients, Save(c) \/ SaveUnacknowledged(c) PROVE Goal
    <3>1. Store(c)
      BY <2>6 DEF Save, SaveUnacknowledged
    <3>2. \/ call' = [call EXCEPT ![c].phase = "cascade"]
          \/ \E status, type, version :
               status # "conflict" /\ Answer(c, status, type, version)
      BY <2>6 DEF Save, AfterSave, Approve, SaveUnacknowledged
    <3>3. CASE d # c
      <4>1. call'[d] = call[d]
        BY <3>2, <3>3, AnsweredForgets DEF TypeOK
      <4> QED
        BY <3>1, <3>3, <4>1, WritesOvertake
    <3>4. CASE d = c
      <4>1. CASE call' = [call EXCEPT ![c].phase = "cascade"]
        <5>1. call'[d].phase = "cascade" /\ call'[d].reply = call[d].reply
          BY <3>4, <4>1, CallParts DEF TypeOK, Call
        <5>2. rivals'[d] = rivals[d]
          BY <3>1, <3>4 DEF Store
        <5> QED
          BY <5>1, <5>2 DEF LosesAreOvertaken, Overtaken
      <4>2. CASE \E status, type, version :
                   status # "conflict" /\ Answer(c, status, type, version)
        BY <3>4, <4>2, OtherAnswersPromiseNothing
      <4> QED
        BY <3>2, <4>1, <4>2
    <3> QED
      BY <3>3, <3>4
  <2>7. ASSUME NEW c \in Clients, SaveConflict(c) PROVE Goal
    <3>0. stored' = stored /\ rivals' = rivals
      BY <2>7 DEF SaveConflict, history
    <3>1. rivals[c] >= call[c].attempt /\ rivals[c] \in Nat
      BY <2>7 DEF SaveConflict, CanSave, VersionMatches, LosesAreOvertaken, Overtaken,
                  TypeOK
    <3>2. call[c].attempt \in 1..3 /\ call[c].proposal \in Proposal
      BY CallParts DEF VOCABULARY_WRITE_ATTEMPTS
    <3>3. CASE MayRetry(c)
      <4>1. call' = [call EXCEPT ![c] =
                       [NewCall(call[c].proposal) EXCEPT !.attempt = call[c].attempt + 1]]
        BY <2>7, <3>3 DEF SaveConflict
      <4>2. CASE d = c
        <5>1. call'[d] = [NewCall(call[c].proposal) EXCEPT !.attempt = call[c].attempt + 1]
          BY <4>1, <4>2 DEF TypeOK
        <5> DEFINE n == call[c].attempt + 1
        <5>2. n \in Nat /\ rivals[c] >= n - 1
          BY <3>1, <3>2
        <5> HIDE DEF n
        <5>3. \A version : Overtaken([NewCall(call[c].proposal) EXCEPT !.attempt = n],
                                     rivals[c], version)
          BY <3>1, <3>2, <5>2, NewCallIsNotOvertaken
        <5> QED
          BY <3>0, <4>2, <5>1, <5>3 DEF n
      <4>3. CASE d # c
        BY <2>0, <3>0, <4>1, <4>3 DEF TypeOK
      <4> QED
        BY <4>2, <4>3
    <3>4. CASE ~MayRetry(c)
      <4>1. Answer(c, "conflict", call[c].proposal.name, EmptyVocabulary.version)
        BY <2>7, <3>4 DEF SaveConflict
      <4>2. rivals'[c] >= VOCABULARY_WRITE_ATTEMPTS
        BY <3>0, <3>1, <3>2, <3>4 DEF MayRetry, VOCABULARY_WRITE_ATTEMPTS
      <4> QED
        BY <2>0, <3>0, <4>1, <4>2, AnsweredForgets, OtherAnswersPromiseNothing
    <3> QED
      BY <3>3, <3>4
  <2>8. ASSUME NEW c \in Clients, NEW phase \in {"resume", "reread"},
               call' = [call EXCEPT ![c].phase = phase],
               stored' = stored, rivals' = rivals
        PROVE  Goal
    <3>1. CASE d = c
      <4>1. call'[d].phase = phase /\ call'[d].reply = call[d].reply
        BY <2>8, <3>1, CallParts DEF TypeOK, Call
      <4> QED
        BY <2>8, <4>1 DEF LosesAreOvertaken, Overtaken
    <3>2. CASE d # c
      BY <2>0, <2>8, <3>2 DEF TypeOK
    <3> QED
      BY <3>1, <3>2
  <2>9. ASSUME NEW c \in Clients, ResumeTypeDeletion(c) PROVE Goal
    BY <2>8, <2>9 DEF ResumeTypeDeletion, history
  <2>10. ASSUME NEW c \in Clients, DeleteBatch(c) PROVE Goal
    <3>1. PICK b : call' = [call EXCEPT ![c] = [call[c] EXCEPT !.removed = b]]
      BY <2>10 DEF DeleteBatch, TypeOK
    <3>2. \A x \in Call : /\ [x EXCEPT !.removed = b].phase = x.phase
                          /\ [x EXCEPT !.removed = b].snapshot = x.snapshot
                          /\ [x EXCEPT !.removed = b].attempt = x.attempt
                          /\ [x EXCEPT !.removed = b].reply = x.reply
      BY DEF Call
    <3>3. /\ call'[d].phase = call[d].phase /\ call'[d].snapshot = call[d].snapshot
          /\ call'[d].attempt = call[d].attempt /\ call'[d].reply = call[d].reply
      BY <3>1, <3>2, CallParts DEF TypeOK
    <3> QED
      BY <2>10, <3>3 DEF DeleteBatch, history, LosesAreOvertaken, Overtaken
  <2>11. ASSUME NEW c \in Clients, CascadeDone(c) PROVE Goal
    <3>1. stored' = stored /\ rivals' = rivals
      BY <2>11 DEF CascadeDone
    <3> QED
      BY <2>a, <2>8, <2>11, <3>1 DEF CascadeDone
  <2>12. ASSUME NEW c \in Clients, RereadVersion(c) \/ Fail(c) PROVE Goal
    BY <2>a, <2>12 DEF RereadVersion, Fail, history
  <2>13. ASSUME NEW w \in Writers, ValidateWrite(w) PROVE Goal
    BY <2>0, <2>13 DEF ValidateWrite, history
  <2>14. ASSUME NEW x \in pending, StoreWrite(x) PROVE Goal
    BY <2>0, <2>14 DEF StoreWrite
  <2>15. CASE UNCHANGED vars
    BY <2>0, <2>15 DEF vars
  <2> QED
    BY <2>1, <2>2, <2>3, <2>4, <2>5, <2>6, <2>7, <2>9, <2>10, <2>11, <2>12, <2>13,
       <2>14, <2>15 DEF Next, Proceed
<1>3. LosesAreOvertaken => ConflictMeansContention
  BY DEF LosesAreOvertaken, Overtaken, ConflictMeansContention
<1> QED
  BY <1>1, <1>2, <1>3, TypeCorrect, PTL DEF Spec

-----------------------------------------------------------------------------
(***************************************************************************)
(* Deduplication.  A type that is declared is not newer than the           *)
(* vocabulary, and the declaration that is newer than another was judged   *)
(* against it.                                                             *)
(***************************************************************************)
Dated ==
  \A kind \in Kinds : \A d \in stored.types[kind] : ~Before(stored.version, d.since)

Deduplicated(types) ==
  \A d, e \in types : Before(d.since, e.since) => <<e.type, d.type>> \notin Similar

(***************************************************************************)
(* What a proposal makes of the types: each definition is one that was     *)
(* there, one of those revised, or, for an addition, the new one.          *)
(***************************************************************************)
LEMMA AppliedTypes ==
  ASSUME NEW v \in Vocabulary, NEW p \in Proposal, NEW kind \in Kinds,
         NEW d \in Applied(v, p).types[kind]
  PROVE  \/ \E e \in v.types[kind] : d.type = e.type /\ d.since = e.since
         \/ /\ p.op = "add" /\ p.kind = kind
            /\ d.type = StoredName(kind, p.name) /\ d.since = NewVersion(v, p)
<1>0. p.kind \in Kinds /\ v.types \in [Kinds -> SUBSET TypeDef]
      /\ p.op \in {"add", "edit", "delete"}
  BY DEF Proposal, Vocabulary
<1>1. CASE kind # p.kind
  <2>1. Applied(v, p).types[kind] = v.types[kind]
    BY <1>0, <1>1 DEF Applied
  <2> QED
    BY <2>1
<1>2. CASE kind = p.kind /\ p.op = "add"
  <2>1. d \in ApplyAdd(v, p)
    BY <1>0, <1>2 DEF Applied
  <2> QED
    BY <1>2, <2>1 DEF ApplyAdd
<1>3. CASE kind = p.kind /\ p.op = "edit"
  <2>1. d \in ApplyEdit(v, p)
    BY <1>0, <1>3 DEF Applied
  <2>2. CASE d \in v.types[p.kind]
    BY <1>3, <2>2
  <2>3. CASE \E e \in First(Definitions(v, p.kind, Target(v, p))) : d = Revise(e)
    <3>1. PICK e \in v.types[p.kind] : d = Revise(e)
      BY <2>3 DEF First, Definitions
    <3>2. e \in TypeDef
      BY <1>0, <3>1
    <3>3. d.type = e.type /\ d.since = e.since
      BY <3>1, <3>2 DEF Revise, TypeDef
    <3> QED
      BY <1>3, <3>3
  <2> QED
    BY <2>1, <2>2, <2>3 DEF ApplyEdit
<1>4. CASE kind = p.kind /\ p.op = "delete"
  <2>1. d \in ApplyDelete(v, p)
    BY <1>0, <1>4 DEF Applied
  <2> QED
    BY <1>4, <2>1 DEF ApplyDelete
<1> QED
  BY <1>0, <1>1, <1>2, <1>3, <1>4

(***************************************************************************)
(* An applied proposal declares nothing later than the version it makes.   *)
(***************************************************************************)
LEMMA ApprovalsDate ==
  ASSUME NEW v \in Vocabulary, NEW p \in Proposal, NEW kind \in Kinds,
         \A d \in v.types[kind] : ~Before(v.version, d.since)
  PROVE  /\ \A d \in v.types[kind] : ~Before(NewVersion(v, p), d.since)
         /\ \A d \in Applied(v, p).types[kind] : ~Before(NewVersion(v, p), d.since)
<1>1. /\ v.version \in Version /\ NewVersion(v, p) \in Version
      /\ Before(v.version, NewVersion(v, p))
  BY NewVersionAdvances DEF Vocabulary
<1>2. \A d \in v.types[kind] : d.since \in Version
  BY DEF Vocabulary, TypeDef
<1>3. \A d \in v.types[kind] : ~Before(NewVersion(v, p), d.since)
  BY <1>1, <1>2, BeforeIsAnOrder
<1>4. ~Before(NewVersion(v, p), NewVersion(v, p))
  BY <1>1, BeforeIsAnOrder
<1>5. \A d \in Applied(v, p).types[kind] : ~Before(NewVersion(v, p), d.since)
  <2> SUFFICES ASSUME NEW d \in Applied(v, p).types[kind]
               PROVE  ~Before(NewVersion(v, p), d.since)
    OBVIOUS
  <2>1. CASE \E e \in v.types[kind] : d.type = e.type /\ d.since = e.since
    BY <1>3, <2>1
  <2>2. CASE d.since = NewVersion(v, p)
    BY <1>4, <2>2
  <2> QED
    BY <2>1, <2>2, AppliedTypes
<1> QED
  BY <1>3, <1>5

(***************************************************************************)
(* An approved proposal keeps the vocabulary deduplicated.                 *)
(***************************************************************************)
LEMMA ApprovalsDeduplicate ==
  ASSUME NEW v \in Vocabulary, NEW p \in Proposal, NEW g, Approved(v, p, g),
         g.mode = "open" => g.deduplicationEnabled,
         \A m, n \in Names : <<Snake[m], n>> \in Similar => <<m, n>> \in Similar,
         NEW kind \in Kinds, Deduplicated(v.types[kind]),
         \A d \in v.types[kind] : ~Before(v.version, d.since)
  PROVE  /\ Deduplicated(Applied(v, p).types[kind])
         /\ \A d \in Applied(v, p).types[kind] : ~Before(NewVersion(v, p), d.since)
<1>1. NewVersion(v, p) \in Version /\ ~Before(NewVersion(v, p), NewVersion(v, p))
  BY NewVersionAdvances, BeforeIsAnOrder
<1>2. \A d \in v.types[kind] : d.since \in Version /\ d.type \in Names
  BY DEF Vocabulary, TypeDef
<1>5. \A d \in Applied(v, p).types[kind] : ~Before(NewVersion(v, p), d.since)
  BY ApprovalsDate
<1>6. ASSUME NEW d \in Applied(v, p).types[kind], NEW e \in Applied(v, p).types[kind],
             Before(d.since, e.since)
      PROVE  <<e.type, d.type>> \notin Similar
  <2>1. PICK x \in v.types[kind] : d.type = x.type /\ d.since = x.since
    <3>1. e.since \in Version /\ ~Before(NewVersion(v, p), e.since)
      BY <1>1, <1>2, <1>5, AppliedTypes
    <3>2. d.since # NewVersion(v, p)
      BY <1>6, <3>1
    <3> QED
      BY <3>2, AppliedTypes
  <2>2. CASE \E y \in v.types[kind] : e.type = y.type /\ e.since = y.since
    BY <1>6, <2>1, <2>2 DEF Deduplicated
  <2>3. CASE p.op = "add" /\ p.kind = kind /\ e.type = StoredName(kind, p.name)
    <3>1. p.name \in Names
      BY DEF Proposal
    <3>2. <<p.name, x.type>> \notin Similar
      BY <2>3 DEF Approved, Refused, Duplicated
    <3> QED
      BY <1>2, <2>1, <2>3, <3>1, <3>2 DEF StoredName
  <2> QED
    BY <2>2, <2>3, AppliedTypes
<1> QED
  BY <1>5, <1>6 DEF Deduplicated

(***************************************************************************)
(* Deduplication survives concurrency, retries and failures: of two        *)
(* proposals that would duplicate one another at most one is stored.  Two  *)
(* conditions the code does not enforce are premises: deduplication is on  *)
(* in every open configuration, and a relationship name is as similar to a *)
(* declared one as its stored form is (the deduplicator compares the name  *)
(* as proposed, applyAdd stores its SCREAMING_SNAKE_CASE form).            *)
(***************************************************************************)
THEOREM DuplicatesAreNeverStored ==
  ASSUME \A g \in Configs : g.mode = "open" => g.deduplicationEnabled,
         \A m, n \in Names : <<Snake[m], n>> \in Similar => <<m, n>> \in Similar
  PROVE  Spec => []NoDuplicateTypes
<1> DEFINE Inv == Dated /\ NoDuplicateTypes
<1>1. Init => Inv
  <2> SUFFICES ASSUME Init, NEW kind \in Kinds, NEW d \in stored.types[kind]
               PROVE  /\ ~Before(stored.version, d.since)
                      /\ \A e \in stored.types[kind] : ~Before(d.since, e.since)
    BY DEF Dated, NoDuplicateTypes
  <2>1. /\ stored.version \in Version
        /\ \A e \in stored.types[kind] : e.since = stored.version
    BY DEF Init, Vocabulary
  <2> QED
    BY <2>1, BeforeIsAnOrder
<1>2. TypeOK /\ VersionIdentifiesVocabulary /\ Inv /\ [Next]_vars => Inv'
  <2> SUFFICES ASSUME TypeOK, VersionIdentifiesVocabulary, Inv, [Next]_vars
               PROVE  Inv'
    OBVIOUS
  <2>1. CASE UNCHANGED <<stored, changeLog>>
    BY <2>1 DEF Dated, NoDuplicateTypes
  <2>2. ASSUME NEW c \in Clients, CanSave(c), VersionMatches(c), Store(c)
        PROVE  Inv'
    <3> DEFINE p == call[c].proposal
    <3>1. call[c].snapshot = stored /\ stored' = Applied(stored, p)
      BY <2>2, WritesReplaceWhatTheyRead
    <3>2. stored'.version = NewVersion(stored, p)
      BY <3>1 DEF Applied
    <3>3. Approved(stored, p, handle[c])
      BY <2>2, <3>1 DEF CanSave
    <3>4. p \in Proposal /\ stored \in Vocabulary
          /\ (handle[c].mode = "open" => handle[c].deduplicationEnabled)
      BY CallParts DEF TypeOK
    <3>5. \A kind \in Kinds : Deduplicated(stored.types[kind])
      BY DEF NoDuplicateTypes, Deduplicated
    <3>6. \A kind \in Kinds :
            /\ Deduplicated(Applied(stored, p).types[kind])
            /\ \A d \in Applied(stored, p).types[kind] : ~Before(NewVersion(stored, p), d.since)
      BY <3>3, <3>4, <3>5, ApprovalsDeduplicate DEF Dated
    <3> HIDE DEF p
    <3>7. Dated'
      BY <3>1, <3>2, <3>6 DEF Dated
    <3>8. NoDuplicateTypes'
      BY <3>1, <3>6 DEF NoDuplicateTypes, Deduplicated
    <3> QED
      BY <3>7, <3>8
  <2> QED
    BY <2>1, <2>2, OnlyWritesChangeTheStore
<1> QED
  BY <1>1, <1>2, TypeCorrect, VersionsIdentify, PTL DEF Spec

-----------------------------------------------------------------------------
(***************************************************************************)
(* Deletions.  What protects the data of a type declared anew while a      *)
(* deletion of its name is under way is that the deletion looked first: a  *)
(* type its data step can hit is newer than the version it deletes from.   *)
(***************************************************************************)
KeysDistinct ==
  \A kind \in Kinds : \A d, e \in stored.types[kind] :
    StoreKey[d.type] = StoreKey[e.type] => d.type = e.type

DeletesFrom(x) == IF x.phase = "cascade" THEN NewVersion(x.snapshot, x.proposal)
                                         ELSE x.snapshot.version

Spares(x, v) ==
  /\ x.phase = "decide" =>
       /\ ~Before(v.version, x.snapshot.version)
       /\ \A d \in v.types[x.proposal.kind] :
            \/ Before(x.snapshot.version, d.since)
            \/ \E e \in x.snapshot.types[x.proposal.kind] : e.type = d.type
  /\ x.phase \in {"cascade", "resume"} =>
       /\ ~Before(v.version, DeletesFrom(x))
       /\ \A d \in v.types[x.proposal.kind] :
            StoreKey[d.type] = StoreKey[Target(x.snapshot, x.proposal)]
              => Before(DeletesFrom(x), d.since)

CallsSpare == \A c \in Clients : Spares(call[c], stored)

(***************************************************************************)
(* What comes after a version comes after every version not after it.      *)
(***************************************************************************)
LEMMA NotBeforeThenBefore ==
  ASSUME NEW u \in Version, NEW v \in Version, NEW w \in Version,
         ~Before(v, u), Before(v, w)
  PROVE  Before(u, w) /\ ~Before(w, u)
  BY DEF Version, Before

(***************************************************************************)
(* A change stored by another call leaves a deletion in its right: a type  *)
(* it declares is newer than all versions there were.                      *)
(***************************************************************************)
LEMMA WritesSpare ==
  ASSUME NEW x \in Call, NEW v \in Vocabulary, NEW p \in Proposal, Spares(x, v)
  PROVE  Spares(x, Applied(v, p))
<1> DEFINE w == Applied(v, p)
<1>1. /\ v.version \in Version /\ w.version = NewVersion(v, p)
      /\ w.version \in Version /\ Before(v.version, w.version)
  BY NewVersionAdvances DEF Vocabulary, Applied
<1>2. /\ x.snapshot \in Vocabulary /\ x.proposal \in Proposal
      /\ x.proposal.kind \in Kinds /\ x.snapshot.version \in Version
  BY DEF Call, Proposal, Vocabulary
<1>3. DeletesFrom(x) \in Version
  BY <1>2, NewVersionAdvances DEF DeletesFrom
<1>4. \A d \in w.types[x.proposal.kind] :
        \/ \E e \in v.types[x.proposal.kind] : d.type = e.type /\ d.since = e.since
        \/ d.since = w.version
  BY <1>1, <1>2, AppliedTypes
<1> HIDE DEF w
<1>5. CASE x.phase = "decide"
  <2>1. ~Before(v.version, x.snapshot.version)
    BY <1>5 DEF Spares
  <2>2. Before(x.snapshot.version, w.version) /\ ~Before(w.version, x.snapshot.version)
    BY <1>1, <1>2, <2>1, NotBeforeThenBefore
  <2>3. \A d \in w.types[x.proposal.kind] :
          \/ Before(x.snapshot.version, d.since)
          \/ \E e \in x.snapshot.types[x.proposal.kind] : e.type = d.type
    BY <1>4, <1>5, <2>2 DEF Spares
  <2> QED
    BY <1>5, <2>2, <2>3 DEF Spares, w
<1>6. CASE x.phase \in {"cascade", "resume"}
  <2>1. ~Before(v.version, DeletesFrom(x))
    BY <1>6 DEF Spares
  <2>2. Before(DeletesFrom(x), w.version) /\ ~Before(w.version, DeletesFrom(x))
    BY <1>1, <1>3, <2>1, NotBeforeThenBefore
  <2>3. \A d \in w.types[x.proposal.kind] :
          StoreKey[d.type] = StoreKey[Target(x.snapshot, x.proposal)]
            => Before(DeletesFrom(x), d.since)
    BY <1>4, <1>6, <2>2 DEF Spares
  <2> QED
    BY <1>6, <2>2, <2>3 DEF Spares, w
<1>7. CASE x.phase \notin {"decide", "cascade", "resume"}
  BY <1>7 DEF Spares
<1> QED
  BY <1>5, <1>6, <1>7

(***************************************************************************)
(* A deletion that was just stored has left no type its data step can hit. *)
(***************************************************************************)
LEMMA StoredDeletionsSpare ==
  ASSUME TypeOK, KeysDistinct, NEW c \in Clients, call[c].snapshot = stored,
         Approved(stored, call[c].proposal, handle[c]), call[c].proposal.op = "delete"
  PROVE  Spares([call[c] EXCEPT !.phase = "cascade"], Applied(stored, call[c].proposal))
<1> DEFINE p == call[c].proposal
           x == [call[c] EXCEPT !.phase = "cascade"]
<1>1. /\ x.phase = "cascade" /\ x.snapshot = stored /\ x.proposal = p
      /\ p \in Proposal /\ p.kind \in Kinds /\ stored \in Vocabulary
  BY CallParts DEF Call, TypeOK
<1>2. /\ NewVersion(stored, p) \in Version
      /\ Applied(stored, p).version = NewVersion(stored, p)
      /\ ~Before(NewVersion(stored, p), NewVersion(stored, p))
  BY <1>1, NewVersionAdvances, BeforeIsAnOrder DEF Applied
<1>3. Applied(stored, p).types[p.kind] = ApplyDelete(stored, p)
  BY <1>1 DEF Applied, Vocabulary
<1>4. \E e \in stored.types[p.kind] : e.type = Target(stored, p)
  BY DEF Approved, Declares, Definitions
<1>5. \A d \in ApplyDelete(stored, p) : StoreKey[d.type] # StoreKey[Target(stored, p)]
  BY <1>1, <1>4 DEF ApplyDelete, Definitions, KeysDistinct
<1>6. DeletesFrom(x) = NewVersion(stored, p)
  BY <1>1 DEF DeletesFrom
<1> HIDE DEF x, p
<1> QED
  BY <1>1, <1>2, <1>3, <1>5, <1>6 DEF Spares, x, p

(***************************************************************************)
(* So has one that found its type absent: it saw no type it can hit, and   *)
(* whatever was declared since is newer than what it read.                 *)
(***************************************************************************)
LEMMA ResumedDeletionsSpare ==
  ASSUME TypeOK, CallsSpare, NEW c \in Clients, ResumeTypeDeletion(c)
  PROVE  Spares([call[c] EXCEPT !.phase = "resume"], stored)
<1> DEFINE v == call[c].snapshot
           p == call[c].proposal
           x == [call[c] EXCEPT !.phase = "resume"]
<1>1. /\ x.phase = "resume" /\ x.snapshot = v /\ x.proposal = p
      /\ p \in Proposal /\ p.kind \in Kinds /\ v \in Vocabulary /\ stored \in Vocabulary
  BY CallParts DEF Call, TypeOK
<1>2. call[c].phase = "decide" /\ ~DeclaresNearMatch(v, p)
  BY DEF ResumeTypeDeletion
<1>3. /\ ~Before(stored.version, v.version)
      /\ \A d \in stored.types[p.kind] :
           \/ Before(v.version, d.since)
           \/ \E e \in v.types[p.kind] : e.type = d.type
  BY <1>2 DEF CallsSpare, Spares
<1>4. Target(v, p) \in Names
  BY <1>1, TargetIsAName
<1>5. \A e \in v.types[p.kind] : e.type \in Names
  BY <1>1 DEF Vocabulary, TypeDef
<1>6. \A e \in v.types[p.kind] : StoreKey[e.type] # StoreKey[Target(v, p)]
  BY <1>2, <1>4, <1>5 DEF DeclaresNearMatch
<1>7. \A d \in stored.types[p.kind] :
        StoreKey[d.type] = StoreKey[Target(v, p)] => Before(v.version, d.since)
  BY <1>3, <1>6
<1>8. DeletesFrom(x) = v.version
  BY <1>1 DEF DeletesFrom
<1> HIDE DEF x, v, p
<1> QED
  BY <1>1, <1>3, <1>7, <1>8 DEF Spares, x, v, p

(***************************************************************************)
(* An approved proposal declares no name a store would take for another.   *)
(***************************************************************************)
LEMMA ApprovalsKeepKeysDistinct ==
  ASSUME TypeOK, KeysDistinct, NEW c \in Clients,
         Approved(stored, call[c].proposal, handle[c]),
         \A g \in Configs : g.mode = "open" => g.deduplicationEnabled,
         \A m, n \in Names : \/ StoreKey[m] = StoreKey[n]
                             \/ StoreKey[Snake[m]] = StoreKey[n]
                             => <<m, n>> \in Similar,
         NEW kind \in Kinds,
         NEW d \in Applied(stored, call[c].proposal).types[kind],
         NEW e \in Applied(stored, call[c].proposal).types[kind],
         StoreKey[d.type] = StoreKey[e.type]
  PROVE  d.type = e.type
<1> DEFINE p == call[c].proposal
           New(x) == p.op = "add" /\ p.kind = kind /\ x.type = StoredName(kind, p.name)
           Old(x) == \E y \in stored.types[kind] : x.type = y.type
<1>1. /\ p \in Proposal /\ p.name \in Names /\ stored \in Vocabulary
      /\ (handle[c].mode = "open" => handle[c].deduplicationEnabled)
  BY CallParts DEF TypeOK
<1>2. (Old(d) \/ New(d)) /\ (Old(e) \/ New(e))
  BY <1>1, AppliedTypes
<1>3. \A y \in stored.types[kind] : y.type \in Names
  BY <1>1 DEF Vocabulary, TypeDef
<1>4. ASSUME NEW x, NEW y \in stored.types[kind], New(x),
             StoreKey[x.type] = StoreKey[y.type]
      PROVE  FALSE
  <2>1. <<p.name, y.type>> \notin Similar
    BY <1>1, <1>4 DEF Approved, Refused, Duplicated
  <2>2. x.type = p.name \/ x.type = Snake[p.name]
    BY <1>4 DEF StoredName
  <2> QED
    BY <1>1, <1>3, <1>4, <2>1, <2>2
<1>5. CASE Old(d) /\ Old(e)
  BY <1>5 DEF KeysDistinct
<1>6. CASE New(d) /\ New(e)
  BY <1>6
<1>7. CASE (New(d) /\ Old(e)) \/ (Old(d) /\ New(e))
  BY <1>4, <1>7
<1> QED
  BY <1>2, <1>5, <1>6, <1>7

(***************************************************************************)
(* A call that ends, or starts over, deletes nothing any more.             *)
(***************************************************************************)
LEMMA EndedCallsSpare ==
  ASSUME TypeOK, NEW c \in Clients, NEW v,
         call'[c].phase \notin {"decide", "cascade", "resume"}
  PROVE  Spares(call'[c], v)
  BY DEF Spares

(***************************************************************************)
(* Every step of every handle leaves all deletions in their right.         *)
(***************************************************************************)
LEMMA StepsSpare ==
  ASSUME TypeOK, VersionIdentifiesVocabulary, KeysDistinct, CallsSpare, [Next]_vars
  PROVE  CallsSpare'
<1> SUFFICES ASSUME NEW d \in Clients PROVE Spares(call'[d], stored')
  BY DEF CallsSpare
<1> DEFINE Goal == Spares(call'[d], stored')
<1>0. stored' = stored /\ call'[d] = call[d] => Goal
  BY DEF CallsSpare
<1>a. ASSUME NEW c \in Clients, NEW status, NEW type, NEW version,
             Answer(c, status, type, version), stored' = stored
      PROVE  Goal
  BY <1>0, <1>a, AnsweredForgets, EndedCallsSpare
<1>1. ASSUME NEW g \in Configs, UpdateRepository(g) PROVE Goal
  BY <1>0, <1>1 DEF UpdateRepository
<1>2. ASSUME NEW c \in Clients, OpenRepository(c) PROVE Goal
  BY <1>0, <1>2 DEF OpenRepository
<1>3. ASSUME NEW c \in Clients, NEW p \in Proposals, ProposeChange(c, p) PROVE Goal
  <2>1. NewCall(p).phase = "read"
    BY DEF NewCall
  <2>2. stored' = stored /\ call' = [call EXCEPT ![c] = NewCall(p)]
    BY <1>3 DEF ProposeChange
  <2> QED
    BY <1>0, <2>1, <2>2, EndedCallsSpare DEF TypeOK
<1>4. ASSUME NEW c \in Clients, ReadFresh(c) PROVE Goal
  <2>1. CASE d = c
    <3>1. call'[d] = [call[d] EXCEPT !.phase = "decide", !.snapshot = stored]
      BY <1>4, <2>1 DEF ReadFresh, TypeOK
    <3>2. call'[d].phase = "decide" /\ call'[d].snapshot = stored
      BY <3>1, CallParts DEF Call
    <3>3. stored' = stored /\ ~Before(stored.version, stored.version)
      BY <1>4, BeforeIsAnOrder DEF ReadFresh, TypeOK, Vocabulary
    <3> QED
      BY <3>2, <3>3 DEF Spares
  <2>2. CASE d # c
    BY <1>0, <1>4, <2>2 DEF ReadFresh, TypeOK
  <2> QED
    BY <2>1, <2>2
<1>5. ASSUME NEW c \in Clients, Decline(c) PROVE Goal
  BY <1>a, <1>5 DEF Decline
<1>6. ASSUME NEW c \in Clients, Save(c) \/ SaveUnacknowledged(c) PROVE Goal
  <2>1. /\ CanSave(c) /\ VersionMatches(c) /\ Store(c)
        /\ call[c].snapshot = stored /\ stored' = Applied(stored, call[c].proposal)
    BY <1>6, WritesReplaceWhatTheyRead DEF Save, SaveUnacknowledged
  <2>2. \/ /\ call' = [call EXCEPT ![c] = [call[c] EXCEPT !.phase = "cascade"]]
           /\ call[c].proposal.op = "delete"
        \/ \E status, type, version : Answer(c, status, type, version)
    BY <1>6 DEF Save, AfterSave, Approve, SaveUnacknowledged, TypeOK
  <2>3. CASE d # c
    <3>1. call'[d] = call[d]
      BY <2>2, <2>3, AnsweredForgets DEF TypeOK
    <3>2. Spares(call[d], Applied(stored, call[c].proposal))
      BY CallParts, WritesSpare DEF TypeOK, CallsSpare
    <3> QED
      BY <2>1, <3>1, <3>2
  <2>4. CASE d = c /\ \E status, type, version : Answer(c, status, type, version)
    BY <2>4, AnsweredForgets, EndedCallsSpare
  <2>5. CASE /\ d = c /\ call[c].proposal.op = "delete"
             /\ call' = [call EXCEPT ![c] = [call[c] EXCEPT !.phase = "cascade"]]
    <3>1. Spares([call[c] EXCEPT !.phase = "cascade"], stored')
      BY <2>1, <2>5, StoredDeletionsSpare DEF CanSave
    <3>2. call'[d] = [call[c] EXCEPT !.phase = "cascade"]
      BY <2>5 DEF TypeOK
    <3> QED
      BY <3>1, <3>2
  <2> QED
    BY <2>2, <2>3, <2>4, <2>5
<1>7. ASSUME NEW c \in Clients, SaveConflict(c) PROVE Goal
  <2>1. stored' = stored
    BY <1>7 DEF SaveConflict
  <2>2. CASE MayRetry(c)
    <3> DEFINE again == [NewCall(call[c].proposal) EXCEPT !.attempt = call[c].attempt + 1]
    <3>1. call' = [call EXCEPT ![c] = again]
      BY <1>7, <2>2 DEF SaveConflict
    <3>2. again.phase = "read"
      BY DEF NewCall
    <3> HIDE DEF again
    <3> QED
      BY <1>0, <2>1, <3>1, <3>2, EndedCallsSpare DEF TypeOK
  <2>3. CASE ~MayRetry(c)
    BY <1>7, <1>a, <2>1, <2>3 DEF SaveConflict
  <2> QED
    BY <2>2, <2>3
<1>8. ASSUME NEW c \in Clients, ResumeTypeDeletion(c) PROVE Goal
  <2>1. Spares([call[c] EXCEPT !.phase = "resume"], stored)
    BY <1>8, ResumedDeletionsSpare
  <2>2. stored' = stored /\ call' = [call EXCEPT ![c] = [call[c] EXCEPT !.phase = "resume"]]
    BY <1>8 DEF ResumeTypeDeletion, TypeOK
  <2> QED
    BY <1>0, <2>1, <2>2 DEF TypeOK
<1>9. ASSUME NEW c \in Clients, DeleteBatch(c) PROVE Goal
  <2>1. PICK b : call' = [call EXCEPT ![c] = [call[c] EXCEPT !.removed = b]]
    BY <1>9 DEF DeleteBatch, TypeOK
  <2>2. \A x \in Call : /\ [x EXCEPT !.removed = b].phase = x.phase
                        /\ [x EXCEPT !.removed = b].snapshot = x.snapshot
                        /\ [x EXCEPT !.removed = b].proposal = x.proposal
    BY DEF Call
  <2>3. /\ call'[d].phase = call[d].phase /\ call'[d].snapshot = call[d].snapshot
        /\ call'[d].proposal = call[d].proposal
    BY <2>1, <2>2, CallParts DEF TypeOK
  <2>4. stored' = stored
    BY <1>9 DEF DeleteBatch
  <2> QED
    BY <2>3, <2>4 DEF CallsSpare, Spares, DeletesFrom
<1>10. ASSUME NEW c \in Clients, CascadeDone(c) PROVE Goal
  <2>1. stored' = stored
    BY <1>10 DEF CascadeDone
  <2>2. CASE call' = [call EXCEPT ![c].phase = "reread"]
    <3>1. call'[c].phase = "reread" /\ (d # c => call'[d] = call[d])
      BY <2>2, CallParts DEF TypeOK, Call
    <3> QED
      BY <1>0, <2>1, <3>1, EndedCallsSpare
  <2> QED
    BY <1>10, <1>a, <2>1, <2>2 DEF CascadeDone
<1>11. ASSUME NEW c \in Clients, RereadVersion(c) \/ Fail(c) PROVE Goal
  BY <1>a, <1>11 DEF RereadVersion, Fail
<1>12. ASSUME NEW w \in Writers, ValidateWrite(w) PROVE Goal
  BY <1>0, <1>12 DEF ValidateWrite
<1>13. ASSUME NEW x \in pending, StoreWrite(x) PROVE Goal
  BY <1>0, <1>13 DEF StoreWrite
<1>14. CASE UNCHANGED vars
  BY <1>0, <1>14 DEF vars
<1> QED
  BY <1>1, <1>2, <1>3, <1>4, <1>5, <1>6, <1>7, <1>8, <1>9, <1>10, <1>11, <1>12, <1>13,
     <1>14 DEF Next, Proceed

(***************************************************************************)
(* Data is only ever deleted by a type deletion's data step, and only what *)
(* the store takes for the victim's.                                       *)
(***************************************************************************)
LEMMA OnlyDeletionsDelete ==
  ASSUME TypeOK, [Next]_vars, NEW x \in data \ data'
  PROVE  \E c \in Clients : Deleting(c) /\ x \in Matching(c)
<1> DEFINE Goal == \E c \in Clients : Deleting(c) /\ x \in Matching(c)
<1>1. ASSUME NEW c \in Clients, DeleteBatch(c) \/ CascadeDone(c) PROVE Goal
  BY <1>1 DEF DeleteBatch, CascadeDone, LastBatch
<1>2. ASSUME NEW c \in Clients,
             \/ OpenRepository(c) \/ (\E p \in Proposals : ProposeChange(c, p))
             \/ ReadFresh(c) \/ Decline(c) \/ Save(c) \/ SaveConflict(c)
             \/ ResumeTypeDeletion(c) \/ RereadVersion(c)
             \/ SaveUnacknowledged(c) \/ Fail(c)
      PROVE  data' = data
  BY <1>2 DEF OpenRepository, ProposeChange, ReadFresh, Decline, Save, SaveConflict,
              ResumeTypeDeletion, RereadVersion, SaveUnacknowledged, Fail
<1>3. ASSUME \/ \E g \in Configs : UpdateRepository(g)
             \/ \E w \in Writers : ValidateWrite(w)
             \/ \E y \in pending : StoreWrite(y)
             \/ UNCHANGED vars
      PROVE  data \subseteq data'
  BY <1>3 DEF UpdateRepository, ValidateWrite, StoreWrite, vars
<1> QED
  BY <1>1, <1>2, <1>3 DEF Next, Proceed

(***************************************************************************)
(* No step deletes the data of a type that stands: whatever handles,       *)
(* retries, failures and resumed deletions do, data of a declared type is  *)
(* deleted only where the type was declared anew after the deletion had    *)
(* seen it gone.  The premises: deduplication is on, it tells a proposed   *)
(* name from every declared one a store's delete by type would take for    *)
(* it, and the repository was created with no two such names.              *)
(***************************************************************************)
THEOREM StandingDataIsKept ==
  ASSUME \A g \in Configs : g.mode = "open" => g.deduplicationEnabled,
         \A m, n \in Names : \/ StoreKey[m] = StoreKey[n]
                             \/ StoreKey[Snake[m]] = StoreKey[n]
                             => <<m, n>> \in Similar,
         \A v \in InitialVocabularies, kind \in Kinds : \A d, e \in v.types[kind] :
           StoreKey[d.type] = StoreKey[e.type] => d.type = e.type
  PROVE  Spec => NoStandingDataLost
<1>1. Init => KeysDistinct /\ CallsSpare
  <2> SUFFICES ASSUME Init PROVE KeysDistinct /\ CallsSpare
    OBVIOUS
  <2>1. KeysDistinct
    BY DEF Init, KeysDistinct
  <2>2. \A c \in Clients : call[c].phase = "idle"
    BY DEF Init, Unused, NewCall
  <2> QED
    BY <2>1, <2>2 DEF CallsSpare, Spares
<1>2. TypeOK /\ VersionIdentifiesVocabulary /\ KeysDistinct /\ [Next]_vars => KeysDistinct'
  <2> SUFFICES ASSUME TypeOK, VersionIdentifiesVocabulary, KeysDistinct, [Next]_vars
               PROVE  KeysDistinct'
    OBVIOUS
  <2>1. CASE UNCHANGED <<stored, changeLog>>
    BY <2>1 DEF KeysDistinct
  <2>2. ASSUME NEW c \in Clients, CanSave(c), VersionMatches(c), Store(c)
        PROVE  KeysDistinct'
    <3>1. /\ stored' = Applied(stored, call[c].proposal)
          /\ Approved(stored, call[c].proposal, handle[c])
      BY <2>2, WritesReplaceWhatTheyRead DEF CanSave
    <3> QED
      BY <3>1, ApprovalsKeepKeysDistinct DEF KeysDistinct
  <2> QED
    BY <2>1, <2>2, OnlyWritesChangeTheStore
<1>3. TypeOK /\ VersionIdentifiesVocabulary /\ KeysDistinct /\ CallsSpare /\ [Next]_vars
        => CallsSpare'
  BY StepsSpare
<1>4. TypeOK /\ CallsSpare /\ [Next]_vars =>
        [ \A x \in data \ data' : \A d \in stored.types[x.kind] :
            d.type = x.type =>
              \E c \in Clients : Deleting(c) /\ x \in Matching(c) /\ Before(Base(c), d.since)
        ]_vars
  <2> SUFFICES ASSUME TypeOK, CallsSpare, [Next]_vars,
                      NEW x \in data \ data', NEW d \in stored.types[x.kind],
                      d.type = x.type
               PROVE  \E c \in Clients :
                        Deleting(c) /\ x \in Matching(c) /\ Before(Base(c), d.since)
    OBVIOUS
  <2>1. PICK c \in Clients : Deleting(c) /\ x \in Matching(c)
    BY OnlyDeletionsDelete
  <2>2. /\ call[c].phase \in {"cascade", "resume"}
        /\ d \in stored.types[call[c].proposal.kind]
        /\ StoreKey[d.type] = StoreKey[Target(call[c].snapshot, call[c].proposal)]
    BY <2>1 DEF Deleting, Matching, Victim
  <2>3. Before(Base(c), d.since)
    BY <2>2 DEF CallsSpare, Spares, DeletesFrom, Base
  <2> QED
    BY <2>1, <2>3
<1> QED
  BY <1>1, <1>2, <1>3, <1>4, TypeCorrect, VersionsIdentify, PTL DEF Spec, NoStandingDataLost

-----------------------------------------------------------------------------
(***************************************************************************)
(* Orphans.  A type stops being declared only by its own deletion, which   *)
(* then owns the data left under it until it is done or interrupted.       *)
(***************************************************************************)
Accounted ==
  \A x \in data : ~Declares(stored, x.kind, x.type) =>
    \/ x \in late
    \/ \E i \in interrupted : i.kind = x.kind /\ i.type = x.type
    \/ \E c \in Clients : /\ Deleting(c)
                          /\ x.kind = call[c].proposal.kind /\ x.type = Victim(c)

(***************************************************************************)
(* Of the definitions of a name, should it be declared more than once, one *)
(* is the first, which an edit revises.                                    *)
(***************************************************************************)
HasFirsts(v, kind) == \A d \in v.types[kind] : First(Definitions(v, kind, d.type)) # {}

LEMMA AppliedHasFirsts ==
  ASSUME NEW v \in Vocabulary, NEW p \in Proposal, NEW kind \in Kinds, HasFirsts(v, kind),
         \A d \in v.types[kind] : ~Before(v.version, d.since)
  PROVE  HasFirsts(Applied(v, p), kind)
<1> SUFFICES ASSUME NEW d \in Applied(v, p).types[kind]
             PROVE  \E f \in Definitions(Applied(v, p), kind, d.type) :
                      \A e \in Definitions(Applied(v, p), kind, d.type) : ~Before(e.since, f.since)
  BY DEF HasFirsts, First
<1> DEFINE types == Applied(v, p).types[kind]
<1>0. /\ p.kind \in Kinds /\ v.types \in [Kinds -> SUBSET TypeDef] /\ p.op \in {"add", "edit", "delete"}
      /\ NewVersion(v, p) \in Version
  BY NewVersionAdvances DEF Proposal, Vocabulary
<1>1. \A e \in types : \/ \E y \in v.types[kind] : e.type = y.type /\ e.since = y.since
                       \/ e.since = NewVersion(v, p)
  BY AppliedTypes
<1>2. CASE \E y \in v.types[kind] : y.type = d.type
  <2>1. PICK f \in v.types[kind] : /\ f.type = d.type /\ f \in First(Definitions(v, kind, d.type))
    BY <1>2 DEF HasFirsts, First, Definitions
  <2>2. \A y \in v.types[kind] : y.type = d.type => ~Before(y.since, f.since)
    BY <2>1 DEF First, Definitions
  <2>3. ~Before(NewVersion(v, p), f.since)
    BY ApprovalsDate
  <2>4. \E g \in types : g.type = f.type /\ g.since = f.since
    <3>1. CASE kind # p.kind
      BY <1>0, <3>1 DEF Applied
    <3>2. CASE kind = p.kind /\ p.op = "add"
      <4>1. types = ApplyAdd(v, p)
        BY <1>0, <3>2 DEF Applied
      <4> QED
        BY <3>2, <4>1 DEF ApplyAdd
    <3>3. CASE kind = p.kind /\ p.op = "delete"
      <4>1. types = ApplyDelete(v, p)
        BY <1>0, <3>3 DEF Applied
      <4> QED
        BY <2>1, <3>3, <4>1 DEF ApplyDelete, Definitions
    <3>4. CASE kind = p.kind /\ p.op = "edit"
      <4>1. types = ApplyEdit(v, p)
        BY <1>0, <3>4 DEF Applied
      <4>2. CASE f.type # Target(v, p)
        BY <3>4, <4>1, <4>2 DEF ApplyEdit, Definitions, First
      <4>3. CASE f.type = Target(v, p)
        <5>1. Revise(f) \in types
          BY <2>1, <3>4, <4>1, <4>3 DEF ApplyEdit
        <5>2. Revise(f).type = f.type /\ Revise(f).since = f.since
          BY <1>0 DEF Revise, TypeDef
        <5> QED
          BY <5>1, <5>2
      <4> QED
        BY <4>2, <4>3
    <3> QED
      BY <1>0, <3>1, <3>2, <3>3, <3>4
  <2> QED
    BY <1>1, <2>1, <2>2, <2>3, <2>4 DEF Definitions
<1>3. CASE ~\E y \in v.types[kind] : y.type = d.type
  <2>1. \A e \in Definitions(Applied(v, p), kind, d.type) : e.since = NewVersion(v, p)
    BY <1>1, <1>3 DEF Definitions
  <2>2. ~Before(NewVersion(v, p), NewVersion(v, p))
    BY <1>0, BeforeIsAnOrder
  <2> QED
    BY <2>1, <2>2 DEF Definitions
<1> QED
  BY <1>2, <1>3

NamesHaveFirsts == \A kind \in Kinds : HasFirsts(stored, kind)

LEMMA FirstsHold == Spec => []NamesHaveFirsts
<1> DEFINE Inv == Dated /\ NamesHaveFirsts
<1>1. Init => Inv
  <2> SUFFICES ASSUME Init, NEW kind \in Kinds, NEW d \in stored.types[kind]
               PROVE  ~Before(stored.version, d.since) /\ First(Definitions(stored, kind, d.type)) # {}
    BY DEF Dated, NamesHaveFirsts, HasFirsts
  <2>1. /\ stored.version \in Version
        /\ \A e \in stored.types[kind] : e.since = stored.version
    BY DEF Init, Vocabulary
  <2>2. d \in First(Definitions(stored, kind, d.type))
    BY <2>1, BeforeIsAnOrder DEF First, Definitions
  <2> QED
    BY <2>1, <2>2, BeforeIsAnOrder
<1>2. TypeOK /\ VersionIdentifiesVocabulary /\ Inv /\ [Next]_vars => Inv'
  <2> SUFFICES ASSUME TypeOK, VersionIdentifiesVocabulary, Inv, [Next]_vars
               PROVE  Inv'
    OBVIOUS
  <2>1. CASE UNCHANGED <<stored, changeLog>>
    BY <2>1 DEF Dated, NamesHaveFirsts, HasFirsts, Definitions
  <2>2. ASSUME NEW c \in Clients, CanSave(c), VersionMatches(c), Store(c)
        PROVE  Inv'
    <3> DEFINE p == call[c].proposal
    <3>0. stored' = Applied(stored, p)
      BY <2>2, WritesReplaceWhatTheyRead
    <3>1. stored' = Applied(stored, p) /\ stored'.version = NewVersion(stored, p)
      BY <3>0 DEF Applied
    <3>2. p \in Proposal /\ stored \in Vocabulary
      BY CallParts DEF TypeOK
    <3> HIDE DEF p
    <3>3. \A kind \in Kinds : \A d \in Applied(stored, p).types[kind] : ~Before(NewVersion(stored, p), d.since)
      BY <3>2, ApprovalsDate DEF Dated
    <3>4. \A kind \in Kinds : HasFirsts(Applied(stored, p), kind)
      BY <3>2, AppliedHasFirsts DEF Dated, NamesHaveFirsts
    <3>5. Dated'
      BY <3>1, <3>3 DEF Dated
    <3>6. NamesHaveFirsts'
      BY <3>1, <3>4 DEF NamesHaveFirsts, HasFirsts, Definitions
    <3> QED
      BY <3>5, <3>6
  <2> QED
    BY <2>1, <2>2, OnlyWritesChangeTheStore
<1> QED
  BY <1>1, <1>2, TypeCorrect, VersionsIdentify, PTL DEF Spec

(***************************************************************************)
(* An edit loses no name, and a deletion only the one it names.            *)
(***************************************************************************)
LEMMA OnlyItsDeletionUndeclares ==
  ASSUME NEW v \in Vocabulary, NEW p \in Proposal, NEW kind \in Kinds, NEW name,
         HasFirsts(v, kind), Declares(v, kind, name),
         ~Declares(Applied(v, p), kind, name)
  PROVE  p.op = "delete" /\ p.kind = kind /\ name = Target(v, p)
<1>0. /\ p.kind \in Kinds /\ v.types \in [Kinds -> SUBSET TypeDef]
      /\ p.op \in {"add", "edit", "delete"}
  BY DEF Proposal, Vocabulary
<1>1. PICK d \in v.types[kind] : d.type = name
  BY DEF Declares, Definitions
<1>2. d \in TypeDef /\ d.type \in Names
  BY <1>0 DEF TypeDef
<1>3. \A e \in Applied(v, p).types[kind] : e.type # name
  BY DEF Declares, Definitions
<1>4. kind = p.kind
  <2>1. kind # p.kind => Applied(v, p).types[kind] = v.types[kind]
    BY <1>0 DEF Applied
  <2> QED
    BY <1>1, <1>3, <2>1
<1>5. p.op # "add"
  <2>1. p.op = "add" => Applied(v, p).types[kind] = ApplyAdd(v, p)
    BY <1>0, <1>4 DEF Applied
  <2> QED
    BY <1>1, <1>3, <1>4, <2>1 DEF ApplyAdd
<1>6. p.op # "edit"
  <2> SUFFICES ASSUME p.op = "edit" PROVE FALSE
    OBVIOUS
  <2> DEFINE named == Definitions(v, p.kind, Target(v, p))
  <2>1. Applied(v, p).types[kind] = ApplyEdit(v, p)
    BY <1>0, <1>4 DEF Applied
  <2>2. name = Target(v, p)
    <3>1. name # Target(v, p) => d \in ApplyEdit(v, p)
      BY <1>1, <1>4 DEF ApplyEdit, Definitions, First
    <3> QED
      BY <1>1, <1>3, <2>1, <3>1
  <2>3. PICK f \in named : f \in First(named)
    BY <1>1, <1>4, <2>2 DEF HasFirsts, First, Definitions
  <2>4. Revise(f) \in ApplyEdit(v, p)
    BY <2>3 DEF ApplyEdit
  <2>5. Revise(f).type = name
    BY <1>0, <1>4, <2>2 DEF Revise, TypeDef, Definitions
  <2> QED
    BY <1>3, <2>1, <2>4, <2>5
<1>7. name = Target(v, p)
  <2>1. Applied(v, p).types[kind] = ApplyDelete(v, p)
    BY <1>0, <1>4, <1>5, <1>6 DEF Applied
  <2> QED
    BY <1>1, <1>3, <1>4, <2>1 DEF ApplyDelete, Definitions
<1> QED
  BY <1>0, <1>4, <1>5, <1>6, <1>7

(***************************************************************************)
(* Every step accounts for the data it leaves under an undeclared type.    *)
(***************************************************************************)
LEMMA StepsAccount ==
  ASSUME TypeOK, VersionIdentifiesVocabulary, NamesHaveFirsts, Accounted, [Next]_vars
  PROVE  Accounted'
<1> DEFINE Owned(x, c) == /\ Deleting(c)
                          /\ x.kind = call[c].proposal.kind /\ x.type = Victim(c)
<1> SUFFICES ASSUME NEW x \in data', ~Declares(stored', x.kind, x.type)
             PROVE  \/ x \in late'
                    \/ \E i \in interrupted' : i.kind = x.kind /\ i.type = x.type
                    \/ \E c \in Clients : Owned(x, c)'
  BY DEF Accounted
<1> DEFINE Goal == \/ x \in late'
                   \/ \E i \in interrupted' : i.kind = x.kind /\ i.type = x.type
                   \/ \E c \in Clients : Owned(x, c)'
<1>k. \A c \in Clients : call'[c].phase = call[c].phase
                         /\ call'[c].proposal = call[c].proposal
                         /\ call'[c].snapshot = call[c].snapshot
                         /\ Owned(x, c) => Owned(x, c)'
  BY DEF Deleting, Victim
\* A step of c that is not deleting, and changes neither the store nor the data.
<1>0. ASSUME stored' = stored, x \in data, late' = late, interrupted \subseteq interrupted',
             \A c \in Clients : Owned(x, c) => Owned(x, c)'
      PROVE  Goal
  BY <1>0 DEF Accounted
<1>b. ASSUME NEW c \in Clients, ~Deleting(c), \A d \in Clients : d # c => call'[d] = call[d],
             stored' = stored, x \in data, late' = late, interrupted' = interrupted
      PROVE  Goal
  <2>1. \A d \in Clients : Owned(x, d) => d # c
    BY <1>b
  <2>2. \A d \in Clients : Owned(x, d) => Owned(x, d)'
    BY <1>b, <1>k, <2>1
  <2> QED
    BY <1>0, <1>b, <2>2
<1>1. ASSUME NEW g \in Configs, UpdateRepository(g) PROVE Goal
  BY <1>0, <1>1, <1>k DEF UpdateRepository, history
<1>2. ASSUME NEW c \in Clients, OpenRepository(c) PROVE Goal
  BY <1>0, <1>2, <1>k DEF OpenRepository, history
<1>3. ASSUME NEW c \in Clients, NEW p \in Proposals, ProposeChange(c, p) PROVE Goal
  BY <1>3, <1>b DEF ProposeChange, Idle, Deleting, TypeOK
<1>4. ASSUME NEW c \in Clients, ReadFresh(c) PROVE Goal
  BY <1>4, <1>b DEF ReadFresh, Deleting, TypeOK
<1>5. ASSUME NEW c \in Clients, Decline(c) PROVE Goal
  <2>1. \A d \in Clients : d # c => call'[d] = call[d]
    BY <1>5, AnsweredForgets DEF Decline
  <2> QED
    BY <1>5, <1>b, <2>1 DEF Decline, Deleting, history
<1>6. ASSUME NEW c \in Clients, SaveConflict(c) PROVE Goal
  <2>1. \A d \in Clients : d # c => call'[d] = call[d]
    BY <1>6, AnsweredForgets DEF SaveConflict, TypeOK
  <2> QED
    BY <1>6, <1>b, <2>1 DEF SaveConflict, CanSave, Deleting, history
<1>7. ASSUME NEW c \in Clients, Save(c) \/ SaveUnacknowledged(c) PROVE Goal
  <2>1. /\ CanSave(c) /\ call[c].snapshot = stored
        /\ stored' = Applied(stored, call[c].proposal)
        /\ data' = data /\ late' = late
    BY <1>7, WritesReplaceWhatTheyRead DEF Save, SaveUnacknowledged
  <2>2. interrupted \subseteq interrupted'
    BY <1>7 DEF Save, SaveUnacknowledged, Interrupt
  <2>3. \A d \in Clients : d # c => call'[d] = call[d]
    BY <1>7, AnsweredForgets DEF Save, AfterSave, Approve, SaveUnacknowledged, TypeOK
  <2>4. \A d \in Clients : Owned(x, d) => Owned(x, d)'
    <3>1. \A d \in Clients : Owned(x, d) => d # c
      BY <2>1 DEF CanSave, Deleting
    <3> QED
      BY <1>k, <2>3, <3>1
  <2>5. CASE ~Declares(stored, x.kind, x.type)
    BY <2>1, <2>2, <2>4, <2>5 DEF Accounted
  <2>6. CASE Declares(stored, x.kind, x.type)
    <3>1. x.kind \in Kinds /\ HasFirsts(stored, x.kind)
      BY <2>1 DEF TypeOK, Item, NamesHaveFirsts
    <3>2. /\ call[c].proposal.op = "delete" /\ call[c].proposal.kind = x.kind
          /\ x.type = Target(stored, call[c].proposal)
      BY <2>1, <2>6, <3>1, CallParts, OnlyItsDeletionUndeclares DEF TypeOK
    <3>3. CASE Save(c)
      <4>1. call' = [call EXCEPT ![c] = [call[c] EXCEPT !.phase = "cascade"]]
        BY <3>2, <3>3 DEF Save, AfterSave, TypeOK
      <4>2. /\ call'[c].phase = "cascade" /\ call'[c].snapshot = call[c].snapshot
            /\ call'[c].proposal = call[c].proposal
        BY <4>1, CallParts DEF TypeOK, Call
      <4>3. Owned(x, c)'
        BY <2>1, <3>2, <4>2 DEF Deleting, Victim
      <4> QED
        BY <4>3
    <3>4. CASE SaveUnacknowledged(c)
      <4>1. Interrupt(c)
        BY <3>2, <3>4 DEF SaveUnacknowledged
      <4>2. [kind |-> x.kind, name |-> call[c].proposal.name, type |-> x.type] \in interrupted'
        BY <2>1, <3>2, <4>1 DEF Interrupt, Victim
      <4> QED
        BY <4>2
    <3> QED
      BY <1>7, <3>3, <3>4
  <2> QED
    BY <2>5, <2>6
<1>8. ASSUME NEW c \in Clients, ResumeTypeDeletion(c) PROVE Goal
  BY <1>8, <1>b DEF ResumeTypeDeletion, Deleting, TypeOK, history
<1>9. ASSUME NEW c \in Clients, DeleteBatch(c) PROVE Goal
  <2>1. PICK b : call' = [call EXCEPT ![c] = [call[c] EXCEPT !.removed = b]]
    BY <1>9 DEF DeleteBatch, TypeOK
  <2>2. \A y \in Call : /\ [y EXCEPT !.removed = b].phase = y.phase
                        /\ [y EXCEPT !.removed = b].snapshot = y.snapshot
                        /\ [y EXCEPT !.removed = b].proposal = y.proposal
    BY DEF Call
  <2>3. \A d \in Clients : /\ call'[d].phase = call[d].phase
                           /\ call'[d].snapshot = call[d].snapshot
                           /\ call'[d].proposal = call[d].proposal
    BY <2>1, <2>2, CallParts DEF TypeOK
  <2> QED
    BY <1>0, <1>9, <1>k, <2>3 DEF DeleteBatch, history
<1>10. ASSUME NEW c \in Clients, CascadeDone(c) PROVE Goal
  <2>1. /\ data' = data \ Matching(c) /\ stored' = stored /\ late' = late
        /\ interrupted' = {i \in interrupted : \/ i.kind # call[c].proposal.kind
                                               \/ i.type # Victim(c)}
    BY <1>10 DEF CascadeDone, LastBatch
  <2>2. x.kind # call[c].proposal.kind \/ x.type # Victim(c)
    BY <2>1 DEF Matching
  <2>3. \A d \in Clients : d # c => call'[d] = call[d]
    BY <1>10, AnsweredForgets DEF CascadeDone, TypeOK
  <2>4. \A d \in Clients : Owned(x, d) => Owned(x, d)'
    BY <1>k, <2>2, <2>3
  <2> QED
    BY <2>1, <2>2, <2>4 DEF Accounted
<1>11. ASSUME NEW c \in Clients, RereadVersion(c) PROVE Goal
  <2>1. \A d \in Clients : d # c => call'[d] = call[d]
    BY <1>11, AnsweredForgets DEF RereadVersion
  <2> QED
    BY <1>11, <1>b, <2>1 DEF RereadVersion, Deleting, history
<1>12. ASSUME NEW c \in Clients, Fail(c) PROVE Goal
  <2>1. \A d \in Clients : d # c => call'[d] = call[d]
    BY <1>12, AnsweredForgets DEF Fail
  <2>2. CASE ~Deleting(c)
    BY <1>12, <1>b, <2>1, <2>2 DEF Fail
  <2>3. CASE Deleting(c)
    <3>1. Interrupt(c) /\ data' = data /\ stored' = stored /\ late' = late
      BY <1>12, <2>3 DEF Fail
    <3>2. CASE Owned(x, c)
      <4>1. [kind |-> x.kind, name |-> call[c].proposal.name, type |-> x.type] \in interrupted'
        BY <3>1, <3>2 DEF Interrupt
      <4> QED
        BY <4>1
    <3>3. CASE ~Owned(x, c)
      <4>1. \A d \in Clients : Owned(x, d) => Owned(x, d)'
        BY <1>k, <2>1, <3>3
      <4>2. interrupted \subseteq interrupted'
        BY <3>1 DEF Interrupt
      <4> QED
        BY <1>0, <3>1, <4>1, <4>2
    <3> QED
      BY <3>2, <3>3
  <2> QED
    BY <2>2, <2>3
<1>13. ASSUME NEW w \in Writers, ValidateWrite(w) PROVE Goal
  BY <1>0, <1>13, <1>k DEF ValidateWrite, history
<1>14. ASSUME NEW y \in pending, StoreWrite(y) PROVE Goal
  <2>1. CASE x = y
    BY <1>14, <2>1 DEF StoreWrite
  <2>2. CASE x # y
    <3>1. x \in data /\ late \subseteq late' /\ interrupted' = interrupted /\ stored' = stored
          /\ call' = call
      BY <1>14, <2>2 DEF StoreWrite
    <3> QED
      BY <1>k, <3>1 DEF Accounted
  <2> QED
    BY <2>1, <2>2
<1>15. CASE UNCHANGED vars
  BY <1>0, <1>15, <1>k DEF vars
<1> QED
  BY <1>1, <1>2, <1>3, <1>4, <1>5, <1>6, <1>7, <1>8, <1>9, <1>10, <1>11, <1>12, <1>13,
     <1>14, <1>15 DEF Next, Proceed

(***************************************************************************)
(* Data under a type that no longer exists always has a known cause: its   *)
(* deletion is in progress or was interrupted, or it was validated before  *)
(* the deletion and stored after.  It needs no deduplication: a name that  *)
(* is declared twice keeps its first definition when it is edited.         *)
(***************************************************************************)
THEOREM OrphansAreAccountedFor == Spec => []OrphansAccounted
<1>1. Init => Accounted
  BY DEF Init, Accounted
<1>2. TypeOK /\ VersionIdentifiesVocabulary /\ NamesHaveFirsts /\ Accounted /\ [Next]_vars
        => Accounted'
  BY StepsAccount
<1>3. Accounted => OrphansAccounted
  BY DEF Accounted, OrphansAccounted, Matching
<1> QED
  BY <1>1, <1>2, <1>3, FirstsHold, TypeCorrect, VersionsIdentify, PTL DEF Spec

-----------------------------------------------------------------------------
(***************************************************************************)
(* Approvals.  What a call will answer for is in the change log before it  *)
(* answers: its own record, or, for a deletion that found its type absent, *)
(* the record of what made the data it deletes.                            *)
(***************************************************************************)
Logged(log, ops, kind, type) ==
  \E i \in 1..Len(log) : /\ log[i].op \in ops /\ log[i].kind = kind
                         /\ StoreKey[log[i].type] = StoreKey[type]

LoggedBy(log, op, kind, type, version) ==
  \E i \in 1..Len(log) : /\ log[i].op = op /\ log[i].kind = kind
                         /\ StoreKey[log[i].type] = StoreKey[type]
                         /\ ~Before(version, log[i].newVersion)

LogIsPast == \A i \in 1..Len(changeLog) : ~Before(stored.version, changeLog[i].newVersion)

DataIsExplained ==
  \A x \in data \cup pending :
    Declares(stored, x.kind, x.type) \/ Logged(changeLog, {"delete"}, x.kind, x.type)

AnswersFor(x, v, log) ==
  LET kind == x.proposal.kind
      type == Target(x.snapshot, x.proposal)
  IN  /\ x.phase \in {"read", "decide"} => ~x.removed
      /\ x.phase = "decide" =>
           \A d \in v.types[kind] : \/ \E e \in x.snapshot.types[kind] : e.type = d.type
                                    \/ Logged(log, {"add"}, kind, d.type)
      /\ x.phase \in {"cascade", "resume", "reread"} => x.proposal.op = "delete"
      /\ x.phase = "cascade" =>
           LoggedBy(log, "delete", kind, type, NewVersion(x.snapshot, x.proposal))
      /\ x.phase = "resume" =>
           \A d \in v.types[kind] :
             StoreKey[d.type] = StoreKey[type] => Logged(log, {"add"}, kind, d.type)
      /\ x.phase = "reread" \/ (x.phase = "resume" /\ x.removed) =>
           Logged(log, {"add", "delete"}, kind, type)
      /\ x.reply.status = "approved" =>
           \/ LoggedBy(log, x.proposal.op, kind, x.reply.type, x.reply.version)
           \/ /\ x.proposal.op = "delete"
              /\ LoggedBy(log, "add", kind, x.reply.type, x.reply.version)

CallsAnswer == \A c \in Clients : AnswersFor(call[c], stored, changeLog)

(***************************************************************************)
(* A log that grows keeps what it has, and has what it was given.          *)
(***************************************************************************)
LEMMA LogsGrow ==
  ASSUME NEW log \in Seq(ChangeRecord), NEW r \in ChangeRecord
  PROVE  /\ \A ops, kind, type :
              Logged(log, ops, kind, type) => Logged(Append(log, r), ops, kind, type)
         /\ \A op, kind, type, version :
              LoggedBy(log, op, kind, type, version)
                => LoggedBy(Append(log, r), op, kind, type, version)
         /\ \A ops, type : r.op \in ops /\ StoreKey[r.type] = StoreKey[type]
                             => Logged(Append(log, r), ops, r.kind, type)
         /\ \A version : ~Before(version, r.newVersion)
                             => LoggedBy(Append(log, r), r.op, r.kind, r.type, version)
<1> DEFINE grown == Append(log, r)
<1>1. /\ Len(log) \in Nat /\ Len(grown) = Len(log) + 1
      /\ \A i \in 1..Len(log) : i \in 1..Len(grown) /\ grown[i] = log[i]
      /\ Len(grown) \in 1..Len(grown) /\ grown[Len(grown)] = r
  OBVIOUS
<1> HIDE DEF grown
<1>2. /\ \A ops, kind, type : Logged(log, ops, kind, type) => Logged(grown, ops, kind, type)
      /\ \A op, kind, type, version :
           LoggedBy(log, op, kind, type, version) => LoggedBy(grown, op, kind, type, version)
  BY <1>1, Zenon DEF Logged, LoggedBy
<1>3. /\ \A ops, type : r.op \in ops /\ StoreKey[r.type] = StoreKey[type]
                             => Logged(grown, ops, r.kind, type)
      /\ \A version : ~Before(version, r.newVersion)
                             => LoggedBy(grown, r.op, r.kind, r.type, version)
  BY <1>1, Zenon DEF Logged, LoggedBy
<1> QED
  BY <1>2, <1>3 DEF grown

(***************************************************************************)
(* What a stored change adds to the log explains what it adds to the       *)
(* types: other calls still answer for what they did.                      *)
(***************************************************************************)
LEMMA WritesAreAnsweredFor ==
  ASSUME NEW x \in Call, NEW v \in Vocabulary, NEW p \in Proposal,
         NEW log \in Seq(ChangeRecord), AnswersFor(x, v, log)
  PROVE  AnswersFor(x, Applied(v, p), Append(log, Record(v, p)))
<1> DEFINE kind  == x.proposal.kind
           w     == Applied(v, p)
           grown == Append(log, Record(v, p))
           r     == Record(v, p)
<1>1. kind \in Kinds /\ r \in ChangeRecord
  BY RecordIsAChangeRecord DEF Call, Proposal
<1>2. /\ \A ops, k, type : Logged(log, ops, k, type) => Logged(grown, ops, k, type)
      /\ \A op, k, type, version :
           LoggedBy(log, op, k, type, version) => LoggedBy(grown, op, k, type, version)
      /\ \A ops, type : r.op \in ops /\ StoreKey[r.type] = StoreKey[type]
                             => Logged(grown, ops, r.kind, type)
  BY <1>1, LogsGrow
<1>3. \A d \in w.types[kind] : \/ \E e \in v.types[kind] : d.type = e.type
                               \/ Logged(grown, {"add"}, kind, d.type)
  <2> SUFFICES ASSUME NEW d \in w.types[kind], p.op = "add", p.kind = kind,
                      d.type = StoredName(kind, p.name)
               PROVE  Logged(grown, {"add"}, kind, d.type)
    BY <1>1, AppliedTypes
  <2>1. r.op = "add" /\ r.kind = kind /\ r.type = d.type
    BY DEF Record, ResultType
  <2> HIDE DEF r, grown, kind
  <2> QED
    BY <1>2, <2>1
<1> HIDE DEF r, grown, w
<1>4. x.phase = "decide" =>
        \A d \in w.types[kind] : \/ \E e \in x.snapshot.types[kind] : e.type = d.type
                                 \/ Logged(grown, {"add"}, kind, d.type)
  BY <1>2, <1>3 DEF AnswersFor
<1>5. x.phase = "resume" =>
        \A d \in w.types[kind] :
          StoreKey[d.type] = StoreKey[Target(x.snapshot, x.proposal)]
            => Logged(grown, {"add"}, kind, d.type)
  BY <1>2, <1>3 DEF AnswersFor
<1> QED
  BY <1>2, <1>4, <1>5 DEF AnswersFor, w, grown, r

(***************************************************************************)
(* Every step keeps the log in the past and the data explained.            *)
(***************************************************************************)
LEMMA StepsExplain ==
  ASSUME TypeOK, VersionIdentifiesVocabulary, NamesHaveFirsts, LogIsPast,
         DataIsExplained, [Next]_vars
  PROVE  LogIsPast' /\ DataIsExplained'
<1>1. ASSUME NEW x \in data' \cup pending', x \notin data \cup pending
      PROVE  UNCHANGED <<stored, changeLog>> /\ Declares(stored, x.kind, x.type)
  <2>1. ASSUME NEW w \in Writers, ValidateWrite(w)
        PROVE  UNCHANGED <<stored, changeLog>> /\ Declares(stored, x.kind, x.type)
    BY <1>1, <2>1 DEF ValidateWrite
  <2>2. ASSUME NEW y \in pending, StoreWrite(y) PROVE FALSE
    BY <1>1, <2>2 DEF StoreWrite
  <2>3. ASSUME NEW c \in Clients,
               \/ OpenRepository(c) \/ (\E p \in Proposals : ProposeChange(c, p))
               \/ ReadFresh(c) \/ Decline(c) \/ Save(c) \/ SaveConflict(c)
               \/ ResumeTypeDeletion(c) \/ RereadVersion(c)
               \/ SaveUnacknowledged(c) \/ Fail(c)
        PROVE  FALSE
    BY <1>1, <2>3 DEF OpenRepository, ProposeChange, ReadFresh, Decline, Save, SaveConflict,
       ResumeTypeDeletion, RereadVersion, SaveUnacknowledged, Fail, history
  <2>4. ASSUME NEW c \in Clients, DeleteBatch(c) \/ CascadeDone(c) PROVE FALSE
    BY <1>1, <2>4 DEF DeleteBatch, CascadeDone, LastBatch, history
  <2>5. CASE (\E g \in Configs : UpdateRepository(g)) \/ UNCHANGED vars
    BY <1>1, <2>5 DEF UpdateRepository, vars
  <2> QED
    BY <2>1, <2>2, <2>3, <2>4, <2>5 DEF Next, Proceed
<1>2. CASE UNCHANGED <<stored, changeLog>>
  <2>1. LogIsPast'
    BY <1>2 DEF LogIsPast
  <2>2. ASSUME NEW x \in data' \cup pending'
        PROVE  Declares(stored, x.kind, x.type) \/ Logged(changeLog, {"delete"}, x.kind, x.type)
    BY <1>1 DEF DataIsExplained
  <2> QED
    BY <1>2, <2>1, <2>2 DEF DataIsExplained
<1>3. ASSUME NEW c \in Clients, CanSave(c), VersionMatches(c), Store(c)
      PROVE  LogIsPast' /\ DataIsExplained'
  <2> DEFINE p == call[c].proposal
             r == Record(stored, p)
  <2>1. /\ stored' = Applied(stored, p) /\ changeLog' = Append(changeLog, r)
        /\ Before(stored.version, stored'.version) /\ ~UNCHANGED <<stored, changeLog>>
    <3>1. call[c].snapshot = stored /\ stored' = Applied(stored, p)
          /\ Before(stored.version, stored'.version)
      BY <1>3, WritesReplaceWhatTheyRead
    <3>2. stored' # stored
      BY <3>1, BeforeIsAnOrder DEF TypeOK, Vocabulary
    <3> QED
      BY <1>3, <3>1, <3>2 DEF Store
  <2>2. p \in Proposal /\ r \in ChangeRecord /\ changeLog \in Seq(ChangeRecord)
        /\ stored \in Vocabulary
    BY CallParts, RecordIsAChangeRecord DEF TypeOK
  <2>3. r.newVersion = stored'.version /\ r.op = p.op /\ r.kind = p.kind
    BY <2>1 DEF Record, Applied
  <2>4. /\ stored.version \in Version /\ stored'.version \in Version
        /\ \A i \in 1..Len(changeLog) : changeLog[i].newVersion \in Version
    <3>1. stored' \in Vocabulary
      BY <1>3, StoreKeepsTypes
    <3>2. \A i \in 1..Len(changeLog) : changeLog[i] \in ChangeRecord
      BY <2>2
    <3>3. stored.version \in Version /\ stored'.version \in Version
      BY <2>2, <3>1 DEF Vocabulary
    <3> QED
      BY <3>2, <3>3 DEF ChangeRecord
  <2>5. p.op = "delete" => r.type = Target(stored, p)
    BY DEF Record, ResultType
  <2> HIDE DEF p, r
  <2>6. LogIsPast'
    <3>1. \A i \in 1..Len(changeLog') :
            changeLog'[i] = IF i <= Len(changeLog) THEN changeLog[i] ELSE r
      BY <2>1, <2>2
    <3>2. \A i \in 1..Len(changeLog) : ~Before(stored'.version, changeLog[i].newVersion)
      BY <2>1, <2>4, NotBeforeThenBefore DEF LogIsPast
    <3>3. ~Before(stored'.version, r.newVersion)
      BY <2>3, <2>4, BeforeIsAnOrder
    <3>4. \A i \in 1..Len(changeLog') : i <= Len(changeLog) => i \in 1..Len(changeLog)
      BY <2>1, <2>2
    <3> QED
      BY <3>1, <3>2, <3>3, <3>4 DEF LogIsPast
  <2>7. DataIsExplained'
    <3> SUFFICES ASSUME NEW x \in data' \cup pending', ~Declares(stored', x.kind, x.type)
                 PROVE  Logged(changeLog', {"delete"}, x.kind, x.type)
      BY DEF DataIsExplained
    <3>1. x \in data \cup pending /\ x.kind \in Kinds
      BY <1>1, <2>1 DEF TypeOK, Item
    <3>2. CASE Logged(changeLog, {"delete"}, x.kind, x.type)
      BY <2>1, <2>2, <3>2, LogsGrow
    <3>3. CASE Declares(stored, x.kind, x.type)
      <4>1. HasFirsts(stored, x.kind)
        BY <3>1 DEF NamesHaveFirsts
      <4>2. p.op = "delete" /\ p.kind = x.kind /\ x.type = Target(stored, p)
        BY <2>1, <2>2, <3>1, <3>3, <4>1, OnlyItsDeletionUndeclares
      <4> QED
        BY <2>1, <2>2, <2>3, <2>5, <4>2, LogsGrow
    <3> QED
      BY <3>1, <3>2, <3>3 DEF DataIsExplained
  <2> QED
    BY <2>6, <2>7
<1> QED
  BY <1>2, <1>3, OnlyWritesChangeTheStore

(***************************************************************************)
(* An answer that is no approval has nothing to answer for.                *)
(***************************************************************************)
LEMMA AnswersAreAnsweredFor ==
  ASSUME TypeOK, NEW c \in Clients, NEW status, NEW type, NEW version, NEW v, NEW log,
         Answer(c, status, type, version),
         status = "approved" =>
           \/ LoggedBy(log, call[c].proposal.op, call[c].proposal.kind, type, version)
           \/ /\ call[c].proposal.op = "delete"
              /\ LoggedBy(log, "add", call[c].proposal.kind, type, version)
  PROVE  AnswersFor(call'[c], v, log)
<1>1. call'[c] = Finished(call[c].proposal, status, type, version)
  BY DEF Answer, TypeOK
<1>2. /\ call'[c].phase = "answered" /\ call'[c].proposal = call[c].proposal
      /\ call'[c].reply = [status |-> status, type |-> type, version |-> version]
  BY <1>1 DEF Finished, NewCall
<1> QED
  BY <1>2 DEF AnswersFor

(***************************************************************************)
(* A resumed deletion that removes anything removes what is accounted for: *)
(* data of the type that was deleted, or of one declared since it read.    *)
(***************************************************************************)
LEMMA ResumedDeletionsAreLogged ==
  ASSUME TypeOK, DataIsExplained, CallsAnswer, NEW c \in Clients,
         call[c].phase = "resume", TRUE \in Reports(c)
  PROVE  Logged(changeLog, {"add", "delete"}, call[c].proposal.kind, Victim(c))
<1> DEFINE kind == call[c].proposal.kind
<1>1. AnswersFor(call[c], stored, changeLog)
  BY DEF CallsAnswer
<1>2. CASE call[c].removed
  BY <1>1, <1>2 DEF AnswersFor, Victim
<1>3. CASE \E x \in data : x \in Matching(c)
  <2>1. PICK x \in data : x.kind = kind /\ StoreKey[x.type] = StoreKey[Victim(c)]
    BY <1>3 DEF Matching
  <2>2. CASE Logged(changeLog, {"delete"}, kind, x.type)
    BY <2>1, <2>2 DEF Logged
  <2>3. CASE Declares(stored, kind, x.type)
    <3>1. PICK y \in stored.types[kind] : y.type = x.type
      BY <2>3 DEF Declares, Definitions
    <3>2. Logged(changeLog, {"add"}, kind, y.type)
      BY <1>1, <2>1, <3>1 DEF AnswersFor, Victim
    <3> QED
      BY <2>1, <3>1, <3>2 DEF Logged
  <2> QED
    BY <2>1, <2>2, <2>3 DEF DataIsExplained
<1> QED
  <2>1. Matching(c) \subseteq data
    BY DEF Matching
  <2>2. call[c].removed \in BOOLEAN
    BY CallParts DEF Call
  <2>3. call[c].removed \/ Matching(c) # {}
    <3>1. Matching(c) = {} => Reports(c) = {call[c].removed}
      BY DEF Reports
    <3> QED
      BY <2>2, <3>1
  <2> QED
    BY <1>2, <1>3, <2>1, <2>3

(***************************************************************************)
(* Every step leaves every call with what it will answer for in the log.   *)
(***************************************************************************)
LEMMA StepsAnswer ==
  ASSUME TypeOK, VersionIdentifiesVocabulary, LogIsPast, DataIsExplained, CallsAnswer,
         [Next]_vars
  PROVE  CallsAnswer'
<1> SUFFICES ASSUME NEW d \in Clients PROVE AnswersFor(call'[d], stored', changeLog')
  BY DEF CallsAnswer
<1> DEFINE Goal == AnswersFor(call'[d], stored', changeLog')
           Still == stored' = stored /\ changeLog' = changeLog
<1>0. Still /\ call'[d] = call[d] => Goal
  BY DEF CallsAnswer
<1>a. ASSUME NEW c \in Clients, NEW status, NEW type, NEW version,
             Answer(c, status, type, version), status # "approved", Still
      PROVE  Goal
  BY <1>0, <1>a, AnsweredForgets, AnswersAreAnsweredFor
<1>n. ASSUME NEW x, NEW v, NEW log, x.phase \in {"idle", "read"}, ~x.removed,
             x.reply.status = "none"
      PROVE  AnswersFor(x, v, log)
  BY <1>n DEF AnswersFor
<1>1. ASSUME NEW g \in Configs, UpdateRepository(g) PROVE Goal
  BY <1>0, <1>1 DEF UpdateRepository
<1>2. ASSUME NEW c \in Clients, OpenRepository(c) PROVE Goal
  BY <1>0, <1>2 DEF OpenRepository
<1>3. ASSUME NEW c \in Clients, NEW p \in Proposals, ProposeChange(c, p) PROVE Goal
  <2>1. /\ NewCall(p).phase = "read" /\ ~NewCall(p).removed
        /\ NewCall(p).reply.status = "none"
    BY DEF NewCall, NoReply
  <2>2. Still /\ call' = [call EXCEPT ![c] = NewCall(p)]
    BY <1>3 DEF ProposeChange
  <2> QED
    BY <1>0, <1>n, <2>1, <2>2 DEF TypeOK
<1>4. ASSUME NEW c \in Clients, ReadFresh(c) PROVE Goal
  <2>1. CASE d = c
    <3>1. call'[d] = [call[d] EXCEPT !.phase = "decide", !.snapshot = stored]
      BY <1>4, <2>1 DEF ReadFresh, TypeOK
    <3>2. /\ call'[d].phase = "decide" /\ call'[d].snapshot = stored
          /\ call'[d].proposal = call[d].proposal /\ call'[d].reply = call[d].reply
          /\ call'[d].removed = call[d].removed
      BY <3>1, CallParts DEF Call
    <3>3. Still /\ call[d].phase = "read"
      BY <1>4, <2>1 DEF ReadFresh
    <3> QED
      BY <3>2, <3>3 DEF AnswersFor, CallsAnswer
  <2>2. CASE d # c
    BY <1>0, <1>4, <2>2 DEF ReadFresh, TypeOK
  <2> QED
    BY <2>1, <2>2
<1>5. ASSUME NEW c \in Clients, Decline(c) PROVE Goal
  BY <1>a, <1>5 DEF Decline
<1>6. ASSUME NEW c \in Clients, Save(c) \/ SaveUnacknowledged(c) PROVE Goal
  <2> DEFINE p == call[c].proposal
             r == Record(stored, p)
  <2>1. /\ call[c].snapshot = stored /\ stored' = Applied(stored, p)
        /\ changeLog' = Append(changeLog, r)
    <3>1. CanSave(c) /\ VersionMatches(c) /\ Store(c)
      BY <1>6 DEF Save, SaveUnacknowledged
    <3> QED
      BY <3>1, WritesReplaceWhatTheyRead DEF Store
  <2>2. /\ p \in Proposal /\ stored \in Vocabulary
        /\ r \in ChangeRecord /\ changeLog \in Seq(ChangeRecord)
    BY CallParts, RecordIsAChangeRecord DEF TypeOK
  <2>3. CASE d # c
    <3>1. call'[d] = call[d]
      BY <1>6, <2>3, AnsweredForgets DEF Save, AfterSave, Approve, SaveUnacknowledged, TypeOK
    <3>2. AnswersFor(call[d], Applied(stored, p), Append(changeLog, Record(stored, p)))
      BY <2>2, CallParts, WritesAreAnsweredFor DEF CallsAnswer
    <3> QED
      BY <2>1, <3>1, <3>2
  <2>4. LoggedBy(changeLog', p.op, p.kind, ResultType(stored, p), NewVersion(stored, p))
    <3>1. /\ r.op = p.op /\ r.kind = p.kind /\ r.type = ResultType(stored, p)
          /\ r.newVersion = NewVersion(stored, p)
      BY DEF Record
    <3>2. ~Before(NewVersion(stored, p), r.newVersion)
      BY <2>2, <3>1, NewVersionAdvances, BeforeIsAnOrder
    <3> HIDE DEF r, p
    <3>3. LoggedBy(Append(changeLog, r), r.op, r.kind, r.type, NewVersion(stored, p))
      BY <2>2, <3>2, LogsGrow
    <3> QED
      BY <2>1, <3>1, <3>3
  <2>5. CASE d = c /\ SaveUnacknowledged(c)
    <3>1. Answer(c, "error", p.name, EmptyVocabulary.version)
      BY <2>5 DEF SaveUnacknowledged
    <3> QED
      BY <2>5, <3>1, AnswersAreAnsweredFor
  <2>6. CASE d = c /\ Save(c) /\ p.op # "delete"
    <3>1. Answer(c, "approved", ResultType(stored, p), NewVersion(stored, p))
      BY <2>1, <2>6 DEF Save, AfterSave, Approve
    <3> QED
      BY <2>4, <2>6, <3>1, AnswersAreAnsweredFor
  <2>7. CASE d = c /\ Save(c) /\ p.op = "delete"
    <3>1. call'[c] = [call[c] EXCEPT !.phase = "cascade"]
      BY <2>7 DEF Save, AfterSave, TypeOK
    <3>2. /\ call'[c].phase = "cascade" /\ call'[c].snapshot = stored
          /\ call'[c].proposal = p /\ call'[c].reply = call[c].reply
      BY <2>1, <3>1, CallParts DEF Call
    <3>3. LoggedBy(changeLog', "delete", p.kind, Target(stored, p), NewVersion(stored, p))
      BY <2>4, <2>7 DEF ResultType
    <3>4. call[c].reply.status # "approved" \/
            LoggedBy(changeLog, p.op, p.kind, call[c].reply.type, call[c].reply.version) \/
            LoggedBy(changeLog, "add", p.kind, call[c].reply.type, call[c].reply.version)
      BY DEF CallsAnswer, AnswersFor
    <3>5. call[c].reply.status # "approved" \/
            LoggedBy(changeLog', p.op, p.kind, call[c].reply.type, call[c].reply.version) \/
            LoggedBy(changeLog', "add", p.kind, call[c].reply.type, call[c].reply.version)
      BY <2>1, <2>2, <3>4, LogsGrow
    <3> QED
      BY <2>7, <3>2, <3>3, <3>5 DEF AnswersFor
  <2> QED
    BY <1>6, <2>3, <2>5, <2>6, <2>7
<1>7. ASSUME NEW c \in Clients, SaveConflict(c) PROVE Goal
  <2>1. Still
    BY <1>7 DEF SaveConflict
  <2>2. CASE MayRetry(c)
    <3> DEFINE again == [NewCall(call[c].proposal) EXCEPT !.attempt = call[c].attempt + 1]
    <3>1. call' = [call EXCEPT ![c] = again]
      BY <1>7, <2>2 DEF SaveConflict
    <3>2. again.phase = "read" /\ ~again.removed /\ again.reply.status = "none"
      BY DEF NewCall, NoReply
    <3> HIDE DEF again
    <3> QED
      BY <1>0, <1>n, <2>1, <3>1, <3>2 DEF TypeOK
  <2>3. CASE ~MayRetry(c)
    BY <1>7, <1>a, <2>1, <2>3 DEF SaveConflict
  <2> QED
    BY <2>2, <2>3
<1>8. ASSUME NEW c \in Clients, ResumeTypeDeletion(c) PROVE Goal
  <2>1. Still /\ call' = [call EXCEPT ![c] = [call[c] EXCEPT !.phase = "resume"]]
    BY <1>8 DEF ResumeTypeDeletion, TypeOK
  <2>2. CASE d = c
    <3> DEFINE v == call[c].snapshot
               p == call[c].proposal
    <3>1. /\ call'[d].phase = "resume" /\ call'[d].snapshot = v /\ call'[d].proposal = p
          /\ call'[d].removed = call[c].removed /\ call'[d].reply = call[c].reply
      BY <2>1, <2>2, CallParts DEF TypeOK, Call
    <3>2. /\ call[c].phase = "decide" /\ p.op = "delete" /\ ~DeclaresNearMatch(v, p)
          /\ ~call[c].removed
      BY <1>8 DEF ResumeTypeDeletion, CallsAnswer, AnswersFor
    <3>3. v \in Vocabulary /\ p \in Proposal /\ p.kind \in Kinds /\ Target(v, p) \in Names
      BY CallParts, TargetIsAName
    <3>4. \A e \in v.types[p.kind] : StoreKey[e.type] # StoreKey[Target(v, p)]
      <4>1. \A e \in v.types[p.kind] : e.type \in Names
        BY <3>3 DEF Vocabulary, TypeDef
      <4> QED
        BY <3>2, <3>3, <4>1 DEF DeclaresNearMatch
    <3>5. AnswersFor(call[c], stored, changeLog)
      BY DEF CallsAnswer
    <3>6. \A e \in stored.types[p.kind] :
            StoreKey[e.type] = StoreKey[Target(v, p)] => Logged(changeLog, {"add"}, p.kind, e.type)
      BY <3>2, <3>4, <3>5 DEF AnswersFor
    <3> HIDE DEF v, p
    <3> QED
      BY <2>1, <3>1, <3>2, <3>5, <3>6 DEF AnswersFor, v, p
  <2>3. CASE d # c
    BY <1>0, <2>1, <2>3 DEF TypeOK
  <2> QED
    BY <2>2, <2>3
<1>9. ASSUME NEW c \in Clients, DeleteBatch(c) PROVE Goal
  <2>1. PICK b \in Reports(c) : call' = [call EXCEPT ![c] = [call[c] EXCEPT !.removed = b]]
    BY <1>9 DEF DeleteBatch, TypeOK
  <2>2. Still
    BY <1>9 DEF DeleteBatch
  <2>3. CASE d = c
    <3>1. \A x \in Call : /\ [x EXCEPT !.removed = b].phase = x.phase
                          /\ [x EXCEPT !.removed = b].snapshot = x.snapshot
                          /\ [x EXCEPT !.removed = b].proposal = x.proposal
                          /\ [x EXCEPT !.removed = b].reply = x.reply
                          /\ [x EXCEPT !.removed = b].removed = b
      BY DEF Call
    <3>2. /\ call'[d].phase = call[d].phase /\ call'[d].snapshot = call[d].snapshot
          /\ call'[d].proposal = call[d].proposal /\ call'[d].reply = call[d].reply
          /\ call'[d].removed = b
      BY <2>1, <2>3, <3>1, CallParts DEF TypeOK
    <3>3. b \in BOOLEAN
      BY <2>1, CallParts DEF Reports, Call
    <3>4. call[d].phase = "resume" /\ b =>
            Logged(changeLog, {"add", "delete"}, call[d].proposal.kind, Victim(d))
      BY <2>1, <2>3, <3>3, ResumedDeletionsAreLogged
    <3>5. call[d].phase \in {"cascade", "resume"}
      BY <1>9, <2>3 DEF DeleteBatch, Deleting
    <3> QED
      BY <2>2, <3>2, <3>4, <3>5 DEF AnswersFor, CallsAnswer, Victim
  <2>4. CASE d # c
    BY <1>0, <2>1, <2>2, <2>4 DEF TypeOK
  <2> QED
    BY <2>3, <2>4
<1>10. ASSUME NEW c \in Clients, CascadeDone(c) PROVE Goal
  <2>1. Still /\ AnswersFor(call[c], stored, changeLog)
    BY <1>10 DEF CascadeDone, CallsAnswer
  <2>2. CASE /\ call[c].phase = "cascade"
             /\ Answer(c, "approved", Victim(c), NewVersion(call[c].snapshot, call[c].proposal))
    <3>1. /\ call[c].proposal.op = "delete"
          /\ LoggedBy(changeLog, "delete", call[c].proposal.kind, Victim(c),
                      NewVersion(call[c].snapshot, call[c].proposal))
      BY <2>1, <2>2 DEF AnswersFor, Victim
    <3> QED
      BY <1>0, <2>1, <2>2, <3>1, AnsweredForgets, AnswersAreAnsweredFor
  <2>3. CASE /\ call[c].phase = "resume" /\ TRUE \in Reports(c)
             /\ call' = [call EXCEPT ![c].phase = "reread"]
    <3>1. Logged(changeLog, {"add", "delete"}, call[c].proposal.kind, Victim(c))
      BY <2>3, ResumedDeletionsAreLogged
    <3>2. CASE d = c
      <4>1. /\ call'[d].phase = "reread" /\ call'[d].snapshot = call[c].snapshot
            /\ call'[d].proposal = call[c].proposal /\ call'[d].reply = call[c].reply
        BY <2>3, <3>2, CallParts DEF TypeOK, Call
      <4> QED
        BY <2>1, <2>3, <3>1, <4>1 DEF AnswersFor, Victim
    <3>3. CASE d # c
      BY <1>0, <2>1, <2>3, <3>3 DEF TypeOK
    <3> QED
      BY <3>2, <3>3
  <2>4. CASE Answer(c, "rejected", Victim(c), EmptyVocabulary.version)
    BY <1>a, <2>1, <2>4
  <2> QED
    BY <1>10, <2>2, <2>3, <2>4 DEF CascadeDone
<1>11. ASSUME NEW c \in Clients, RereadVersion(c) PROVE Goal
  <2>1. /\ Still /\ call[c].phase = "reread" /\ AnswersFor(call[c], stored, changeLog)
        /\ Answer(c, "approved", Victim(c), stored.version)
    BY <1>11 DEF RereadVersion, CallsAnswer
  <2>2. /\ call[c].proposal.op = "delete"
        /\ Logged(changeLog, {"add", "delete"}, call[c].proposal.kind, Victim(c))
    BY <2>1 DEF AnswersFor, Victim
  <2>3. \/ LoggedBy(changeLog, "delete", call[c].proposal.kind, Victim(c), stored.version)
        \/ LoggedBy(changeLog, "add", call[c].proposal.kind, Victim(c), stored.version)
    BY <2>2 DEF Logged, LoggedBy, LogIsPast
  <2> QED
    BY <1>0, <2>1, <2>2, <2>3, AnsweredForgets, AnswersAreAnsweredFor
<1>12. ASSUME NEW c \in Clients, Fail(c) PROVE Goal
  BY <1>a, <1>12 DEF Fail
<1>13. ASSUME NEW w \in Writers, ValidateWrite(w) PROVE Goal
  BY <1>0, <1>13 DEF ValidateWrite
<1>14. ASSUME NEW x \in pending, StoreWrite(x) PROVE Goal
  BY <1>0, <1>14 DEF StoreWrite
<1>15. CASE UNCHANGED vars
  BY <1>0, <1>15 DEF vars
<1> QED
  BY <1>1, <1>2, <1>3, <1>4, <1>5, <1>6, <1>7, <1>8, <1>9, <1>10, <1>11, <1>12, <1>13,
     <1>14, <1>15 DEF Next, Proceed

(***************************************************************************)
(* No approval without its change record: an approved addition or edit is  *)
(* in the log by the version it answers with, and so is an approved        *)
(* deletion, or, where it found its type absent, the record of the         *)
(* deletion it completes or of the type declared anew whose data it took.  *)
(***************************************************************************)
THEOREM ApprovalsAreLogged == Spec => []ApprovedIsLogged
<1>1. Init => LogIsPast /\ DataIsExplained /\ CallsAnswer
  <2> SUFFICES ASSUME Init PROVE LogIsPast /\ DataIsExplained /\ CallsAnswer
    OBVIOUS
  <2>1. \A c \in Clients : call[c].phase = "idle" /\ call[c].reply.status = "none"
    BY DEF Init, Unused, NewCall, NoReply
  <2>2. CallsAnswer
    BY <2>1 DEF CallsAnswer, AnswersFor
  <2>3. LogIsPast /\ DataIsExplained
    BY DEF Init, LogIsPast, DataIsExplained
  <2> QED
    BY <2>2, <2>3
<1>2. TypeOK /\ VersionIdentifiesVocabulary /\ NamesHaveFirsts /\ LogIsPast
        /\ DataIsExplained /\ CallsAnswer /\ [Next]_vars
        => LogIsPast' /\ DataIsExplained' /\ CallsAnswer'
  BY StepsExplain, StepsAnswer
<1>3. CallsAnswer => ApprovedIsLogged
  BY DEF CallsAnswer, AnswersFor, ApprovedIsLogged, LoggedBy, Backed
<1> QED
  BY <1>1, <1>2, <1>3, FirstsHold, TypeCorrect, VersionsIdentify, PTL DEF Spec

=============================================================================
