----------------------- MODULE VocabularyCache_proofs -----------------------
(***************************************************************************)
(* VocabularyCache, for any number of processes, calls and writes and any  *)
(* TTL: the types, and that a process never serves from its cache a        *)
(* vocabulary older than one it has saved, nor one replaced a TTL ago.     *)
(***************************************************************************)
EXTENDS VocabularyCache, TLAPS

USE CacheAssumption

\* The entry a returning read leaves.
EntryOf(c) == [vocab |-> call[c].vocab, expiresAt |-> call[c].readAt + TTL]

ReadCaches(c) ==
  /\ EntryOf(c) \in Entry
  /\ cache' = [p \in Processes |-> cache'[p]]
  /\ \A p \in Processes :
       \/ cache'[p] = cache[p]
       \/ /\ p = Owner[c] /\ call[c].generation = generation[Owner[c]]
          /\ cache'[p] = {EntryOf(c)}

(***************************************************************************)
(* What getVocabulary does to the cache when its read returns: nothing, or *)
(* its process's entry is replaced and the generation was the current one. *)
(***************************************************************************)
LEMMA ReadReturnsCaches ==
  ASSUME NEW c \in Calls, TypeOK, ReadReturns(c)
  PROVE  ReadCaches(c)
<1> USE DEF ReadCaches
<1>1. call[c] \in Call /\ Owner[c] \in Processes
  BY DEF TypeOK
<1>2. EntryOf(c) \in Entry
  BY <1>1 DEF Call, Entry, EntryOf
<1>3. CASE Cacheable(c)
  <2>1. cache' = [cache EXCEPT ![Owner[c]] = {EntryOf(c)}]
    BY <1>3 DEF ReadReturns, CacheVocabulary, EntryOf
  <2>2. call[c].generation = generation[Owner[c]]
    BY <1>3 DEF Cacheable
  <2> HIDE DEF EntryOf
  <2> QED
    BY <1>1, <1>2, <2>1, <2>2 DEF TypeOK
<1>4. CASE ~Cacheable(c)
  <2>1. cache' = cache
    BY <1>4 DEF ReadReturns
  <2> QED
    BY <1>2, <2>1 DEF TypeOK
<1> QED
  BY <1>3, <1>4

(***************************************************************************)
(* Every step keeps the types: the cache holds entries, calls are calls.   *)
(***************************************************************************)
THEOREM TypeCorrect == Spec => []TypeOK
<1>1. Init => TypeOK
  BY DEF Init, TypeOK, NoCall, Call, Entry, Replacement
<1>2. TypeOK /\ [Next]_vars => TypeOK'
  <2> SUFFICES ASSUME TypeOK, [Next]_vars PROVE TypeOK'
    OBVIOUS
  <2> USE DEF TypeOK, Call, Entry, Replacement
  <2>1. CASE Tick
    BY <2>1 DEF Tick
  <2>2. ASSUME NEW c \in Calls, NEW fresh \in BOOLEAN, AskDatabase(c, fresh)
        PROVE  TypeOK'
    <3>1. [NoCall EXCEPT !.phase = "asked", !.fresh = fresh, !.readAt = now,
                         !.generation = generation[Owner[c]]] \in Call
      <4>1. now \in Nat /\ generation[Owner[c]] \in Nat
        OBVIOUS
      <4> QED
        BY <4>1 DEF NoCall
    <3>2. call' \in [Calls -> Call]
      BY <2>2, <3>1 DEF AskDatabase
    <3> QED
      BY <2>2, <3>2 DEF AskDatabase
  <2>3. ASSUME NEW c \in Calls, DatabaseAnswers(c) PROVE TypeOK'
    BY <2>3 DEF DatabaseAnswers
  <2>4. ASSUME NEW c \in Calls, ReadReturns(c) PROVE TypeOK'
    <3>1. call' \in [Calls -> Call]
      BY <2>4 DEF ReadReturns, NoCall
    <3>0. ReadCaches(c)
      BY <2>4, ReadReturnsCaches
    <3>2. /\ cache' \in [Processes -> SUBSET Entry]
          /\ \A p \in Processes : \A e, f \in cache'[p] : e = f
      <4>1. \A p \in Processes : /\ cache'[p] \subseteq Entry
                                /\ \A e, f \in cache'[p] : e = f
        <5> HIDE DEF Entry
        <5> QED
          BY <3>0 DEF ReadCaches
      <4>2. cache' = [p \in Processes |-> cache'[p]]
        BY <3>0 DEF ReadCaches
      <4> QED
        BY <4>1, <4>2
    <3>3. freshlySeen' \in [Processes -> Nat]
      BY <2>4 DEF ReadReturns, Maximum
    <3> QED
      BY <2>4, <3>1, <3>2, <3>3 DEF ReadReturns
  <2>5. ASSUME NEW c \in Calls, ReadFails(c) PROVE TypeOK'
    BY <2>5 DEF ReadFails, NoCall
  <2>6. ASSUME NEW c \in Calls, SaveVocabulary(c) PROVE TypeOK'
    <3>1. [NoCall EXCEPT !.phase = "saving"] \in Call
      BY DEF NoCall
    <3>2. call' \in [Calls -> Call]
      BY <2>6, <3>1 DEF SaveVocabulary
    <3> QED
      BY <2>6, <3>2 DEF SaveVocabulary
  <2>7. ASSUME NEW c \in Calls, WriteLands(c) PROVE TypeOK'
    <3> DEFINE landed == [call[c] EXCEPT !.phase = "landed", !.vocab = stored + 1]
    <3>0. landed \in Call
      <4>1. call[c] \in Call /\ stored + 1 \in Nat
        OBVIOUS
      <4>2. [call[c] EXCEPT !.phase = "landed"] \in Call
        BY <4>1
      <4> QED
        BY <4>1, <4>2
    <3>1. call' \in [Calls -> Call]
      <4>1. call' = [call EXCEPT ![c] = landed]
        BY <2>7 DEF WriteLands
      <4> HIDE DEF landed
      <4> QED
        BY <4>1, <3>0
    <3>2. superseded' \subseteq Replacement
      BY <2>7 DEF WriteLands
    <3> QED
      BY <2>7, <3>1, <3>2 DEF WriteLands
  <2>8. ASSUME NEW c \in Calls, SaveReturns(c) PROVE TypeOK'
    BY <2>8 DEF SaveReturns, InvalidateVocabularyCache, Maximum, NoCall
  <2>9. ASSUME NEW c \in Calls, SaveFails(c) PROVE TypeOK'
    BY <2>9 DEF SaveFails, InvalidateVocabularyCache, NoCall
  <2>10. CASE UNCHANGED vars
    BY <2>10 DEF vars
  <2> QED
    BY <2>1, <2>2, <2>3, <2>4, <2>5, <2>6, <2>7, <2>8, <2>9, <2>10 DEF Next
<1> QED
  BY <1>1, <1>2, PTL DEF Spec

-----------------------------------------------------------------------------
(***************************************************************************)
(* ReadYourWrites.  The cache is safe because of the reads in flight: an   *)
(* answered read whose generation is still the current one is as new as    *)
(* every save the process was told of, so caching it hides none of them.   *)
(***************************************************************************)
AnswersAreNew ==
  \A c \in Calls :
    /\ call[c].generation <= generation[Owner[c]]
    /\ call[c].phase = "answered" /\ call[c].generation = generation[Owner[c]] =>
         call[c].vocab >= acknowledged[Owner[c]]

\* Nobody is told of a write that has not landed.
Landed ==
  /\ \A p \in Processes : acknowledged[p] <= stored
  /\ \A c \in Calls : call[c].vocab <= stored

WritesInv == ReadYourWrites /\ AnswersAreNew /\ Landed

(***************************************************************************)
(* Once a save has returned in a process, no entry of its cache is older:  *)
(* the generation check of getVocabulary and the invalidation in           *)
(* saveVocabulary's finally together leave no interleaving that hides it.  *)
(***************************************************************************)
THEOREM OwnWritesAreRead == Spec => []ReadYourWrites
<1>1. Init => WritesInv
  BY DEF Init, WritesInv, ReadYourWrites, AnswersAreNew, Landed, NoCall
<1>2. TypeOK /\ WritesInv /\ [Next]_vars => WritesInv'
  <2> SUFFICES ASSUME TypeOK, WritesInv, [Next]_vars PROVE WritesInv'
    OBVIOUS
  <2> USE DEF TypeOK, WritesInv, ReadYourWrites, AnswersAreNew, Landed, Entry, Call
  <2>1. CASE Tick
    BY <2>1 DEF Tick
  <2>2. ASSUME NEW c \in Calls, NEW fresh \in BOOLEAN, AskDatabase(c, fresh)
        PROVE  WritesInv'
    BY <2>2 DEF AskDatabase, NoCall
  <2>3. ASSUME NEW c \in Calls, DatabaseAnswers(c) PROVE WritesInv'
    BY <2>3 DEF DatabaseAnswers
  <2>4. ASSUME NEW c \in Calls, ReadReturns(c) PROVE WritesInv'
    <3>1. ReadCaches(c)
      BY <2>4, ReadReturnsCaches
    <3> QED
      BY <2>4, <3>1 DEF ReadReturns, ReadCaches, EntryOf, NoCall
  <2>5. ASSUME NEW c \in Calls, ReadFails(c) PROVE WritesInv'
    BY <2>5 DEF ReadFails, NoCall
  <2>6. ASSUME NEW c \in Calls, SaveVocabulary(c) PROVE WritesInv'
    BY <2>6 DEF SaveVocabulary, NoCall
  <2>7. ASSUME NEW c \in Calls, WriteLands(c) PROVE WritesInv'
    BY <2>7 DEF WriteLands
  <2>8. ASSUME NEW c \in Calls, SaveReturns(c) PROVE WritesInv'
    BY <2>8 DEF SaveReturns, InvalidateVocabularyCache, Maximum, NoCall
  <2>9. ASSUME NEW c \in Calls, SaveFails(c) PROVE WritesInv'
    BY <2>9 DEF SaveFails, InvalidateVocabularyCache, NoCall
  <2>10. CASE UNCHANGED vars
    BY <2>10 DEF vars
  <2> QED
    BY <2>1, <2>2, <2>3, <2>4, <2>5, <2>6, <2>7, <2>8, <2>9, <2>10 DEF Next
<1> QED
  BY <1>1, <1>2, TypeCorrect, PTL DEF Spec, WritesInv

-----------------------------------------------------------------------------
(***************************************************************************)
(* BoundedStaleness.  An entry expires a TTL after its read began; a read  *)
(* begins before the database answers it, and what the answer holds is     *)
(* replaced later still.                                                   *)
(***************************************************************************)
EntriesExpire ==
  \A p \in Processes : \A e \in cache[p] : \A r \in superseded :
    r.vocab = e.vocab => e.expiresAt <= r.at + TTL

\* A read in flight began no later than its answer was replaced.
ReadsBeganInTime ==
  \A c \in Calls :
    /\ call[c].readAt <= now
    /\ call[c].phase = "answered" =>
         \A r \in superseded : r.vocab = call[c].vocab => call[c].readAt <= r.at

\* What is replaced is older than what is stored; nobody holds anything newer.
ReplacedIsOlder ==
  /\ \A r \in superseded : r.vocab < stored
  /\ \A p \in Processes : \A e \in cache[p] : e.vocab <= stored
  /\ \A c \in Calls : call[c].vocab <= stored

\* An entry of the stored vocabulary expires within a TTL from now.
EntriesAreBounded ==
  \A p \in Processes : \A e \in cache[p] : e.expiresAt <= now + TTL

StalenessInv ==
  EntriesExpire /\ ReadsBeganInTime /\ ReplacedIsOlder /\ EntriesAreBounded

(***************************************************************************)
(* However slow a read is and however many processes write, a vocabulary   *)
(* replaced a TTL ago is served from no cache: expiry counts from the      *)
(* start of the read, not from its return (cacheVocabulary's readAt).      *)
(***************************************************************************)
THEOREM StalenessIsBounded == Spec => []BoundedStaleness
<1>1. Init => StalenessInv
  BY DEF Init, StalenessInv, EntriesExpire, ReadsBeganInTime, ReplacedIsOlder,
         EntriesAreBounded, NoCall
<1>2. TypeOK /\ StalenessInv /\ [Next]_vars => StalenessInv'
  <2> SUFFICES ASSUME TypeOK, StalenessInv, [Next]_vars PROVE StalenessInv'
    OBVIOUS
  <2> USE DEF TypeOK, StalenessInv, EntriesExpire, ReadsBeganInTime, ReplacedIsOlder,
              EntriesAreBounded, Entry, Call, Replacement
  <2>1. CASE Tick
    BY <2>1 DEF Tick
  <2>2. ASSUME NEW c \in Calls, NEW fresh \in BOOLEAN, AskDatabase(c, fresh)
        PROVE  StalenessInv'
    BY <2>2 DEF AskDatabase, NoCall
  <2>3. ASSUME NEW c \in Calls, DatabaseAnswers(c) PROVE StalenessInv'
    BY <2>3 DEF DatabaseAnswers
  <2>4. ASSUME NEW c \in Calls, ReadReturns(c) PROVE StalenessInv'
    <3>1. ReadCaches(c)
      BY <2>4, ReadReturnsCaches
    <3>2. call[c] \in Call /\ call[c].phase = "answered"
      BY <2>4 DEF ReadReturns
    <3>3. /\ EntryOf(c).vocab = call[c].vocab
          /\ EntryOf(c).expiresAt = call[c].readAt + TTL
      BY DEF EntryOf
    <3>4. /\ UNCHANGED <<now, stored, superseded>>
          /\ call' = [call EXCEPT ![c] = NoCall]
      BY <2>4 DEF ReadReturns
    <3>5. EntriesExpire'
      BY <3>1, <3>2, <3>3, <3>4 DEF ReadCaches
    <3>6. ReadsBeganInTime'
      BY <3>4 DEF NoCall
    <3>7. ReplacedIsOlder'
      BY <3>1, <3>2, <3>3, <3>4 DEF ReadCaches, NoCall
    <3>8. EntriesAreBounded'
      BY <3>1, <3>2, <3>3, <3>4 DEF ReadCaches
    <3> QED
      BY <3>5, <3>6, <3>7, <3>8
  <2>5. ASSUME NEW c \in Calls, ReadFails(c) PROVE StalenessInv'
    BY <2>5 DEF ReadFails, NoCall
  <2>6. ASSUME NEW c \in Calls, SaveVocabulary(c) PROVE StalenessInv'
    BY <2>6 DEF SaveVocabulary, NoCall
  <2>7. ASSUME NEW c \in Calls, WriteLands(c) PROVE StalenessInv'
    BY <2>7 DEF WriteLands
  <2>8. ASSUME NEW c \in Calls, SaveReturns(c) PROVE StalenessInv'
    BY <2>8 DEF SaveReturns, InvalidateVocabularyCache, NoCall
  <2>9. ASSUME NEW c \in Calls, SaveFails(c) PROVE StalenessInv'
    BY <2>9 DEF SaveFails, InvalidateVocabularyCache, NoCall
  <2>10. CASE UNCHANGED vars
    BY <2>10 DEF vars
  <2> QED
    BY <2>1, <2>2, <2>3, <2>4, <2>5, <2>6, <2>7, <2>8, <2>9, <2>10 DEF Next
<1>3. TypeOK /\ StalenessInv => BoundedStaleness
  BY DEF TypeOK, StalenessInv, EntriesExpire, BoundedStaleness, Usable, Entry, Replacement
<1> QED
  BY <1>1, <1>2, <1>3, TypeCorrect, PTL DEF Spec

=============================================================================
