--------------------------- MODULE VocabularyCache ---------------------------
(***************************************************************************)
(* The in-process vocabulary cache of the persistent storage providers:    *)
(* getVocabulary, saveVocabulary and the invalidation between them, in     *)
(* several processes over one database.  SqlServerStorageProvider,         *)
(* CosmosDbProvider and Neo4jStorageProvider run the same protocol.        *)
(*                                                                         *)
(* A vocabulary is the number of writes that led to it.  A read or a save  *)
(* is a call: it starts, the database serves it, it returns, and other     *)
(* calls of the same process run in between.  A read the cache answers     *)
(* changes nothing; what it may answer is what Usable says.                *)
(***************************************************************************)
EXTENDS Integers

CONSTANTS
  Processes,  \* processes, each with its provider and its cache
  Calls,      \* concurrent calls
  Owner,      \* [Calls -> Processes]: the process that makes each call
  TTL,        \* vocabularyCacheTtlMs, in clock ticks
  MaxSaves,   \* bound on the saves started
  MaxTime     \* bound on the clock

ASSUME CacheAssumption ==
  /\ Owner \in [Calls -> Processes]
  /\ TTL \in Nat /\ MaxSaves \in Nat /\ MaxTime \in Nat

VARIABLES
  now,           \* the clock
  stored,        \* the vocabulary in the database
  cache,         \* each process's entry: none, or one [vocab, expiresAt]
  generation,    \* each process's count of invalidations
  call,          \* the calls in flight
  saves,         \* number of saves started
  \* History, read by the properties only:
  superseded,    \* when each vocabulary was replaced
  acknowledged,  \* the newest vocabulary each process saved and was told so
  freshlySeen    \* the newest vocabulary a fresh read returned in each process

vars == <<now, stored, cache, generation, call, saves, superseded, acknowledged,
          freshlySeen>>

-----------------------------------------------------------------------------
Entry == [vocab : Nat, expiresAt : Nat]

Replacement == [vocab : Nat, at : Nat]

Call == [phase : {"idle", "asked", "answered", "saving", "landed"},
         fresh : BOOLEAN, readAt : Nat, generation : Nat, vocab : Nat]

NoCall == [phase |-> "idle", fresh |-> FALSE, readAt |-> 0, generation |-> 0, vocab |-> 0]

Maximum(m, n) == IF m < n THEN n ELSE m

\* The entries a cached read of process p may be answered with.
Usable(p) == {e \in cache[p] : now < e.expiresAt}

Init ==
  /\ now = 0
  /\ stored = 0
  /\ cache = [p \in Processes |-> {}]
  /\ generation = [p \in Processes |-> 0]
  /\ call = [c \in Calls |-> NoCall]
  /\ saves = 0
  /\ superseded = {}
  /\ acknowledged = [p \in Processes |-> 0]
  /\ freshlySeen = [p \in Processes |-> 0]

Tick ==
  /\ now < MaxTime
  /\ now' = now + 1
  /\ UNCHANGED <<stored, cache, generation, call, saves, superseded, acknowledged,
                 freshlySeen>>

-----------------------------------------------------------------------------
(* getVocabulary.                                                          *)

\* A fresh read, or a read the cache cannot answer, goes to the database.
AskDatabase(c, fresh) ==
  /\ call[c].phase = "idle"
  /\ fresh \/ Usable(Owner[c]) = {}
  /\ call' = [call EXCEPT ![c] = [NoCall EXCEPT !.phase = "asked", !.fresh = fresh,
                !.readAt = now, !.generation = generation[Owner[c]]]]
  /\ UNCHANGED <<now, stored, cache, generation, saves, superseded, acknowledged,
                 freshlySeen>>

DatabaseAnswers(c) ==
  /\ call[c].phase = "asked"
  /\ call' = [call EXCEPT ![c].phase = "answered", ![c].vocab = stored]
  /\ UNCHANGED <<now, stored, cache, generation, saves, superseded, acknowledged,
                 freshlySeen>>

\* Mutation of Cacheable: invalidations are not looked at.
CacheableAlways(c) == TTL > 0

\* An invalidation since the read started means the answer may predate a write.
Cacheable(c) == TTL > 0 /\ call[c].generation = generation[Owner[c]]

\* Mutation of CacheVocabulary: the lifetime counts from the return of the read.
CacheFromReturn(c) ==
  cache' = [cache EXCEPT ![Owner[c]] = {[vocab |-> call[c].vocab, expiresAt |-> now + TTL]}]

\* The entry's lifetime counts from the start of the read.
CacheVocabulary(c) ==
  cache' = [cache EXCEPT ![Owner[c]] =
              {[vocab |-> call[c].vocab, expiresAt |-> call[c].readAt + TTL]}]

ReadReturns(c) ==
  /\ call[c].phase = "answered"
  /\ IF Cacheable(c) THEN CacheVocabulary(c) ELSE UNCHANGED cache
  /\ freshlySeen' = IF call[c].fresh
                    THEN [freshlySeen EXCEPT ![Owner[c]] = Maximum(@, call[c].vocab)]
                    ELSE freshlySeen
  /\ call' = [call EXCEPT ![c] = NoCall]
  /\ UNCHANGED <<now, stored, generation, saves, superseded, acknowledged>>

\* The request fails; nothing is cached.
ReadFails(c) ==
  /\ call[c].phase \in {"asked", "answered"}
  /\ call' = [call EXCEPT ![c] = NoCall]
  /\ UNCHANGED <<now, stored, cache, generation, saves, superseded, acknowledged,
                 freshlySeen>>

-----------------------------------------------------------------------------
(* saveVocabulary: whatever the outcome, the entry is dropped on return.   *)

SaveVocabulary(c) ==
  /\ call[c].phase = "idle"
  /\ saves < MaxSaves
  /\ saves' = saves + 1
  /\ call' = [call EXCEPT ![c] = [NoCall EXCEPT !.phase = "saving"]]
  /\ UNCHANGED <<now, stored, cache, generation, superseded, acknowledged, freshlySeen>>

WriteLands(c) ==
  /\ call[c].phase = "saving"
  /\ stored' = stored + 1
  /\ superseded' = superseded \cup {[vocab |-> stored, at |-> now]}
  /\ call' = [call EXCEPT ![c].phase = "landed", ![c].vocab = stored + 1]
  /\ UNCHANGED <<now, cache, generation, saves, acknowledged, freshlySeen>>

InvalidateVocabularyCache(p) ==
  /\ generation' = [generation EXCEPT ![p] = @ + 1]
  /\ cache' = [cache EXCEPT ![p] = {}]

SaveReturns(c) ==
  /\ call[c].phase = "landed"
  /\ InvalidateVocabularyCache(Owner[c])
  /\ acknowledged' = [acknowledged EXCEPT ![Owner[c]] = Maximum(@, call[c].vocab)]
  /\ call' = [call EXCEPT ![c] = NoCall]
  /\ UNCHANGED <<now, stored, saves, superseded, freshlySeen>>

\* A conflict, or an error before or after the write landed.
SaveFails(c) ==
  /\ call[c].phase \in {"saving", "landed"}
  /\ InvalidateVocabularyCache(Owner[c])
  /\ call' = [call EXCEPT ![c] = NoCall]
  /\ UNCHANGED <<now, stored, saves, superseded, acknowledged, freshlySeen>>

-----------------------------------------------------------------------------
Next == \/ Tick
        \/ \E c \in Calls : \/ \E fresh \in BOOLEAN : AskDatabase(c, fresh)
                            \/ DatabaseAnswers(c)
                            \/ ReadReturns(c)
                            \/ ReadFails(c)
                            \/ SaveVocabulary(c)
                            \/ WriteLands(c)
                            \/ SaveReturns(c)
                            \/ SaveFails(c)

Spec == Init /\ [][Next]_vars

-----------------------------------------------------------------------------
(* Properties.                                                             *)

TypeOK ==
  /\ now \in 0..MaxTime
  /\ saves \in 0..MaxSaves
  /\ stored \in Nat
  /\ cache \in [Processes -> SUBSET Entry]
  /\ \A p \in Processes : \A e, f \in cache[p] : e = f
  /\ generation \in [Processes -> Nat]
  /\ call \in [Calls -> Call]
  /\ superseded \subseteq Replacement
  /\ acknowledged \in [Processes -> Nat]
  /\ freshlySeen \in [Processes -> Nat]

\* A vocabulary another process replaced is served for less than one TTL after it
\* was replaced, however long the read that cached it took ("an entry lives for
\* vocabularyCacheTtlMs from the read that stored it").
BoundedStaleness ==
  \A p \in Processes : \A e \in Usable(p) : \A r \in superseded :
    r.vocab = e.vocab => now < r.at + TTL

\* Once a save has returned in a process, its cache never serves an older
\* vocabulary, even when a read that started before the save ends after it.
ReadYourWrites ==
  \A p \in Processes : \A e \in cache[p] : e.vocab >= acknowledged[p]

\* "The fresh result replaces the cache entry so later cached reads see it too":
\* after a fresh read has returned, a cached read is served nothing older.
FreshReadsAreSeenLater ==
  \A p \in Processes : \A e \in Usable(p) : e.vocab >= freshlySeen[p]

=============================================================================
