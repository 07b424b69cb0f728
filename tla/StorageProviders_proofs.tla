----------------------- MODULE StorageProviders_proofs -----------------------
(***************************************************************************)
(* Proofs about the life of repositories in the persistent providers, for  *)
(* any clients, requests, repositories and sizes of batches, and any       *)
(* number of failures.                                                     *)
(***************************************************************************)
EXTENDS StorageProviders, TLAPS

-----------------------------------------------------------------------------
(* What a call keeps, at every step.                                       *)

Fields == {"pc", "reply", "gate", "seen", "todo", "empties", "after", "raw", "version", "events",
           "chunks", "control", "stopped", "told", "stood", "wrote", "took", "caught", "resent",
           "stored", "recorded"}

IsCall(cl) == DOMAIN cl = Fields

\* Which operations come to a program point.
PcFits(pc, op) ==
  /\ pc \in {"which", "vocabulary", "listing", "marker", "marker token", "repository", "seed"} =>
       op = "create"
  /\ pc \in {"drop", "probe", "anything", "drain", "vertices", "remaining", "unlist", "entry",
             "entity batch", "vertex batch", "cleanup", "log", "rest", "last"} => op = "delete"
  /\ pc \in {"edges", "entities", "relationships"} => op \in {"delete", "clear"}
  /\ pc \in {"land", "id", "insert", "token"} => op \in {"entity", "edge"}
  /\ pc = "again" => op \in {"create", "entity", "edge", "remove"}
  /\ pc = "chunk" => op = "remove"
  /\ pc = "batch" => op = "purge"
  /\ pc \in {"more", "assert"} => op \in {"purge", "cut"}
  /\ pc = "batch of edges" => op = "cut"
  /\ pc \in {"row", "miss"} => op = "erase"
  /\ pc \in {"match", "write", "record", "state", "ensure", "complete"} => op = "save"
  /\ pc = "why" => op \in {"save", "edge"}
  /\ pc = "importing" => op = "import"

Begun == <<"started">>
Going == <<"started", "progress">>
Ended == {<<"started", "completed">>, <<"started", "progress", "completed">>}

\* The events of a delete: what it announces, it has found.
EventsFit(cl, met) ==
  /\ cl.events \in {<<>>, Begun, Going} \cup Ended
  /\ cl.pc # "done" => cl.events \notin Ended
  /\ cl.reply = "deleted" => cl.events \in Ended
  /\ cl.pc \in {"drop", "probe", "anything"} \/ cl.reply = "not_found" => cl.events = <<>> \/ met
  /\ provider = "neo4j" /\ cl.pc # "done" => cl.events = <<>> \/ met \/ cl.raw

\* Points at which a call has not looked for the marker.
Blind == {"idle", "chunk", "batch", "assert", "row", "miss", "importing"}

\* A call that has met no marker has not looked for one, or says so.
Looked(cl, met) ==
  met \/ cl.pc \in Blind \/ (cl.pc = "done" /\ cl.reply \in {"missing", "failed"})

\* An import that has met no marker has sent nothing, or was stopped.
ImportFits(cl, met) ==
  /\ cl.stopped \in {None, "missing", "failed"}
  /\ \A k \in DOMAIN cl.chunks :
       /\ "pc" \in DOMAIN cl.chunks[k]
       /\ cl.chunks[k].pc \in {"waiting", "sent"} \/ met \/ (provider = "neo4j" /\ cl.stopped # None)

\* A save that goes on after its vocabulary was stored was sent again, except to
\* write the record.
SaveFits(cl) ==
  /\ cl.pc \in {"record", "ensure", "complete"} => cl.stored
  /\ cl.pc \notin {"record", "done"} /\ cl.stored => cl.resent
  /\ cl.reply = "saved" => cl.stored /\ cl.recorded
  /\ cl.reply \in {"conflict", "missing"} /\ cl.stored => cl.resent
  /\ provider # "cosmosdb" /\ cl.stored => cl.recorded

\* met: the call's repository had a marker at a step of it.
Fits(c, cl, met) ==
  /\ IsCall(cl)
  /\ {cl.raw, cl.resent, cl.stored, cl.recorded} \subseteq BOOLEAN
  /\ PcFits(cl.pc, Op(c))
  /\ cl.pc = "idle" => cl = NoCall
  /\ cl.pc # "done" => cl.reply = None
  /\ Op(c) = "delete" => EventsFit(cl, met)
  /\ Op(c) \notin {"create", "delete"} => Looked(cl, met)
  /\ cl.pc = "importing" => ImportFits(cl, met)
  /\ Op(c) = "save" => SaveFits(cl)

Local == \A c \in Clients : Fits(c, call[c], c \in alive)

Requests ==
  /\ DOMAIN request \subseteq Clients
  /\ \A c \in DOMAIN request : request[c].op \in Operations /\ request[c].repository \in Repositories
  /\ provider \in {"cosmosdb", "neo4j", "sqlserver"}

Keeps ==
  /\ DOMAIN call = Clients
  /\ DOMAIN marker = Repositories /\ DOMAIN vocabulary = Repositories /\ DOMAIN data = Repositories

\* A vocabulary that a save has written is one that it stored.
Owned ==
  \A r \in Repositories, c \in Clients : \A v \in vocabulary[r] :
    Op(c) = "save" /\ v.by = c => call[c].stored

\* SQL Server's rows refer to the repository's: they are its, and there are none without it.
Rooted ==
  provider = "sqlserver" => \A r \in Repositories :
    /\ marker[r] = None => data[r] = {} /\ vocabulary[r] = {}
    /\ \A d \in data[r] : d.of = marker[r]

Base == Requests /\ Keeps /\ Local /\ Owned /\ Rooted

\* Whether the call's repository has had a marker.
Met(c) == c \in alive \/ marker[Repo(c)] # None

\* What a step of a call leaves.
Good(c, cl) == Fits(c, cl, Met(c)) /\ (call[c].stored => cl.stored)

-----------------------------------------------------------------------------
(* The ways in which a step changes a call.                                *)

LEMMA BecomesIs ==
  ASSUME Keeps, NEW c \in Clients, NEW cl, Becomes(c, cl)
  PROVE  /\ call'[c] = cl /\ DOMAIN call' = Clients
         /\ \A d \in Clients : d # c => call'[d] = call[d]
BY DEF Becomes, Keeps

LEMMA GoesIs ==
  ASSUME NEW c, IsCall(call[c]), NEW pc
  PROVE  /\ IsCall(Goes(c, pc))
         /\ Goes(c, pc).pc = pc
         /\ \A f \in Fields \ {"pc"} : Goes(c, pc)[f] = call[c][f]
BY DEF IsCall, Goes, Fields

LEMMA RepliesIs ==
  ASSUME NEW c, IsCall(call[c]), NEW reply
  PROVE  /\ IsCall(Replies(c, reply))
         /\ Replies(c, reply).pc = "done" /\ Replies(c, reply).reply = reply
         /\ \A f \in Fields \ {"pc", "reply"} : Replies(c, reply)[f] = call[c][f]
BY DEF IsCall, Replies, Fields

\* Two calls that differ in what Fits does not look at.
LEMMA AlikeFits ==
  ASSUME NEW c, NEW d, NEW cl, NEW met, Fits(c, cl, met), IsCall(d),
         d.pc = cl.pc, d.reply = cl.reply, d.raw = cl.raw, d.events = cl.events,
         d.chunks = cl.chunks, d.stopped = cl.stopped, d.resent = cl.resent,
         d.stored = cl.stored, d.recorded = cl.recorded, d.pc # "idle"
  PROVE  Fits(c, d, met)
BY DEF Fits, EventsFit, Looked, ImportFits, SaveFits

\* What Fits looks at.
Seen == {"pc", "reply", "raw", "events", "chunks", "stopped", "resent", "stored", "recorded"}

LEMMA AlikeGood ==
  ASSUME NEW c, NEW d, NEW cl, Good(c, cl), DOMAIN d = DOMAIN cl, \A f \in Seen : d[f] = cl[f],
         cl.pc # "idle"
  PROVE  Good(c, d)
<1>1. /\ d.pc = cl.pc /\ d.reply = cl.reply /\ d.raw = cl.raw /\ d.events = cl.events
      /\ d.chunks = cl.chunks /\ d.stopped = cl.stopped /\ d.resent = cl.resent
      /\ d.stored = cl.stored /\ d.recorded = cl.recorded
  BY DEF Seen
<1>2. IsCall(d)
  BY DEF Good, Fits, IsCall
<1> QED
  BY <1>1, <1>2, AlikeFits DEF Good

LEMMA FitsMore ==
  ASSUME NEW c, NEW cl, NEW met \in BOOLEAN, NEW more \in BOOLEAN, met => more, Fits(c, cl, met)
  PROVE  Fits(c, cl, more)
BY DEF Fits, EventsFit, Looked, ImportFits

\* A request that takes the call on.
LEMMA GoesGood ==
  ASSUME NEW c, Fits(c, call[c], c \in alive), call[c].pc # "done",
         NEW pc, pc \notin {"idle", "done", "importing"}, PcFits(pc, Op(c)),
         Op(c) = "delete" /\ pc \in {"drop", "probe", "anything"} => call[c].events = <<>> \/ Met(c),
         Op(c) \notin {"create", "delete"} => Met(c) \/ pc \in Blind,
         Op(c) = "save" /\ pc \in {"record", "ensure", "complete"} => call[c].stored,
         Op(c) = "save" /\ pc # "record" /\ call[c].stored => call[c].resent
  PROVE  Good(c, Goes(c, pc))
<1> SUFFICES ASSUME NEW cl, cl = Goes(c, pc) PROVE Good(c, cl)
  OBVIOUS
<1>1. IsCall(call[c]) /\ call[c].reply = None
  BY DEF Fits
<1>2. /\ IsCall(cl) /\ cl.pc = pc /\ cl.reply = None /\ cl.raw = call[c].raw
      /\ cl.events = call[c].events /\ cl.resent = call[c].resent
      /\ cl.stored = call[c].stored /\ cl.recorded = call[c].recorded
  BY <1>1, GoesIs DEF Fields
<1>3. Op(c) = "delete" => EventsFit(cl, Met(c))
  BY <1>2 DEF Fits, EventsFit, Met, None
<1>4. Op(c) \notin {"create", "delete"} => Looked(cl, Met(c))
  BY <1>2 DEF Looked
<1>5. Op(c) = "save" => SaveFits(cl)
  BY <1>2 DEF Fits, SaveFits, None
<1> QED
  BY <1>2, <1>3, <1>4, <1>5 DEF Good, Fits

LEMMA RepliesGood ==
  ASSUME NEW c, Fits(c, call[c], c \in alive), call[c].pc # "done",
         NEW reply, reply # "deleted",
         Op(c) = "delete" /\ reply = "not_found" => call[c].events = <<>> \/ Met(c),
         Op(c) \notin {"create", "delete"} => Met(c) \/ reply \in {"missing", "failed"},
         Op(c) = "save" /\ reply = "saved" => call[c].stored /\ call[c].recorded,
         Op(c) = "save" /\ reply \in {"conflict", "missing"} /\ call[c].stored => call[c].resent
  PROVE  Good(c, Replies(c, reply))
<1> SUFFICES ASSUME NEW cl, cl = Replies(c, reply) PROVE Good(c, cl)
  OBVIOUS
<1>1. IsCall(call[c])
  BY DEF Fits
<1>2. /\ IsCall(cl) /\ cl.pc = "done" /\ cl.reply = reply /\ cl.raw = call[c].raw
      /\ cl.events = call[c].events /\ cl.resent = call[c].resent
      /\ cl.stored = call[c].stored /\ cl.recorded = call[c].recorded
  BY <1>1, RepliesIs DEF Fields
<1>3. Op(c) = "delete" => EventsFit(cl, Met(c))
  BY <1>2 DEF Fits, EventsFit, Met
<1>4. Op(c) \notin {"create", "delete"} => Looked(cl, Met(c))
  BY <1>2 DEF Looked
<1>5. Op(c) = "save" => SaveFits(cl)
  BY <1>2 DEF Fits, SaveFits
<1>6. PcFits(cl.pc, Op(c))
  BY <1>2 DEF PcFits
<1> QED
  BY <1>2, <1>3, <1>4, <1>5, <1>6 DEF Good, Fits

LEMMA MissingGood ==
  ASSUME NEW c, Fits(c, call[c], c \in alive), call[c].pc # "done",
         Op(c) = "save" /\ call[c].stored => call[c].resent
  PROVE  Good(c, Missing(c))
BY RepliesGood DEF Missing

LEMMA FailedGood ==
  ASSUME NEW c, Fits(c, call[c], c \in alive), call[c].pc # "done"
  PROVE  Good(c, Replies(c, "failed"))
BY RepliesGood

LEMMA GoesWith ==
  ASSUME NEW c, IsCall(call[c]), NEW pc, pc # "idle", Good(c, Goes(c, pc)), NEW v, NEW w
  PROVE  /\ Good(c, [Goes(c, pc) EXCEPT !.seen = v])
         /\ Good(c, [Goes(c, pc) EXCEPT !.gate = v])
         /\ Good(c, [Goes(c, pc) EXCEPT !.version = v])
         /\ Good(c, [Goes(c, pc) EXCEPT !.todo = v])
         /\ Good(c, [Goes(c, pc) EXCEPT !.empties = v])
         /\ Good(c, [Goes(c, pc) EXCEPT !.after = v])
         /\ Good(c, [Goes(c, pc) EXCEPT !.seen = v, !.gate = w])
<1> DEFINE Alike(d) == DOMAIN d = DOMAIN Goes(c, pc) /\ \A f \in Seen : d[f] = Goes(c, pc)[f]
<1>1. \A d : Alike(d) => Good(c, d)
  BY GoesIs, AlikeGood
<1>2. IsCall(Goes(c, pc))
  BY GoesIs
<1>3. /\ Alike([Goes(c, pc) EXCEPT !.seen = v])
      /\ Alike([Goes(c, pc) EXCEPT !.gate = v])
      /\ Alike([Goes(c, pc) EXCEPT !.version = v])
      /\ Alike([Goes(c, pc) EXCEPT !.todo = v])
      /\ Alike([Goes(c, pc) EXCEPT !.empties = v])
      /\ Alike([Goes(c, pc) EXCEPT !.after = v])
      /\ Alike([Goes(c, pc) EXCEPT !.seen = v, !.gate = w])
  BY <1>2 DEF Seen, IsCall, Fields
<1> HIDE DEF Alike
<1> QED
  BY <1>1, <1>3

\* A request that the driver may send again.
LEMMA SubmittedGood ==
  ASSUME Keeps, NEW c \in Clients, NEW cl, NEW pc,
         Good(c, cl), Good(c, Goes(c, pc)), IsCall(call[c]), Submitted(c, cl, pc),
         pc \notin {"idle", "done", "record", "complete"}, pc = "ensure" => cl.stored
  PROVE  Good(c, call'[c])
<1> DEFINE again == [Goes(c, pc) EXCEPT !.resent = TRUE, !.stored = cl.stored,
                       !.recorded = cl.recorded, !.wrote = cl.wrote, !.took = cl.took,
                       !.caught = cl.caught]
<1>1. CASE Becomes(c, cl)
  BY <1>1, BecomesIs
<1>2. CASE Becomes(c, again)
  <2>1. /\ IsCall(again) /\ again.pc = pc /\ again.reply = Goes(c, pc).reply
        /\ again.raw = Goes(c, pc).raw /\ again.events = Goes(c, pc).events
        /\ again.chunks = Goes(c, pc).chunks /\ again.stopped = Goes(c, pc).stopped
        /\ again.resent = TRUE /\ again.stored = cl.stored /\ again.recorded = cl.recorded
    BY GoesIs DEF IsCall, Fields
  <2> HIDE DEF again
  <2>2. Goes(c, pc).pc = pc
    BY GoesIs
  <2>3. /\ Fits(c, Goes(c, pc), Met(c)) /\ Fits(c, cl, Met(c))
        /\ (call[c].stored => cl.stored)
    BY DEF Good
  <2>4. Op(c) = "delete" => EventsFit(again, Met(c))
    BY <2>1, <2>2, <2>3 DEF Fits, EventsFit
  <2>5. Op(c) \notin {"create", "delete"} => Looked(again, Met(c))
    BY <2>1, <2>2, <2>3 DEF Fits, Looked
  <2>6. Op(c) = "save" => SaveFits(again)
    BY <2>1, <2>2, <2>3 DEF Fits, SaveFits, None
  <2>7. again.pc = "importing" => ImportFits(again, Met(c))
    BY <2>1, <2>2, <2>3 DEF Fits, ImportFits
  <2>8. Good(c, again)
    BY <2>1, <2>2, <2>3, <2>4, <2>5, <2>6, <2>7 DEF Good, Fits
  <2> QED
    BY <1>2, <2>8, BecomesIs
<1> QED
  BY <1>1, <1>2 DEF Submitted

\* A request that it does not.
LEMMA AnsweredGood ==
  ASSUME Keeps, NEW c \in Clients, NEW cl, Fits(c, call[c], c \in alive), call[c].pc # "done",
         Good(c, cl), Answered(c, cl)
  PROVE  Good(c, call'[c])
<1> DEFINE lost == [Replies(c, "failed") EXCEPT !.stored = cl.stored, !.recorded = cl.recorded]
<1>1. CASE Becomes(c, cl)
  BY <1>1, BecomesIs
<1>2. CASE Becomes(c, lost)
  <2>0. Good(c, Replies(c, "failed")) /\ IsCall(call[c])
    BY FailedGood DEF Fits
  <2>1. /\ IsCall(lost) /\ lost.pc = "done" /\ lost.reply = "failed"
        /\ lost.raw = Replies(c, "failed").raw /\ lost.events = Replies(c, "failed").events
        /\ lost.resent = Replies(c, "failed").resent
        /\ lost.stored = cl.stored /\ lost.recorded = cl.recorded
    BY <2>0, RepliesIs DEF IsCall, Fields
  <2> HIDE DEF lost
  <2>2. Replies(c, "failed").pc = "done" /\ Replies(c, "failed").reply = "failed"
    BY <2>0, RepliesIs
  <2>3. /\ Fits(c, Replies(c, "failed"), Met(c)) /\ Fits(c, cl, Met(c))
        /\ (call[c].stored => cl.stored)
    BY <2>0 DEF Good
  <2>4. Op(c) = "delete" => EventsFit(lost, Met(c))
    BY <2>1, <2>2, <2>3 DEF Fits, EventsFit
  <2>5. Op(c) \notin {"create", "delete"} => Looked(lost, Met(c))
    BY <2>1 DEF Looked
  <2>6. Op(c) = "save" => SaveFits(lost)
    BY <2>1, <2>3 DEF Fits, SaveFits
  <2>7. Good(c, lost)
    BY <2>1, <2>2, <2>3, <2>4, <2>5, <2>6 DEF Good, Fits
  <2> QED
    BY <1>2, <2>7, BecomesIs
<1> QED
  BY <1>1, <1>2 DEF Answered

-----------------------------------------------------------------------------
(* The steps of a call, one after the other.                               *)

LEMMA CommonGood ==
  ASSUME Base, NEW c \in Clients, BeginDelete(c) \/ ReadVersion(c) \/ Fails(c)
  PROVE  Good(c, call'[c])
<1> USE DEF Base
<1>0. Fits(c, call[c], c \in alive) /\ IsCall(call[c])
  BY DEF Local, Fits
<1>1. CASE BeginDelete(c)
  <2> DEFINE cl == [Goes(c, "drop") EXCEPT !.stood = Standing(Repo(c)),
                      !.events = IF marker[Repo(c)] # None THEN <<"started">> ELSE <<>>]
  <2>1. Op(c) = "delete" /\ call[c].pc = "idle" /\ Becomes(c, cl)
    BY <1>1 DEF BeginDelete
  <2>2. call[c] = NoCall
    BY <1>0, <2>1 DEF Fits
  <2>3. /\ IsCall(cl) /\ cl.pc = "drop" /\ cl.reply = None /\ cl.raw = FALSE
        /\ cl.resent = FALSE /\ cl.stored = FALSE /\ cl.recorded = FALSE
        /\ cl.events = IF marker[Repo(c)] # None THEN <<"started">> ELSE <<>>
    BY <1>0, <2>2, GoesIs DEF NoCall, Fields, IsCall
  <2> HIDE DEF cl
  <2>4. EventsFit(cl, Met(c))
    BY <2>3 DEF EventsFit, Met, Begun, Going, Ended, None
  <2>5. PcFits(cl.pc, Op(c))
    BY <2>1, <2>3 DEF PcFits
  <2>6. call[c].stored = FALSE
    BY <2>2 DEF NoCall
  <2>7. Good(c, cl)
    BY <2>1, <2>3, <2>4, <2>5, <2>6 DEF Good, Fits
  <2> QED
    BY <2>1, <2>7, BecomesIs
<1>2. CASE ReadVersion(c)
  <2>1. Op(c) = "save" /\ call[c].pc = "idle"
    BY <1>2 DEF ReadVersion
  <2>2. call[c] = NoCall
    BY <1>0, <2>1 DEF Fits
  <2>3. call[c].stored = FALSE
    BY <2>2 DEF NoCall
  <2>4. Good(c, Missing(c)) /\ Good(c, Replies(c, "failed"))
    BY <1>0, <2>1, <2>3, MissingGood, FailedGood
  <2>5. ASSUME marker[Repo(c)] # None
        PROVE  Good(c, Goes(c, "match")) /\ \A v : Good(c, [Goes(c, "match") EXCEPT !.version = v])
    <3>1. Good(c, Goes(c, "match"))
      BY <1>0, <2>1, <2>3, <2>5, GoesGood DEF PcFits, Met
    <3>2. ASSUME NEW v PROVE Good(c, [Goes(c, "match") EXCEPT !.version = v])
      BY <1>0, <3>1, GoesWith
    <3> QED
      BY <3>1, <3>2
  <2> QED
    BY <1>2, <2>4, <2>5, BecomesIs DEF ReadVersion
<1>3. CASE Fails(c)
  BY <1>0, <1>3, FailedGood, BecomesIs DEF Fails
<1> QED
  BY <1>1, <1>2, <1>3

LEMMA CreateGood ==
  ASSUME Base, NEW c \in Clients, Op(c) = "create", call[c].pc # "done", NEW x, x # "deleted"
  PROVE  /\ x \notin {"idle", "done", "importing"} /\ PcFits(x, "create") => Good(c, Goes(c, x))
         /\ Good(c, Replies(c, x))
<1>0. Fits(c, call[c], c \in alive)
  BY DEF Base, Local
<1> QED
  BY <1>0, GoesGood, RepliesGood

LEMMA CosmosCreatesGood ==
  ASSUME Base, NEW c \in Clients, Creates(c)
  PROVE  Good(c, call'[c])
<1>0. Fits(c, call[c], c \in alive) /\ IsCall(call[c]) /\ Keeps
  BY DEF Base, Local, Fits
<1>1. Op(c) = "create" /\ call[c].pc \in {"idle", "which", "vocabulary", "listing", "marker"}
  BY <1>0 DEF Creates, ProbeForCreate, WhyOccupied, WriteVocabulary, ReadIndexForCreate, WriteMarker,
              Fits, PcFits
<1>2. /\ Good(c, Goes(c, "which")) /\ Good(c, Goes(c, "vocabulary")) /\ Good(c, Goes(c, "listing"))
      /\ Good(c, Goes(c, "marker")) /\ \A x : x # "deleted" => Good(c, Replies(c, x))
  BY <1>1, CreateGood DEF PcFits
<1>3. CASE ProbeForCreate(c)
  BY <1>0, <1>2, <1>3, BecomesIs DEF ProbeForCreate
<1>4. CASE WhyOccupied(c)
  BY <1>0, <1>2, <1>4, BecomesIs DEF WhyOccupied
<1>5. CASE WriteVocabulary(c)
  BY <1>0, <1>2, <1>5, BecomesIs, SubmittedGood DEF WriteVocabulary
<1>6. CASE ReadIndexForCreate(c)
  <2>1. Good(c, [Goes(c, "marker") EXCEPT !.seen = index])
    BY <1>0, <1>2, GoesWith
  <2> QED
    BY <1>0, <1>6, <2>1, BecomesIs DEF ReadIndexForCreate
<1>7. CASE WriteMarker(c)
  BY <1>0, <1>2, <1>7, BecomesIs, SubmittedGood DEF WriteMarker
<1> QED
  BY <1>3, <1>4, <1>5, <1>6, <1>7 DEF Creates

\* Deletes.
LEMMA Appends ==
  ASSUME NEW S, NEW a \in S, NEW b \in S, NEW e \in S
  PROVE  Append(<<a>>, b) = <<a, b>> /\ Append(<<a, b>>, e) = <<a, b, e>>
<1>1. \A s \in Seq(S) : /\ DOMAIN Append(s, e) = 1..(Len(s) + 1)
                         /\ \A i \in 1..(Len(s) + 1) : Append(s, e)[i] = IF i = Len(s) + 1 THEN e ELSE s[i]
  OBVIOUS
<1>2. \A s \in Seq(S) : /\ DOMAIN Append(s, b) = 1..(Len(s) + 1)
                         /\ \A i \in 1..(Len(s) + 1) : Append(s, b)[i] = IF i = Len(s) + 1 THEN b ELSE s[i]
  OBVIOUS
<1>3. /\ <<a>> \in Seq(S) /\ Len(<<a>>) = 1 /\ <<a>>[1] = a
      /\ <<a, b>> \in Seq(S) /\ Len(<<a, b>>) = 2 /\ <<a, b>>[1] = a /\ <<a, b>>[2] = b
  OBVIOUS
<1>4. Append(<<a>>, b) = <<a, b>>
  <2>1. <<a, b>> = [i \in 1..2 |-> IF i = 2 THEN b ELSE a]
    OBVIOUS
  <2>2. Append(<<a>>, b) \in Seq(S)
    BY <1>3
  <2>3. Append(<<a>>, b) = [i \in 1..2 |-> IF i = 2 THEN b ELSE a]
    BY <1>2, <1>3, <2>2
  <2> QED
    BY <2>1, <2>3
<1>5. Append(<<a, b>>, e) = <<a, b, e>>
  <2>1. <<a, b, e>> = [i \in 1..3 |-> IF i = 3 THEN e ELSE IF i = 2 THEN b ELSE a]
    OBVIOUS
  <2>2. Append(<<a, b>>, e) \in Seq(S)
    BY <1>3
  <2>3. Append(<<a, b>>, e) = [i \in 1..3 |-> IF i = 3 THEN e ELSE IF i = 2 THEN b ELSE a]
    BY <1>1, <1>3, <2>2
  <2> QED
    BY <2>1, <2>3
<1> QED
  BY <1>4, <1>5

LEMMA EventsGoOn ==
  ASSUME NEW cl, cl.events \in {<<>>, Begun, Going}
  PROVE  Progressed(cl) = Going /\ Append(Starts(cl), "completed") \in Ended
<1>1. Starts(cl) \in {Begun, Going}
  <2>1. CASE cl.events = <<>>
    <3>1. ToSet(cl.events) = {}
      BY <2>1 DEF ToSet
    <3>2. Append(cl.events, "started") = Begun
      BY <2>1 DEF Begun
    <3> QED
      BY <3>1, <3>2 DEF Starts
  <2>2. CASE cl.events \in {Begun, Going}
    <3>1. "started" \in ToSet(cl.events)
      BY <2>2 DEF ToSet, Begun, Going
    <3> QED
      BY <2>2, <3>1 DEF Starts
  <2> QED
    BY <2>1, <2>2
<1>2. /\ Last(Begun) # "progress" /\ Last(Going) = "progress" /\ Append(Begun, "progress") = Going
      /\ {Append(Begun, "completed"), Append(Going, "completed")} \subseteq Ended
  <2>1. Last(Begun) # "progress"
    BY DEF Last, Begun
  <2>2. Last(Going) = "progress"
    BY DEF Last, Going
  <2> DEFINE S == {"started", "progress", "completed"}
  <2>0. "started" \in S /\ "progress" \in S /\ "completed" \in S
    OBVIOUS
  <2> HIDE DEF S
  <2>3. Append(Begun, "progress") = Going
    BY <2>0, Appends DEF Begun, Going
  <2>4. Append(Begun, "completed") = <<"started", "completed">>
    BY <2>0, Appends DEF Begun
  <2>5. Append(Going, "completed") = <<"started", "progress", "completed">>
    BY <2>0, Appends DEF Going
  <2> QED
    BY <2>1, <2>2, <2>3, <2>4, <2>5 DEF Ended
<1>3. CASE Starts(cl) = Begun
  <2>1. Last(Starts(cl)) # "progress"
    BY <1>2, <1>3
  <2> QED
    BY <1>2, <1>3, <2>1 DEF Progressed, Ended
<1>4. CASE Starts(cl) = Going
  <2>1. Last(Starts(cl)) = "progress"
    BY <1>2, <1>4
  <2> QED
    BY <1>2, <1>4, <2>1 DEF Progressed, Ended
<1> QED
  BY <1>1, <1>3, <1>4

LEMMA DeleteGood ==
  ASSUME Base, NEW c \in Clients, Op(c) = "delete", call[c].pc \notin {"done", "idle"}, NEW pc,
         pc \notin {"idle", "done", "importing"}, PcFits(pc, "delete"),
         pc \in {"drop", "probe", "anything"} => call[c].pc \in {"drop", "probe", "anything"}
  PROVE  /\ Good(c, Goes(c, pc)) /\ Good(c, Completed(call[c])) /\ Good(c, Replies(c, "failed"))
         /\ Progressed(call[c]) = Going
<1>0. Fits(c, call[c], c \in alive) /\ IsCall(call[c]) /\ EventsFit(call[c], c \in alive)
  BY DEF Base, Local, Fits
<1>1. Good(c, Goes(c, pc)) /\ Good(c, Replies(c, "failed"))
  BY <1>0, GoesGood, FailedGood DEF EventsFit, Met
<1>2. call[c].events \in {<<>>, Begun, Going}
  BY <1>0 DEF EventsFit
<1>3. Append(Starts(call[c]), "completed") \in Ended /\ Progressed(call[c]) = Going
  BY <1>2, EventsGoOn
<1>4. ASSUME NEW cl, cl = Completed(call[c]) PROVE Good(c, cl)
  <2>1. /\ IsCall(cl) /\ cl.pc = "done" /\ cl.reply = "deleted" /\ cl.raw = call[c].raw
        /\ cl.resent = call[c].resent /\ cl.stored = call[c].stored
        /\ cl.recorded = call[c].recorded /\ cl.events \in Ended
    BY <1>0, <1>3, <1>4 DEF Completed, IsCall, Fields
  <2>2. EventsFit(cl, Met(c)) /\ PcFits(cl.pc, Op(c))
    BY <2>1 DEF EventsFit, PcFits
  <2> QED
    BY <1>0, <2>1, <2>2 DEF Good, Fits
<1> QED
  BY <1>1, <1>3, <1>4

\* A call that goes on, with a progress report.
LEMMA OtherEventsGood ==
  ASSUME NEW c, NEW was, Good(c, was), was.pc \notin {"idle", "done", "drop", "probe", "anything"},
         NEW cl, IsCall(cl),
         cl.pc = was.pc, cl.reply = was.reply, cl.raw = was.raw, cl.chunks = was.chunks,
         cl.stopped = was.stopped, cl.resent = was.resent, cl.stored = was.stored,
         cl.recorded = was.recorded,
         Op(c) = "delete" => cl.events = Going /\ (provider = "neo4j" => Met(c) \/ cl.raw)
  PROVE  Good(c, cl)
<1>3. Op(c) = "delete" => EventsFit(cl, Met(c))
  <2>1. Going \notin Ended
    BY DEF Going, Ended
  <2>2. cl.reply = None
    BY DEF Good, Fits
  <2> QED
    BY <2>1, <2>2 DEF EventsFit, None
<1>4. Op(c) \notin {"create", "delete"} => Looked(cl, Met(c))
  BY DEF Good, Fits, Looked
<1>5. cl.pc = "importing" => ImportFits(cl, Met(c))
  BY DEF Good, Fits, ImportFits
<1>6. Op(c) = "save" => SaveFits(cl)
  BY DEF Good, Fits, SaveFits
<1> QED
  BY <1>3, <1>4, <1>5, <1>6 DEF Good, Fits

LEMMA ProgressGood ==
  ASSUME NEW c, IsCall(call[c]),
         Op(c) = "delete" => provider # "neo4j" /\ Progressed(call[c]) = Going
  PROVE  /\ \A pc \in {"edges", "entities"} : Good(c, Goes(c, pc)) =>
              Good(c, [Goes(c, pc) EXCEPT !.events = Progressed(call[c])])
         /\ call[c].pc = "edges" /\ Good(c, call[c]) =>
              Good(c, [call[c] EXCEPT !.events = Progressed(call[c])])
<1>1. ASSUME NEW pc \in {"edges", "entities"}, Good(c, Goes(c, pc))
      PROVE  Good(c, [Goes(c, pc) EXCEPT !.events = Progressed(call[c])])
  <2> SUFFICES ASSUME NEW cl, cl = [Goes(c, pc) EXCEPT !.events = Progressed(call[c])]
               PROVE  Good(c, cl)
    OBVIOUS
  <2>1. /\ IsCall(cl) /\ cl.pc = Goes(c, pc).pc /\ cl.reply = Goes(c, pc).reply /\ cl.raw = Goes(c, pc).raw
        /\ cl.chunks = Goes(c, pc).chunks /\ cl.stopped = Goes(c, pc).stopped /\ cl.resent = Goes(c, pc).resent
        /\ cl.stored = Goes(c, pc).stored /\ cl.recorded = Goes(c, pc).recorded
        /\ cl.events = Progressed(call[c]) /\ Goes(c, pc).pc = pc
    BY GoesIs DEF IsCall, Fields
  <2>2. Goes(c, pc).pc \notin {"idle", "done", "drop", "probe", "anything"}
    BY <2>1
  <2>3. Op(c) = "delete" => cl.events = Going /\ (provider = "neo4j" => Met(c) \/ cl.raw)
    BY <2>1
  <2> QED
    BY <1>1, <2>1, <2>2, <2>3, OtherEventsGood
<1>2. ASSUME call[c].pc = "edges", Good(c, call[c])
      PROVE  Good(c, [call[c] EXCEPT !.events = Progressed(call[c])])
  <2> SUFFICES ASSUME NEW cl, cl = [call[c] EXCEPT !.events = Progressed(call[c])]
               PROVE  Good(c, cl)
    OBVIOUS
  <2>1. /\ IsCall(cl) /\ cl.pc = call[c].pc /\ cl.reply = call[c].reply /\ cl.raw = call[c].raw
        /\ cl.chunks = call[c].chunks /\ cl.stopped = call[c].stopped /\ cl.resent = call[c].resent
        /\ cl.stored = call[c].stored /\ cl.recorded = call[c].recorded
        /\ cl.events = Progressed(call[c])
    BY DEF IsCall, Fields
  <2>2. call[c].pc \notin {"idle", "done", "drop", "probe", "anything"}
    BY <1>2
  <2>3. Op(c) = "delete" => cl.events = Going /\ (provider = "neo4j" => Met(c) \/ cl.raw)
    BY <2>1
  <2> QED
    BY <1>2, <2>1, <2>2, <2>3, OtherEventsGood
<1> QED
  BY <1>1, <1>2

LEMMA Unmoved ==
  ASSUME NEW c, Fits(c, call[c], c \in alive)
  PROVE  Good(c, call[c])
<1>1. CASE c \in alive
  BY <1>1 DEF Good, Fits, EventsFit, Looked, ImportFits, Met
<1>2. CASE c \notin alive
  BY <1>2 DEF Good, Fits, EventsFit, Looked, ImportFits, Met
<1> QED
  BY <1>1, <1>2

LEMMA HasMet ==
  ASSUME Base, NEW c \in Clients, Op(c) \notin {"create", "delete"},
         call[c].pc \notin Blind \cup {"done"}
  PROVE  Met(c)
BY DEF Base, Local, Fits, Looked, Met

\* What a batch takes is history.
LEMMA CatchesGood ==
  ASSUME NEW c, NEW cl, Good(c, cl), cl.pc # "idle", NEW batch
  PROVE  Good(c, Catches(c, cl, batch))
<1> DEFINE Alike(d) == DOMAIN d = DOMAIN cl /\ \A f \in Seen : d[f] = cl[f]
<1>0. \A d : Alike(d) => Good(c, d)
  BY AlikeGood
<1>1. IsCall(cl)
  BY DEF Good, Fits
<1>2. ASSUME NEW caught PROVE Good(c, [cl EXCEPT !.caught = caught])
  <2>1. Alike([cl EXCEPT !.caught = caught])
    BY <1>1 DEF IsCall, Fields, Seen
  <2> HIDE DEF Alike
  <2> QED
    BY <1>0, <2>1
<1> QED
  BY <1>2 DEF Catches

LEMMA CosmosDeletesGood ==
  ASSUME Base, NEW c \in Clients, provider = "cosmosdb", Deletes(c)
  PROVE  Good(c, call'[c])
<1>0. Fits(c, call[c], c \in alive) /\ IsCall(call[c]) /\ Keeps
  BY DEF Base, Local, Fits
<1>1. CASE Op(c) = "delete"
  <2>1. call[c].pc \in {"drop", "probe", "anything", "edges", "entities", "drain", "vertices",
                        "remaining", "unlist", "entry", "entity batch", "vertex batch", "cleanup"}
    BY <1>1 DEF Deletes, DropMarker, ProbeForDelete, NothingLeft, DrainEdges, SizeEntities,
                UnlessRecreated, DrainEntities, DrainVertices, CountRemaining, ReadIndexForDelete, RemoveFromIndex
  <2>2. /\ \A pc \in {"edges", "entities", "drain", "vertices", "remaining", "unlist", "entry",
                       "entity batch", "vertex batch", "cleanup"} : Good(c, Goes(c, pc))
        /\ Good(c, Completed(call[c])) /\ Progressed(call[c]) = Going
    BY <1>1, <2>1, DeleteGood DEF PcFits
  <2>3. call[c].pc \in {"drop", "probe", "anything"} =>
          \A pc \in {"drop", "probe", "anything"} : Good(c, Goes(c, pc))
    BY <1>1, <2>1, DeleteGood DEF PcFits
  <2>4. \A pc \in {"edges", "entities"} : Good(c, [Goes(c, pc) EXCEPT !.events = Progressed(call[c])])
    BY <1>0, <1>1, <2>2, ProgressGood
  <2>5. ASSUME NEW v PROVE Good(c, [Goes(c, "entry") EXCEPT !.seen = v])
    BY <1>0, <2>2, GoesWith
  <2>6. CASE DropMarker(c)
    <3>1. ASSUME NEW v PROVE Good(c, [Goes(c, "probe") EXCEPT !.gate = v])
      BY <1>0, <2>3, <2>6, GoesWith DEF DropMarker
    <3> QED
      BY <1>0, <2>3, <2>6, <3>1, SubmittedGood DEF DropMarker
  <2>7. CASE ProbeForDelete(c)
    BY <1>0, <2>2, <2>3, <2>7, BecomesIs DEF ProbeForDelete
  <2>8. CASE NothingLeft(c)
    <3>1. call[c].pc = "anything" /\ call[c].pc # "done"
      BY <2>8 DEF NothingLeft
    <3>2. Good(c, Replies(c, "not_found"))
      BY <1>0, <1>1, <3>1, RepliesGood DEF Fits, EventsFit, Met
    <3> QED
      BY <1>0, <2>5, <2>8, <3>2, BecomesIs DEF NothingLeft
  <2>9. CASE DrainEdges(c)
    <3>1. Good(c, [call[c] EXCEPT !.events = Progressed(call[c])])
      BY <1>0, <1>1, <2>2, <2>9, Unmoved, ProgressGood DEF DrainEdges
    <3> QED
      BY <1>0, <2>2, <2>4, <2>9, <3>1, SubmittedGood, BecomesIs DEF DrainEdges
  <2>10. CASE SizeEntities(c)
    BY <1>0, <2>2, <2>10, BecomesIs DEF SizeEntities
  <2>11. CASE DrainEntities(c)
    <3> DEFINE went == [Goes(c, "entities") EXCEPT !.events = Progressed(call[c])]
    <3>1. Good(c, went)
      BY <2>4
    <3>2. went.pc # "idle"
      BY <1>0, GoesIs DEF IsCall, Fields
    <3>3. PICK batch : Submitted(c, Catches(c, went, batch), "drain")
      BY <2>11 DEF DrainEntities
    <3> HIDE DEF went
    <3>4. Good(c, Catches(c, went, batch))
      BY <3>1, <3>2, CatchesGood
    <3> QED
      BY <1>0, <2>2, <3>3, <3>4, SubmittedGood
  <2>12. CASE DrainVertices(c)
    <3>1. Goes(c, "remaining").pc # "idle"
      BY <1>0, GoesIs
    <3>2. PICK batch : Submitted(c, Catches(c, Goes(c, "remaining"), batch), "vertices")
      BY <2>12 DEF DrainVertices
    <3>3. Good(c, Catches(c, Goes(c, "remaining"), batch))
      BY <2>2, <3>1, CatchesGood
    <3> QED
      BY <1>0, <2>2, <3>2, <3>3, SubmittedGood
  <2>13. CASE CountRemaining(c)
    BY <1>0, <2>2, <2>13, BecomesIs DEF CountRemaining
  <2>14. CASE ReadIndexForDelete(c)
    <3> DEFINE going == [Goes(c, "entry") EXCEPT !.seen = index]
    <3>1. Becomes(c, going) \/ Becomes(c, Completed(call[c]))
      BY <2>14 DEF ReadIndexForDelete
    <3>2. Good(c, going)
      BY <2>5
    <3> HIDE DEF going
    <3> QED
      BY <1>0, <2>2, <3>1, <3>2, BecomesIs
  <2>15. CASE RemoveFromIndex(c)
    BY <1>0, <2>2, <2>15, SubmittedGood DEF RemoveFromIndex
  <2>16. CASE UnlessRecreated(c)
    <3>1. ASSUME NEW pc \in {"entity batch", "vertex batch", "cleanup"}, NEW v
          PROVE  Good(c, [Goes(c, pc) EXCEPT !.gate = v])
      BY <1>0, <2>2, GoesWith
    <3>2. Behind(call[c].pc) \in {"entity batch", "vertex batch", "cleanup"}
      BY <2>16 DEF UnlessRecreated, Behind
    <3>3. Good(c, [Goes(c, Behind(call[c].pc)) EXCEPT !.gate = marker[Repo(c)]])
      BY <3>1, <3>2
    <3> DEFINE going == [Goes(c, Behind(call[c].pc)) EXCEPT !.gate = marker[Repo(c)]]
    <3>4. Becomes(c, going) \/ Becomes(c, Completed(call[c]))
      BY <2>16 DEF UnlessRecreated, StandsDown
    <3> HIDE DEF going
    <3> QED
      BY <1>0, <2>2, <3>3, <3>4, BecomesIs DEF going
  <2> QED
    BY <2>6, <2>7, <2>8, <2>9, <2>10, <2>11, <2>12, <2>13, <2>14, <2>15, <2>16 DEF Deletes
<1>2. CASE Op(c) # "delete"
  <2>1. DrainEdges(c)
    BY <1>0, <1>2 DEF Deletes, DropMarker, ProbeForDelete, NothingLeft, SizeEntities, UnlessRecreated, DrainEntities,
                DrainVertices, CountRemaining, ReadIndexForDelete, RemoveFromIndex, Fits, PcFits
  <2>2. Op(c) = "clear" /\ call[c].pc = "edges"
    BY <1>2, <2>1 DEF DrainEdges
  <2>3. Met(c)
    BY <2>2, HasMet DEF Blind
  <2>4. Good(c, Goes(c, "edges")) /\ Good(c, Goes(c, "entities"))
    BY <1>0, <2>2, <2>3, GoesGood DEF PcFits
  <2>5. Good(c, [call[c] EXCEPT !.events = Progressed(call[c])])
    BY <1>0, <2>2, Unmoved, ProgressGood
  <2> QED
    BY <1>0, <2>1, <2>2, <2>4, <2>5, SubmittedGood, BecomesIs DEF DrainEdges
<1> QED
  BY <1>1, <1>2

\* Calls that add or delete.
Writing == {"clear", "entity", "edge", "remove", "erase", "purge", "cut"}

LEMMA WriteGood ==
  ASSUME Base, NEW c \in Clients, Op(c) \in Writing, call[c].pc # "done", NEW x
  PROVE  /\ Good(c, Missing(c)) /\ Good(c, Replies(c, "failed")) /\ Good(c, call[c])
         /\ x \in Blind \ {"idle", "importing"} /\ PcFits(x, Op(c)) => Good(c, Goes(c, x))
         /\ Met(c) /\ x \notin {"idle", "done", "importing"} /\ PcFits(x, Op(c)) => Good(c, Goes(c, x))
         /\ Met(c) /\ x # "deleted" => Good(c, Replies(c, x))
<1>0. Fits(c, call[c], c \in alive)
  BY DEF Base, Local
<1> QED
  BY <1>0, MissingGood, FailedGood, Unmoved, GoesGood, RepliesGood DEF Writing, Blind

LEMMA RepliesWith ==
  ASSUME NEW c, IsCall(call[c]), NEW reply, Good(c, Replies(c, reply)), NEW v, NEW w
  PROVE  /\ reply = "created" => Good(c, Created(c, v)) /\ Good(c, [Created(c, v) EXCEPT !.wrote = w])
         /\ Good(c, [Replies(c, reply) EXCEPT !.told = v])
         /\ Good(c, [Replies(c, reply) EXCEPT !.told = v, !.took = w])
         /\ Good(c, [Replies(c, reply) EXCEPT !.told = v, !.wrote = w])
<1> DEFINE Alike(d) == DOMAIN d = DOMAIN Replies(c, reply) /\ \A f \in Seen : d[f] = Replies(c, reply)[f]
<1>1. \A d : Alike(d) => Good(c, d)
  BY RepliesIs, AlikeGood
<1>2. IsCall(Replies(c, reply))
  BY RepliesIs
<1>3. /\ Alike([Replies(c, reply) EXCEPT !.told = v])
      /\ Alike([Replies(c, reply) EXCEPT !.told = v, !.took = w])
      /\ Alike([Replies(c, reply) EXCEPT !.told = v, !.wrote = w])
  BY <1>2 DEF Seen, IsCall, Fields
<1>4. ASSUME reply = "created" PROVE Alike(Created(c, v)) /\ Alike([Created(c, v) EXCEPT !.wrote = w])
  BY <1>2, <1>4 DEF Created, Seen, IsCall, Fields
<1> HIDE DEF Alike
<1> QED
  BY <1>1, <1>3, <1>4

LEMMA CosmosWritesGood ==
  ASSUME Base, NEW c \in Clients, Writes(c)
  PROVE  Good(c, call'[c])
<1>0. Fits(c, call[c], c \in alive) /\ IsCall(call[c]) /\ Keeps
  BY DEF Base, Local, Fits
<1>1. CASE CheckAndAdd(c)
  <2>1. Op(c) \in Writing /\ call[c].pc # "done" /\ PcFits("land", Op(c))
    BY <1>1 DEF CheckAndAdd, Writing, PcFits
  <2>2. Good(c, Missing(c))
    BY <2>1, WriteGood
  <2>3. ASSUME Gate(c)
        PROVE  /\ Good(c, Replies(c, "duplicate")) /\ Good(c, Replies(c, "not_found"))
               /\ Good(c, [Goes(c, "land") EXCEPT !.gate = marker[Repo(c)]])
    <3>1. Met(c)
      BY <2>3 DEF Gate, Met
    <3>2. Good(c, Goes(c, "land")) /\ Good(c, Replies(c, "duplicate")) /\ Good(c, Replies(c, "not_found"))
      BY <2>1, <3>1, WriteGood
    <3> QED
      BY <1>0, <3>2, GoesWith
  <2> QED
    BY <1>0, <1>1, <2>2, <2>3, BecomesIs DEF CheckAndAdd
<1>2. CASE Land(c)
  <2>1. call[c].pc = "land" /\ Op(c) \in {"entity", "edge"}
    BY <1>0, <1>2 DEF Land, Fits, PcFits
  <2>2. Met(c) /\ Op(c) \in Writing
    BY <2>1, HasMet DEF Blind, Writing
  <2>3. Good(c, Goes(c, "again"))
    BY <2>1, <2>2, WriteGood DEF PcFits
  <2>4. /\ Good(c, Replies(c, "created")) /\ Good(c, Replies(c, "duplicate"))
        /\ Good(c, Replies(c, "failed"))
    BY <2>1, <2>2, WriteGood
  <2>5. Good(c, Created(c, call[c].gate))
    BY <1>0, <2>4, RepliesWith
  <2> QED
    BY <1>0, <1>2, <2>3, <2>4, <2>5, SubmittedGood, BecomesIs DEF Land
<1>3. CASE BeginRemove(c)
  <2>1. Good(c, Goes(c, "chunk"))
    BY <1>3, WriteGood DEF BeginRemove, Writing, Blind, PcFits
  <2>2. Good(c, [Goes(c, "chunk") EXCEPT !.todo = request[c].ids])
    BY <1>0, <2>1, GoesWith
  <2> QED
    BY <1>0, <1>3, <2>2, BecomesIs DEF BeginRemove
<1>4. CASE RemoveChunk(c)
  <2>1. call[c].pc = "chunk" /\ Op(c) = "remove"
    BY <1>0, <1>4 DEF RemoveChunk, Fits, PcFits
  <2>2. Good(c, Missing(c)) /\ Good(c, call[c]) /\ Good(c, Goes(c, "chunk"))
    BY <2>1, WriteGood DEF Writing, Blind, PcFits
  <2>3. ASSUME Gate(c), NEW todo, NEW ids, NEW d,
               d = [call[c] EXCEPT !.todo = todo, !.told = @ \cup ids, !.took = @ \cup ids]
        PROVE  Good(c, d) /\ Good(c, [d EXCEPT !.pc = "done", !.reply = "removed"])
    <3>1. DOMAIN d = DOMAIN call[c] /\ \A f \in Seen : d[f] = call[c][f]
      BY <1>0, <2>3 DEF IsCall, Fields, Seen
    <3>2. Good(c, d)
      <4>1. \A x : DOMAIN x = DOMAIN call[c] /\ (\A f \in Seen : x[f] = call[c][f]) => Good(c, x)
        BY <2>1, <2>2, AlikeGood
      <4> QED
        BY <3>1, <4>1
    <3> DEFINE e == [d EXCEPT !.pc = "done", !.reply = "removed"]
               was == Replies(c, "removed")
    <3>3. Good(c, was) /\ was.pc # "idle"
      <4>1. Met(c)
        BY <2>3 DEF Gate, Met
      <4> QED
        BY <1>0, <2>1, <4>1, WriteGood, RepliesIs DEF Writing
    <3>4. DOMAIN e = DOMAIN was
      BY <1>0, <3>1, RepliesIs DEF IsCall
    <3>5. ASSUME NEW f \in Seen PROVE e[f] = was[f]
      <4>1. "pc" \in DOMAIN d /\ "reply" \in DOMAIN d /\ f \in DOMAIN d
        BY <1>0, <3>1 DEF IsCall, Fields, Seen
      <4>2. CASE f = "pc" \/ f = "reply"
        <5>1. e.pc = "done" /\ e.reply = "removed"
          BY <4>1
        <5>2. was.pc = "done" /\ was.reply = "removed"
          BY <1>0, RepliesIs
        <5> QED
          BY <4>2, <5>1, <5>2
      <4>3. CASE f # "pc" /\ f # "reply"
        <5>1. e[f] = d[f]
          BY <4>1, <4>3
        <5>2. was[f] = call[c][f]
          BY <1>0, <4>3, RepliesIs DEF Fields, Seen
        <5> QED
          BY <3>1, <5>1, <5>2
      <4> QED
        BY <4>2, <4>3
    <3>6. Good(c, e)
      <4>1. \A x : DOMAIN x = DOMAIN was /\ (\A f \in Seen : x[f] = was[f]) => Good(c, x)
        BY <3>3, AlikeGood
      <4> QED
        BY <3>4, <3>5, <4>1
    <3> QED
      BY <3>2, <3>6
  <2>4. CASE ~Gate(c)
    BY <1>0, <1>4, <2>2, <2>4, BecomesIs DEF RemoveChunk
  <2>5. CASE Gate(c)
    <3>1. PICK i \in call[c].todo :
            LET gone == {d \in Entities(Repo(c)) : d.id = i}
                dropped == [call[c] EXCEPT !.todo = @ \ {i}, !.told = @ \cup IdsOf(gone), !.took = @ \cup IdsOf(gone)]
            IN Submitted(c, IF call[c].todo = {i} THEN [dropped EXCEPT !.pc = "done", !.reply = "removed"]
                            ELSE dropped, "chunk")
      BY <1>4, <2>5 DEF RemoveChunk
    <3> DEFINE todo == call[c].todo \ {i}
               ids == IdsOf({d \in Entities(Repo(c)) : d.id = i})
               d == [call[c] EXCEPT !.todo = todo, !.told = @ \cup ids, !.took = @ \cup ids]
    <3>2. PICK cl : /\ cl \in {d, [d EXCEPT !.pc = "done", !.reply = "removed"]}
                    /\ Submitted(c, cl, "chunk")
      BY <3>1
    <3>3. Good(c, d) /\ Good(c, [d EXCEPT !.pc = "done", !.reply = "removed"])
      <4> HIDE DEF todo, ids
      <4> QED
        BY <2>3, <2>5
    <3> HIDE DEF d
    <3>4. Good(c, cl)
      BY <3>2, <3>3
    <3> QED
      BY <1>0, <2>2, <3>2, <3>4, SubmittedGood
  <2> QED
    BY <2>4, <2>5
<1>5. CASE ReadBatch(c)
  <2>1. Op(c) = "purge" /\ call[c].pc \in {"idle", "more"}
    BY <1>5 DEF ReadBatch
  <2>2. Good(c, Goes(c, "batch")) /\ Good(c, Goes(c, "assert"))
    BY <2>1, WriteGood DEF Writing, Blind, PcFits
  <2>3. call[c].pc = "more" => Good(c, Replies(c, "removed"))
    BY <2>1, WriteGood, HasMet DEF Writing, Blind
  <2>4. ASSUME NEW v PROVE Good(c, [Goes(c, "batch") EXCEPT !.seen = v])
    BY <1>0, <2>2, GoesWith
  <2> QED
    BY <1>0, <1>5, <2>2, <2>3, <2>4, BecomesIs DEF ReadBatch
<1>6. CASE DropBatch(c)
  <2>1. call[c].pc = "batch" /\ Op(c) = "purge"
    BY <1>0, <1>6 DEF DropBatch, Fits, PcFits
  <2>2. Good(c, Missing(c)) /\ Good(c, Replies(c, "failed")) /\ Good(c, Goes(c, "batch"))
    BY <2>1, WriteGood DEF Writing, Blind, PcFits
  <2>3. ASSUME Gate(c), NEW n PROVE Good(c, [Goes(c, "more") EXCEPT !.empties = n])
    <3>1. Good(c, Goes(c, "more"))
      BY <2>1, <2>3, WriteGood DEF Writing, Blind, PcFits, Gate, Met
    <3> QED
      BY <1>0, <3>1, GoesWith
  <2> QED
    BY <1>0, <1>6, <2>2, <2>3, SubmittedGood, BecomesIs DEF DropBatch
<1>7. CASE AssertMarker(c)
  <2>1. Op(c) \in {"clear", "purge", "cut"} /\ call[c].pc \in {"assert", "idle"}
    BY <1>0, <1>7 DEF AssertMarker, Fits, PcFits
  <2>2. Good(c, Missing(c))
    BY <2>1, WriteGood DEF Writing
  <2>3. ASSUME Gate(c)
        PROVE  /\ Good(c, Replies(c, "removed"))
               /\ Op(c) = "clear" => Good(c, Goes(c, "edges"))
               /\ Op(c) = "cut" => Good(c, Goes(c, "batch of edges"))
    BY <2>1, <2>3, WriteGood DEF Writing, PcFits, Gate, Met
  <2> QED
    BY <1>0, <1>7, <2>1, <2>2, <2>3, BecomesIs DEF AssertMarker
<1>8. CASE DropEdgeBatch(c)
  <2>1. call[c].pc = "batch of edges" /\ Op(c) = "cut" /\ Op(c) \in Writing
    BY <1>0, <1>8 DEF DropEdgeBatch, Fits, PcFits, Writing
  <2>2. Met(c)
    BY <2>1, HasMet DEF Blind
  <2>3. Good(c, Goes(c, "assert")) /\ Good(c, Goes(c, "batch of edges")) /\ Good(c, Replies(c, "removed"))
    BY <2>1, <2>2, WriteGood DEF PcFits
  <2> QED
    BY <1>0, <1>8, <2>3, SubmittedGood, BecomesIs DEF DropEdgeBatch
<1>9. CASE ClearEntities(c)
  <2>1. call[c].pc = "entities" /\ Op(c) = "clear" /\ Op(c) \in Writing
    BY <1>9 DEF ClearEntities, Writing
  <2>2. Met(c)
    BY <2>1, HasMet DEF Blind
  <2>3. Good(c, Goes(c, "entities")) /\ Good(c, call[c]) /\ Good(c, Replies(c, "removed"))
    BY <2>1, <2>2, WriteGood DEF PcFits
  <2> QED
    BY <1>0, <1>9, <2>3, SubmittedGood, BecomesIs DEF ClearEntities
<1> QED
  BY <1>1, <1>2, <1>3, <1>4, <1>5, <1>6, <1>7, <1>8, <1>9 DEF Writes

\* Saves.
LEMMA SaveGood ==
  ASSUME NEW c, Op(c) = "save", Met(c), NEW d, IsCall(d),
         {d.raw, d.resent, d.stored, d.recorded} \subseteq BOOLEAN,
         d.pc \notin {"idle", "importing"}, PcFits(d.pc, "save"), d.pc = "done" \/ d.reply = None,
         SaveFits(d), call[c].stored => d.stored
  PROVE  Good(c, d)
BY DEF Good, Fits, Looked

LEMMA SaveGoes ==
  ASSUME Base, NEW c \in Clients, Op(c) = "save", call[c].pc \notin {"idle", "done"}
  PROVE  /\ Fits(c, call[c], c \in alive) /\ IsCall(call[c]) /\ SaveFits(call[c]) /\ Met(c)
         /\ call[c].reply = None /\ {call[c].raw, call[c].resent, call[c].stored, call[c].recorded} \subseteq BOOLEAN
         /\ Good(c, Replies(c, "failed"))
         /\ call[c].pc # "record" =>
              /\ Good(c, Missing(c)) /\ Good(c, Replies(c, "conflict"))
              /\ Good(c, Goes(c, "match")) /\ Good(c, Goes(c, "write")) /\ Good(c, Goes(c, "state"))
              /\ Good(c, Goes(c, "why")) /\ (call[c].stored => Good(c, Goes(c, "ensure")) /\ Good(c, Goes(c, "complete")))
<1>1. Fits(c, call[c], c \in alive)
  BY DEF Base, Local
<1>2. SaveFits(call[c]) /\ IsCall(call[c]) /\ call[c].reply = None
  BY <1>1 DEF Fits
<1>3. {call[c].raw, call[c].resent, call[c].stored, call[c].recorded} \subseteq BOOLEAN
  BY <1>1 DEF Fits
<1>4. Met(c)
  <2>1. call[c].pc \notin Blind
    BY <1>1 DEF Fits, PcFits, Blind
  <2> QED
    BY <2>1, HasMet
<1>5. Good(c, Replies(c, "failed"))
  BY <1>1, FailedGood
<1>6. ASSUME call[c].pc # "record"
      PROVE  /\ Good(c, Missing(c)) /\ Good(c, Replies(c, "conflict"))
             /\ \A pc \in {"match", "write", "state", "why"} : Good(c, Goes(c, pc))
             /\ call[c].stored => Good(c, Goes(c, "ensure")) /\ Good(c, Goes(c, "complete"))
  <2>1. call[c].stored => call[c].resent
    BY <1>2, <1>6 DEF SaveFits
  <2>2. Good(c, Missing(c))
    BY <1>1, <2>1, MissingGood
  <2>3. Good(c, Replies(c, "conflict"))
    BY <1>1, <1>4, <2>1, RepliesGood
  <2>4. ASSUME NEW pc \in {"match", "write", "state", "why"} PROVE Good(c, Goes(c, pc))
    BY <1>1, <1>4, <2>1, GoesGood DEF PcFits
  <2>5. ASSUME call[c].stored PROVE Good(c, Goes(c, "ensure")) /\ Good(c, Goes(c, "complete"))
    BY <1>1, <1>4, <2>1, <2>5, GoesGood DEF PcFits
  <2> QED
    BY <2>2, <2>3, <2>4, <2>5
<1> QED
  BY <1>1, <1>2, <1>3, <1>4, <1>5, <1>6

LEMMA CosmosSavesGood ==
  ASSUME Base, NEW c \in Clients, provider = "cosmosdb", Saves(c)
  PROVE  Good(c, call'[c])
<1>0. Fits(c, call[c], c \in alive) /\ IsCall(call[c]) /\ Keeps
  BY DEF Base, Local, Fits
<1>1. Op(c) = "save" /\ call[c].pc \in {"match", "write", "record", "state", "ensure", "complete"}
  BY <1>0 DEF Saves, MatchVersion, CompareAndSet, WriteRecord, ReadState, EnsureRecord, PutRecord, Fits, PcFits
<1>2. /\ SaveFits(call[c]) /\ Met(c)
      /\ call[c].reply = None /\ {call[c].raw, call[c].resent, call[c].stored, call[c].recorded} \subseteq BOOLEAN
      /\ Good(c, Replies(c, "failed"))
  BY <1>1, SaveGoes
<1>3. call[c].pc # "record" =>
        /\ Good(c, Missing(c)) /\ Good(c, Replies(c, "conflict"))
        /\ Good(c, Goes(c, "match")) /\ Good(c, Goes(c, "write")) /\ Good(c, Goes(c, "state"))
        /\ (call[c].stored => Good(c, Goes(c, "ensure")) /\ Good(c, Goes(c, "complete")))
  BY <1>1, SaveGoes
<1>4. CASE MatchVersion(c)
  <2>1. Good(c, Goes(c, "write")) /\ Good(c, Goes(c, "state"))
    BY <1>3, <1>4 DEF MatchVersion
  <2>2. ASSUME NEW v, NEW w PROVE Good(c, [Goes(c, "write") EXCEPT !.seen = v, !.gate = w])
    BY <1>0, <2>1, GoesWith
  <2> DEFINE matching == {v \in vocabulary[Repo(c)] : v.version = call[c].version}
             cl == [Goes(c, "write") EXCEPT !.seen = matching, !.gate = marker[Repo(c)]]
  <2>3. Good(c, cl)
    BY <2>2
  <2>4. Becomes(c, cl) \/ Becomes(c, Goes(c, "state"))
    BY <1>4 DEF MatchVersion
  <2> HIDE DEF matching, cl
  <2> QED
    BY <1>0, <2>1, <2>3, <2>4, BecomesIs
<1>5. CASE CompareAndSet(c)
  <2>0. call[c].pc = "write"
    BY <1>5 DEF CompareAndSet
  <2>1. Good(c, Goes(c, "match")) /\ Good(c, Goes(c, "state"))
    BY <1>3, <2>0
  <2>2. Good(c, [Goes(c, "record") EXCEPT !.stored = TRUE])
    <3> SUFFICES ASSUME NEW cl, cl = [Goes(c, "record") EXCEPT !.stored = TRUE] PROVE Good(c, cl)
      OBVIOUS
    <3>1. /\ IsCall(cl) /\ cl.pc = "record" /\ cl.reply = None /\ cl.raw = call[c].raw
          /\ cl.resent = call[c].resent /\ cl.stored = TRUE /\ cl.recorded = call[c].recorded
      BY <1>0, <1>2, GoesIs DEF IsCall, Fields
    <3>2. SaveFits(cl)
      BY <3>1 DEF SaveFits, None
    <3>3. PcFits(cl.pc, "save")
      BY <3>1 DEF PcFits
    <3> QED
      BY <1>1, <1>2, <3>1, <3>2, <3>3, SaveGood
  <2>3. Good(c, [Replies(c, "failed") EXCEPT !.stored = TRUE])
    <3> SUFFICES ASSUME NEW cl, cl = [Replies(c, "failed") EXCEPT !.stored = TRUE] PROVE Good(c, cl)
      OBVIOUS
    <3>1. /\ IsCall(cl) /\ cl.pc = "done" /\ cl.reply = "failed" /\ cl.raw = call[c].raw
          /\ cl.resent = call[c].resent /\ cl.stored = TRUE /\ cl.recorded = call[c].recorded
      BY <1>0, RepliesIs DEF IsCall, Fields
    <3>2. SaveFits(cl) /\ PcFits(cl.pc, "save")
      BY <3>1 DEF SaveFits, PcFits
    <3> QED
      BY <1>1, <1>2, <3>1, <3>2, SaveGood
  <2> DEFINE cl == [Goes(c, "record") EXCEPT !.stored = TRUE]
             lost == [Replies(c, "failed") EXCEPT !.stored = TRUE]
  <2>4. Good(c, cl) /\ Good(c, lost)
    BY <2>2, <2>3
  <2>5. Submitted(c, cl, "match") \/ Becomes(c, lost) \/ Becomes(c, Goes(c, "state"))
    BY <1>5 DEF CompareAndSet
  <2> HIDE DEF cl, lost
  <2> QED
    BY <1>0, <2>1, <2>4, <2>5, SubmittedGood, BecomesIs
<1>6. ASSUME call[c].pc \in {"record", "complete"}
      PROVE  Good(c, [Replies(c, "saved") EXCEPT !.recorded = TRUE])
  <2> SUFFICES ASSUME NEW cl, cl = [Replies(c, "saved") EXCEPT !.recorded = TRUE] PROVE Good(c, cl)
    OBVIOUS
  <2>1. /\ IsCall(cl) /\ cl.pc = "done" /\ cl.reply = "saved" /\ cl.raw = call[c].raw
        /\ cl.resent = call[c].resent /\ cl.stored = call[c].stored /\ cl.recorded = TRUE
    BY <1>0, RepliesIs DEF IsCall, Fields
  <2>2. call[c].stored
    BY <1>2, <1>6 DEF SaveFits
  <2>3. SaveFits(cl) /\ PcFits(cl.pc, "save")
    BY <2>1, <2>2 DEF SaveFits, PcFits
  <2> QED
    BY <1>1, <1>2, <2>1, <2>2, <2>3, SaveGood
<1>7. CASE WriteRecord(c)
  <2>1. call[c].pc = "record"
    BY <1>7 DEF WriteRecord
  <2>2. ASSUME NEW stored \in BOOLEAN, NEW recorded \in BOOLEAN, NEW wrote, NEW took,
               NEW caught, call[c].stored => stored
        PROVE  Good(c, [Goes(c, "match") EXCEPT !.resent = TRUE, !.stored = stored,
                          !.recorded = recorded, !.wrote = wrote, !.took = took, !.caught = caught])
    <3> SUFFICES ASSUME NEW cl, cl = [Goes(c, "match") EXCEPT !.resent = TRUE, !.stored = stored,
                                        !.recorded = recorded, !.wrote = wrote, !.took = took,
                                        !.caught = caught]
                 PROVE Good(c, cl)
      OBVIOUS
    <3>1. /\ IsCall(cl) /\ cl.pc = "match" /\ cl.reply = None /\ cl.raw = call[c].raw
          /\ cl.resent = TRUE /\ cl.stored = stored /\ cl.recorded = recorded
      BY <1>0, <1>2, GoesIs DEF IsCall, Fields
    <3>2. SaveFits(cl) /\ PcFits(cl.pc, "save")
      BY <3>1 DEF SaveFits, PcFits, None
    <3> QED
      BY <1>1, <1>2, <2>2, <3>1, <3>2, SaveGood
  <2>3. Good(c, [Goes(c, "match") EXCEPT !.resent = TRUE])
    <3> SUFFICES ASSUME NEW cl, cl = [Goes(c, "match") EXCEPT !.resent = TRUE] PROVE Good(c, cl)
      OBVIOUS
    <3>1. /\ IsCall(cl) /\ cl.pc = "match" /\ cl.reply = None /\ cl.raw = call[c].raw
          /\ cl.resent = TRUE /\ cl.stored = call[c].stored /\ cl.recorded = call[c].recorded
      BY <1>0, <1>2, GoesIs DEF IsCall, Fields
    <3>2. SaveFits(cl) /\ PcFits(cl.pc, "save")
      BY <3>1 DEF SaveFits, PcFits, None
    <3> QED
      BY <1>1, <1>2, <3>1, <3>2, SaveGood
  <2> DEFINE cl == [Replies(c, "saved") EXCEPT !.recorded = TRUE]
  <2>4. Good(c, cl) /\ (call[c].stored => cl.stored) /\ cl.stored \in BOOLEAN /\ cl.recorded \in BOOLEAN
    BY <1>6, <2>1 DEF Good, Fits
  <2>5. Submitted(c, cl, "match") \/ Becomes(c, [Goes(c, "match") EXCEPT !.resent = TRUE])
    BY <1>7 DEF WriteRecord
  <2> HIDE DEF cl
  <2>6. CASE Submitted(c, cl, "match")
    <3>1. \/ Becomes(c, cl)
          \/ Becomes(c, [Goes(c, "match") EXCEPT !.resent = TRUE, !.stored = cl.stored,
                           !.recorded = cl.recorded, !.wrote = cl.wrote, !.took = cl.took,
                           !.caught = cl.caught])
      BY <2>6 DEF Submitted
    <3>2. Good(c, [Goes(c, "match") EXCEPT !.resent = TRUE, !.stored = cl.stored,
                     !.recorded = cl.recorded, !.wrote = cl.wrote, !.took = cl.took,
                     !.caught = cl.caught])
      BY <2>2, <2>4
    <3> QED
      BY <1>0, <2>4, <3>1, <3>2, BecomesIs
  <2> QED
    BY <1>0, <2>3, <2>5, <2>6, BecomesIs
<1>8. CASE ReadState(c)
  <2>0. call[c].pc # "record"
    BY <1>8 DEF ReadState
  <2>1. ASSUME NEW v \in vocabulary[Repo(c)], OwnVocabulary(c, v) PROVE call[c].stored
    <3>1. Repo(c) \in Repositories
      BY <1>1 DEF Base, Requests, Op, Repo, None
    <3> QED
      BY <1>1, <2>1, <3>1 DEF Base, Owned, OwnVocabulary
  <2> QED
    BY <1>0, <1>3, <1>8, <2>0, <2>1, BecomesIs DEF ReadState
<1>9. CASE EnsureRecord(c)
  <2>0. call[c].pc = "ensure" /\ call[c].stored
    BY <1>2, <1>9 DEF EnsureRecord, SaveFits
  <2>1. Good(c, Missing(c)) /\ Good(c, Goes(c, "complete"))
    BY <1>3, <2>0
  <2> DEFINE found == [Goes(c, "complete") EXCEPT !.gate = marker[Repo(c)], !.seen = RecordOf(c)]
  <2>2. Good(c, found)
    <3>1. ASSUME NEW v, NEW w PROVE Good(c, [Goes(c, "complete") EXCEPT !.gate = v, !.seen = w])
      <4>1. Goes(c, "complete").pc # "idle" /\ IsCall(Goes(c, "complete"))
        BY <1>0, GoesIs
      <4> DEFINE Alike(d) == DOMAIN d = DOMAIN Goes(c, "complete") /\ \A f \in Seen : d[f] = Goes(c, "complete")[f]
      <4>0. \A d : Alike(d) => Good(c, d)
        BY <2>1, <4>1, AlikeGood
      <4>2. Alike([Goes(c, "complete") EXCEPT !.gate = v, !.seen = w])
        BY <4>1 DEF IsCall, Fields, Seen
      <4> HIDE DEF Alike
      <4> QED
        BY <4>0, <4>2
    <3> QED
      BY <3>1
  <2>3. Becomes(c, found) \/ Becomes(c, Missing(c))
    BY <1>9 DEF EnsureRecord
  <2> HIDE DEF found
  <2> QED
    BY <1>0, <2>1, <2>2, <2>3, BecomesIs
<1>10. CASE PutRecord(c)
  <2>0. call[c].pc = "complete" /\ call[c].stored
    BY <1>2, <1>10 DEF PutRecord, SaveFits
  <2>1. Good(c, Goes(c, "ensure"))
    BY <1>3, <2>0
  <2> DEFINE cl == [Replies(c, "saved") EXCEPT !.recorded = TRUE]
  <2>2. Good(c, cl) /\ cl.stored
    BY <1>6, <2>0 DEF Good
  <2>3. Submitted(c, cl, "ensure") \/ Becomes(c, Replies(c, "failed"))
    BY <1>10 DEF PutRecord
  <2> HIDE DEF cl
  <2> QED
    BY <1>0, <1>2, <2>1, <2>2, <2>3, SubmittedGood, BecomesIs
<1> QED
  BY <1>4, <1>5, <1>7, <1>8, <1>9, <1>10 DEF Saves

-----------------------------------------------------------------------------
(* Imports.                                                                *)

\* A row that is written, refused or sent again leaves its chunk where it stands.
Alters(cl, d) ==
  /\ DOMAIN d = DOMAIN cl
  /\ d.pc = cl.pc /\ d.reply = cl.reply /\ d.raw = cl.raw /\ d.stored = cl.stored
  /\ d.recorded = cl.recorded /\ d.gate = cl.gate
  /\ d.resent \in {cl.resent, TRUE}
  /\ d.stopped = cl.stopped \/ (cl.stopped = None /\ d.stopped = "failed")
  /\ DOMAIN d.chunks = DOMAIN cl.chunks
  /\ \A k \in DOMAIN cl.chunks : "pc" \in DOMAIN cl.chunks[k] =>
       "pc" \in DOMAIN d.chunks[k] /\ d.chunks[k].pc = cl.chunks[k].pc
  /\ \A k \in DOMAIN cl.chunks : "rows" \in DOMAIN cl.chunks[k] =>
       "rows" \in DOMAIN d.chunks[k] /\ DOMAIN d.chunks[k].rows = DOMAIN cl.chunks[k].rows

LEMMA AltersGood ==
  ASSUME Base, NEW c \in Clients, call[c].pc = "importing", NEW d, Alters(call[c], d)
  PROVE  Good(c, d)
<1>1. Fits(c, call[c], c \in alive)
  BY DEF Base, Local
<1>2. IsCall(d) /\ Op(c) = "import" /\ ImportFits(call[c], c \in alive)
  BY <1>1 DEF Alters, Fits, PcFits, IsCall
<1>3. {d.raw, d.resent, d.stored, d.recorded} \subseteq BOOLEAN /\ d.reply = None /\ d.pc = "importing"
  BY <1>1 DEF Alters, Fits
<1>4. ImportFits(d, Met(c))
  BY <1>2 DEF Alters, ImportFits, Met
<1>5. PcFits(d.pc, Op(c)) /\ Looked(d, Met(c)) /\ (call[c].stored => d.stored)
  BY <1>2, <1>3 DEF PcFits, Looked, Blind, Alters
<1> QED
  BY <1>2, <1>3, <1>4, <1>5 DEF Good, Fits

LEMMA AltersTwice ==
  ASSUME NEW cl, NEW d, NEW e, Alters(cl, d), Alters(d, e)
  PROVE  Alters(cl, e)
BY DEF Alters

LEMMA RowAlters ==
  ASSUME NEW cl, IsCall(cl), NEW k, NEW j, NEW v, NEW w
  PROVE  /\ Alters(cl, [cl EXCEPT !.chunks[k].rows[j].at = v])
         /\ Alters(cl, [cl EXCEPT !.chunks[k].rows[j].at = v, !.chunks[k].rows[j].throttled = w])
         /\ Alters(cl, [cl EXCEPT !.chunks[k].rows[j].at = v, !.chunks[k].rows[j].attempt = w])
         /\ Alters(cl, [cl EXCEPT !.chunks[k].rows[j].at = v, !.chunks[k].retry = Append(@, j)])
         /\ Alters(cl, [cl EXCEPT !.chunks[k].retry = v, !.chunks[k].rows[j] = w])
<1>1. Alters(cl, [cl EXCEPT !.chunks[k].rows[j].at = v])
  BY DEF Alters, IsCall, Fields
<1>2. Alters(cl, [cl EXCEPT !.chunks[k].rows[j].at = v, !.chunks[k].rows[j].throttled = w])
  BY DEF Alters, IsCall, Fields
<1>3. Alters(cl, [cl EXCEPT !.chunks[k].rows[j].at = v, !.chunks[k].rows[j].attempt = w])
  BY DEF Alters, IsCall, Fields
<1>4. Alters(cl, [cl EXCEPT !.chunks[k].rows[j].at = v, !.chunks[k].retry = Append(@, j)])
  BY DEF Alters, IsCall, Fields
<1>5. Alters(cl, [cl EXCEPT !.chunks[k].retry = v, !.chunks[k].rows[j] = w])
  BY DEF Alters, IsCall, Fields
<1> QED
  BY <1>1, <1>2, <1>3, <1>4, <1>5

LEMMA CallAlters ==
  ASSUME NEW cl, IsCall(cl), NEW v
  PROVE  /\ Alters(cl, cl) /\ Alters(cl, StopsImport(cl)) /\ Alters(cl, Noted(cl, v))
         /\ Alters(cl, WroteRow(cl, v)) /\ Alters(cl, [cl EXCEPT !.resent = TRUE])
<1>1. Alters(cl, cl)
  BY DEF Alters
<1>2. ASSUME NEW d, IsCall(d) PROVE Alters(d, StopsImport(d))
  BY <1>2 DEF Alters, StopsImport, IsCall, Fields
<1>3. Alters(cl, [cl EXCEPT !.control = v])
  BY DEF Alters, IsCall, Fields
<1>4. Alters(cl, Noted(cl, v))
  <2>1. IsCall([cl EXCEPT !.control = v])
    BY DEF IsCall
  <2>2. Alters([cl EXCEPT !.control = v], StopsImport([cl EXCEPT !.control = v]))
    BY <1>2, <2>1
  <2> QED
    BY <1>3, <2>2, AltersTwice DEF Noted
<1>5. Alters(cl, WroteRow(cl, v)) /\ Alters(cl, [cl EXCEPT !.resent = TRUE])
  BY DEF Alters, WroteRow, IsCall, Fields
<1> QED
  BY <1>1, <1>2, <1>4, <1>5

LEMMA RowAlone ==
  ASSUME NEW c, NEW cl, IsCall(cl), NEW k, NEW j, NEW how,
         RowOver(cl, c, k, j, how) \/ RowAgain(cl, c, k, j) \/ RowResent(cl, c, k, j)
  PROVE  \E d : Alters(cl, d) /\ Becomes(c, d)
<1>1. \A d : Alters(cl, d) => IsCall(d)
  BY DEF Alters, IsCall
<1>2. CASE RowOver(cl, c, k, j, how)
  <2> DEFINE over == [cl EXCEPT !.chunks[k].rows[j].at = how]
  <2>1. Alters(cl, over)
    BY RowAlters
  <2>2. \E ctl : Becomes(c, Noted(over, ctl))
    BY <1>2 DEF RowOver
  <2> HIDE DEF over
  <2>3. PICK ctl : Becomes(c, Noted(over, ctl))
    BY <2>2
  <2>4. Alters(over, Noted(over, ctl))
    BY <1>1, <2>1, CallAlters
  <2> QED
    BY <2>1, <2>3, <2>4, AltersTwice
<1>3. CASE RowAgain(cl, c, k, j)
  <2> DEFINE again == [cl EXCEPT !.chunks[k].rows[j].at = "queued", !.chunks[k].retry = Append(@, j)]
  <2>1. Alters(cl, again)
    BY RowAlters
  <2>2. Becomes(c, Noted(again, NoteThrottle(cl.control)))
    BY <1>3 DEF RowAgain
  <2> HIDE DEF again
  <2>4. Alters(again, Noted(again, NoteThrottle(cl.control)))
    BY <1>1, <2>1, CallAlters
  <2> QED
    BY <2>1, <2>2, <2>4, AltersTwice
<1>4. CASE RowResent(cl, c, k, j)
  <2> DEFINE sent == [cl EXCEPT !.chunks[k].rows[j].at = "sent", !.chunks[k].rows[j].throttled = TRUE]
  <2>1. Alters(cl, sent)
    BY RowAlters
  <2>2. Becomes(c, sent)
    BY <1>4 DEF RowResent
  <2> QED
    BY <2>1, <2>2
<1> QED
  BY <1>2, <1>3, <1>4

\* An import that has met the marker may do anything with its chunks.
LEMMA MetImportGood ==
  ASSUME Base, NEW c \in Clients, call[c].pc = "importing", Met(c), NEW d, IsCall(d),
         d.pc = "importing", d.reply = call[c].reply, d.raw = call[c].raw, d.stored = call[c].stored,
         d.recorded = call[c].recorded, d.resent = call[c].resent,
         d.stopped \in {None, "missing", "failed"},
         \A k \in DOMAIN d.chunks : "pc" \in DOMAIN d.chunks[k]
  PROVE  Good(c, d)
<1>1. Fits(c, call[c], c \in alive)
  BY DEF Base, Local
<1>2. ImportFits(d, Met(c)) /\ Looked(d, Met(c))
  BY DEF ImportFits, Looked
<1>3. Op(c) = "import" /\ PcFits(d.pc, Op(c))
  BY <1>1 DEF Fits, PcFits
<1> QED
  BY <1>1, <1>2, <1>3 DEF Good, Fits

LEMMA ImportReplies ==
  ASSUME Base, NEW c \in Clients, Op(c) = "import", call[c].pc # "done"
  PROVE  /\ Good(c, Missing(c)) /\ Good(c, Replies(c, "failed"))
         /\ Met(c) => \A reply \in {"imported", "refused"} : Good(c, Replies(c, reply))
         /\ call[c].pc = "importing" /\ call[c].stopped # None => Good(c, Replies(c, call[c].stopped))
<1>1. Fits(c, call[c], c \in alive)
  BY DEF Base, Local
<1>2. call[c].pc = "importing" => call[c].stopped \in {None, "missing", "failed"}
  BY <1>1 DEF Fits, ImportFits
<1> QED
  BY <1>1, <1>2, MissingGood, FailedGood, RepliesGood

LEMMA OpensGood ==
  ASSUME Base, NEW c \in Clients, Op(c) = "import", call[c].pc = "idle", NEW d, IsCall(d),
         d.pc = "importing",
         \A f \in {"reply", "raw", "stopped", "resent", "stored", "recorded"} : d[f] = call[c][f],
         \A k \in DOMAIN d.chunks : "pc" \in DOMAIN d.chunks[k] /\ d.chunks[k].pc = "waiting"
  PROVE  Good(c, d)
<1>1. call[c] = NoCall
  BY DEF Base, Local, Fits
<1>2. /\ d.reply = None /\ d.raw = FALSE /\ d.stopped = None /\ d.resent = FALSE /\ d.stored = FALSE
      /\ d.recorded = FALSE /\ call[c].stored = FALSE
  <2>1. /\ d.reply = call[c].reply /\ d.raw = call[c].raw /\ d.stopped = call[c].stopped
        /\ d.resent = call[c].resent /\ d.stored = call[c].stored /\ d.recorded = call[c].recorded
    OBVIOUS
  <2>2. /\ NoCall.reply = None /\ NoCall.raw = FALSE /\ NoCall.stopped = None /\ NoCall.resent = FALSE
        /\ NoCall.stored = FALSE /\ NoCall.recorded = FALSE
    BY DEF NoCall
  <2> QED
    BY <1>1, <2>1, <2>2
<1>3. ImportFits(d, Met(c)) /\ Looked(d, Met(c)) /\ PcFits(d.pc, Op(c))
  BY <1>2 DEF ImportFits, Looked, Blind, PcFits
<1> QED
  BY <1>2, <1>3 DEF Good, Fits

LEMMA RowStepAlters ==
  ASSUME NEW c, IsCall(call[c]), NEW k,
         \/ DispatchRow(c, k)
         \/ \E j : FindRow(c, k, j) \/ LandRow(c, k, j) \/ RowTrouble(c, k, j)
  PROVE  \E d : Alters(call[c], d) /\ Becomes(c, d)
<1>1. ASSUME NEW d, Alters(call[c], d), Becomes(c, d) PROVE \E e : Alters(call[c], e) /\ Becomes(c, e)
  BY <1>1
<1>2. CASE DispatchRow(c, k)
  <2>1. \E v, j, w : Becomes(c, [call[c] EXCEPT !.chunks[k].retry = v, !.chunks[k].rows[j] = w])
    BY <1>2 DEF DispatchRow
  <2>2. PICK v, j, w : Becomes(c, [call[c] EXCEPT !.chunks[k].retry = v, !.chunks[k].rows[j] = w])
    BY <2>1
  <2>3. Alters(call[c], [call[c] EXCEPT !.chunks[k].retry = v, !.chunks[k].rows[j] = w])
    BY RowAlters
  <2> QED
    BY <1>1, <1>2, <2>2, <2>3
<1>3. ASSUME NEW j, FindRow(c, k, j) PROVE \E d : Alters(call[c], d) /\ Becomes(c, d)
  <2> DEFINE wrote == WroteRow(call[c], <<k, j>>)
             landing == [call[c] EXCEPT !.chunks[k].rows[j].at = "landing"]
  <2>1. \/ RowOver(call[c], c, k, j, "refused") \/ RowOver(wrote, c, k, j, "written")
        \/ Becomes(c, landing)
    BY <1>3 DEF FindRow
  <2>2. Alters(call[c], wrote) /\ Alters(call[c], landing)
    BY CallAlters, RowAlters
  <2> HIDE DEF wrote, landing
  <2>3. IsCall(wrote)
    BY <2>2 DEF Alters, IsCall
  <2>4. CASE RowOver(call[c], c, k, j, "refused")
    BY <1>1, <1>3, <2>4, RowAlone
  <2>5. CASE RowOver(wrote, c, k, j, "written")
    <3>1. PICK d : Alters(wrote, d) /\ Becomes(c, d)
      BY <2>3, <2>5, RowAlone
    <3> QED
      BY <1>1, <1>3, <2>2, <3>1, AltersTwice
  <2> QED
    BY <1>1, <1>3, <2>1, <2>2, <2>4, <2>5
<1>4. ASSUME NEW j, LandRow(c, k, j) PROVE \E d : Alters(call[c], d) /\ Becomes(c, d)
  <2> DEFINE wrote == WroteRow(call[c], <<k, j>>)
             again == [wrote EXCEPT !.resent = TRUE]
             sent == [call[c] EXCEPT !.chunks[k].rows[j].at = "sent", !.chunks[k].rows[j].attempt = 2]
             failed == [call[c] EXCEPT !.chunks[k].rows[j].at = "failed"]
  <2>1. \/ RowOver(wrote, c, k, j, "written") \/ RowResent(again, c, k, j) \/ RowAgain(again, c, k, j)
        \/ Becomes(c, sent) \/ RowOver(call[c], c, k, j, "refused") \/ Becomes(c, StopsImport(failed))
    BY <1>4 DEF LandRow
  <2>2. Alters(call[c], wrote) /\ Alters(call[c], sent) /\ Alters(call[c], failed)
    BY CallAlters, RowAlters
  <2>3. IsCall(wrote) /\ IsCall(failed)
    BY <2>2 DEF Alters, IsCall
  <2>4. Alters(call[c], again) /\ IsCall(again)
    <3> HIDE DEF wrote
    <3>1. Alters(wrote, again)
      BY <2>3, CallAlters
    <3> HIDE DEF again
    <3>2. Alters(call[c], again)
      BY <2>2, <3>1, AltersTwice
    <3>3. IsCall(again)
      BY <3>2 DEF Alters, IsCall
    <3> QED
      BY <3>2, <3>3
  <2>5. Alters(call[c], StopsImport(failed))
    <3> HIDE DEF failed
    <3>1. Alters(failed, StopsImport(failed))
      BY <2>3, CallAlters
    <3> QED
      BY <2>2, <3>1, AltersTwice
  <2> HIDE DEF wrote, again, sent, failed
  <2>6. ASSUME NEW cl \in {call[c], wrote, again},
               RowOver(cl, c, k, j, "written") \/ RowOver(cl, c, k, j, "refused")
                 \/ RowAgain(cl, c, k, j) \/ RowResent(cl, c, k, j)
        PROVE  \E d : Alters(call[c], d) /\ Becomes(c, d)
    <3>1. IsCall(cl) /\ (cl = call[c] \/ Alters(call[c], cl))
      BY <2>2, <2>3, <2>4, <2>6
    <3>2. \E d : Alters(cl, d) /\ Becomes(c, d)
      BY <2>6, <3>1, RowAlone
    <3>3. PICK d : Alters(cl, d) /\ Becomes(c, d)
      BY <3>2
    <3> QED
      BY <1>1, <1>4, <3>1, <3>3, AltersTwice
  <2> QED
    BY <1>1, <1>4, <2>1, <2>2, <2>5, <2>6
<1>5. ASSUME NEW j, RowTrouble(c, k, j) PROVE \E d : Alters(call[c], d) /\ Becomes(c, d)
  <2> DEFINE failed == [call[c] EXCEPT !.chunks[k].rows[j].at = "failed"]
  <2>1. RowResent(call[c], c, k, j) \/ RowAgain(call[c], c, k, j) \/ Becomes(c, StopsImport(failed))
    BY <1>5 DEF RowTrouble
  <2>2. Alters(call[c], failed)
    BY RowAlters
  <2> HIDE DEF failed
  <2>3. Alters(call[c], StopsImport(failed))
    <3>1. IsCall(failed)
      BY <2>2 DEF Alters, IsCall
    <3>2. Alters(failed, StopsImport(failed))
      BY <3>1, CallAlters
    <3> QED
      BY <2>2, <3>2, AltersTwice
  <2>4. CASE RowResent(call[c], c, k, j) \/ RowAgain(call[c], c, k, j)
    <3>1. \E d : Alters(call[c], d) /\ Becomes(c, d)
      BY <2>4, RowAlone
    <3> QED
      BY <1>1, <1>5, <3>1
  <2> QED
    BY <1>1, <1>5, <2>1, <2>3, <2>4
<1> QED
  BY <1>2, <1>3, <1>4, <1>5

LEMMA CosmosImportsGood ==
  ASSUME Base, NEW c \in Clients, provider = "cosmosdb", CosmosImportStep(c) \/ CosmosImportTrouble(c)
  PROVE  Good(c, call'[c])
<1>0. Fits(c, call[c], c \in alive) /\ IsCall(call[c]) /\ Keeps
  BY DEF Base, Local, Fits
<1>1. CASE OpenImport(c)
  <2> DEFINE d == [Goes(c, "importing") EXCEPT
                     !.control = NewController,
                     !.chunks = [k \in DOMAIN request[c].chunks |->
                       [pc |-> "waiting", retry |-> <<>>,
                        rows |-> [j \in DOMAIN request[c].chunks[k] |-> NewRow]]]]
  <2>1. Op(c) = "import" /\ call[c].pc = "idle" /\ Becomes(c, d)
    BY <1>1 DEF OpenImport
  <2>2. /\ IsCall(d) /\ d.pc = "importing"
        /\ \A f \in {"reply", "raw", "stopped", "resent", "stored", "recorded"} : d[f] = call[c][f]
        /\ d.chunks = [k \in DOMAIN request[c].chunks |->
             [pc |-> "waiting", retry |-> <<>>,
              rows |-> [j \in DOMAIN request[c].chunks[k] |-> NewRow]]]
    BY <1>0, GoesIs DEF IsCall, Fields
  <2>3. \A k \in DOMAIN d.chunks : "pc" \in DOMAIN d.chunks[k] /\ d.chunks[k].pc = "waiting"
    BY <2>2
  <2> HIDE DEF d
  <2> QED
    BY <1>0, <2>1, <2>2, <2>3, OpensGood, BecomesIs
<1>2. ASSUME call[c].pc = "importing"
      PROVE  /\ Op(c) = "import" /\ ImportFits(call[c], c \in alive)
             /\ \A d : Alters(call[c], d) /\ Becomes(c, d) => Good(c, call'[c])
             /\ Becomes(c, Missing(c)) => Good(c, call'[c])
  <2>1. Op(c) = "import" /\ ImportFits(call[c], c \in alive)
    BY <1>0, <1>2 DEF Fits, PcFits
  <2>2. ASSUME NEW d, Alters(call[c], d), Becomes(c, d) PROVE Good(c, call'[c])
    BY <1>0, <1>2, <2>2, AltersGood, BecomesIs
  <2>3. Becomes(c, Missing(c)) => Good(c, call'[c])
    BY <1>0, <1>2, <2>1, ImportReplies, BecomesIs
  <2> QED
    BY <2>1, <2>2, <2>3
<1>3. CASE CloseImport(c)
  <2>1. call[c].pc = "importing" /\ \A k \in DOMAIN call[c].chunks : call[c].chunks[k].pc = "over"
    BY <1>3 DEF CloseImport
  <2>2. CASE Becomes(c, Missing(c))
    BY <1>2, <2>1, <2>2
  <2>3. CASE (DOMAIN call[c].chunks # {} \/ Gate(c)) /\ Becomes(c, Replies(c, "imported"))
    <3>1. Met(c)
      BY <1>2, <2>1, <2>3 DEF ImportFits, Gate, Met
    <3> QED
      BY <1>0, <1>2, <2>1, <2>3, <3>1, ImportReplies, BecomesIs
  <2> QED
    BY <1>3, <2>2, <2>3 DEF CloseImport
<1>4. ASSUME call[c].pc = "importing", NEW k \in DOMAIN call[c].chunks, CheckChunk(c, k)
      PROVE  Good(c, call'[c])
  <2> DEFINE d == [call[c] EXCEPT !.chunks[k].pc = "pool", !.gate = marker[Repo(c)]]
  <2>1. Becomes(c, Missing(c)) \/ (Gate(c) /\ Becomes(c, d))
    BY <1>4 DEF CheckChunk
  <2>2. CASE Gate(c) /\ Becomes(c, d)
    <3>1. Met(c)
      BY <2>2 DEF Gate, Met
    <3>2. /\ IsCall(d) /\ d.pc = "importing" /\ d.reply = call[c].reply /\ d.raw = call[c].raw
          /\ d.stored = call[c].stored /\ d.recorded = call[c].recorded /\ d.resent = call[c].resent
          /\ d.stopped = call[c].stopped /\ d.chunks = [call[c].chunks EXCEPT ![k].pc = "pool"]
      BY <1>0, <1>4 DEF IsCall, Fields
    <3>3. d.stopped \in {None, "missing", "failed"} /\ \A i \in DOMAIN d.chunks : "pc" \in DOMAIN d.chunks[i]
      BY <1>2, <1>4, <3>2 DEF ImportFits
    <3> HIDE DEF d
    <3> QED
      BY <1>0, <1>4, <2>2, <3>1, <3>2, <3>3, MetImportGood, BecomesIs
  <2> QED
    BY <1>2, <1>4, <2>1, <2>2
<1>5. ASSUME call[c].pc = "importing", NEW k \in DOMAIN call[c].chunks,
             \/ DispatchRow(c, k)
             \/ \E j \in DOMAIN call[c].chunks[k].rows : FindRow(c, k, j) \/ LandRow(c, k, j) \/ RowTrouble(c, k, j)
      PROVE  Good(c, call'[c])
  BY <1>0, <1>2, <1>5, RowStepAlters
<1>6. ASSUME call[c].pc = "importing", NEW k \in DOMAIN call[c].chunks, PoolEnds(c, k)
      PROVE  Good(c, call'[c])
  <2> DEFINE told == {row \in RowsOf(c, k) : call[c].chunks[k].rows[row[2]].at # "refused"}
             d == [call[c] EXCEPT !.chunks[k].pc = "over", !.told = @ \cup told]
  <2>1. \/ call[c].stopped # None /\ Becomes(c, Replies(c, call[c].stopped))
        \/ Becomes(c, d)
    BY <1>6 DEF PoolEnds
  <2>2. call[c].chunks[k].pc = "pool" /\ Met(c)
    BY <1>2, <1>6 DEF PoolEnds, ImportFits, Met
  <2> HIDE DEF told
  <2>3. /\ IsCall(d) /\ d.pc = "importing" /\ d.reply = call[c].reply /\ d.raw = call[c].raw
        /\ d.stored = call[c].stored /\ d.recorded = call[c].recorded /\ d.resent = call[c].resent
        /\ d.stopped = call[c].stopped /\ d.chunks = [call[c].chunks EXCEPT ![k].pc = "over"]
    BY <1>0, <1>6 DEF IsCall, Fields
  <2>4. d.stopped \in {None, "missing", "failed"} /\ \A i \in DOMAIN d.chunks : "pc" \in DOMAIN d.chunks[i]
    BY <1>2, <1>6, <2>3 DEF ImportFits
  <2> HIDE DEF d
  <2>5. Good(c, d)
    BY <1>6, <2>2, <2>3, <2>4, MetImportGood
  <2>6. call[c].stopped # None => Good(c, Replies(c, call[c].stopped))
    BY <1>2, <1>6, ImportReplies
  <2> QED
    BY <1>0, <2>1, <2>5, <2>6, BecomesIs
<1> QED
  BY <1>1, <1>3, <1>4, <1>5, <1>6 DEF CosmosImportStep, CosmosImportTrouble

-----------------------------------------------------------------------------
(* Neo4j.                                                                  *)

LEMMA Neo4jCreatesGood ==
  ASSUME Base, NEW c \in Clients, CreateRepository(c) \/ ReadRepositoryToken(c)
  PROVE  Good(c, call'[c])
<1>0. Fits(c, call[c], c \in alive) /\ IsCall(call[c]) /\ Keeps
  BY DEF Base, Local, Fits
<1>1. Op(c) = "create" /\ call[c].pc \in {"idle", "again", "marker token"}
  BY <1>0 DEF CreateRepository, ReadRepositoryToken, Fits, PcFits
<1>2. /\ Good(c, Goes(c, "again")) /\ Good(c, Goes(c, "marker token"))
      /\ \A x : x # "deleted" => Good(c, Replies(c, x))
  BY <1>1, CreateGood DEF PcFits
<1>3. Good(c, ByToken(c))
  BY <1>2 DEF ByToken
<1>4. CASE CreateRepository(c)
  BY <1>0, <1>2, <1>3, <1>4, SubmittedGood, BecomesIs DEF CreateRepository
<1>5. CASE ReadRepositoryToken(c)
  BY <1>0, <1>3, <1>5, BecomesIs DEF ReadRepositoryToken
<1> QED
  BY <1>4, <1>5

\* A call that deletes, or clears, and goes on.
Draining == {"relationships", "entities", "log", "rest"}

LEMMA DrainGood ==
  ASSUME Base, NEW c \in Clients, Op(c) \in {"delete", "clear"}, call[c].pc \in Draining,
         NEW d, IsCall(d), d.pc \in Draining \cup {"last"}, PcFits(d.pc, Op(c)),
         d.reply = call[c].reply, d.resent = call[c].resent, d.stored = call[c].stored,
         d.recorded = call[c].recorded, d.raw \in BOOLEAN, call[c].raw => d.raw,
         d.events = call[c].events \/ (Op(c) = "delete" => d.raw /\ d.events = Going)
  PROVE  Good(c, d)
<1>1. Fits(c, call[c], c \in alive)
  BY DEF Base, Local
<1>2. {d.raw, d.resent, d.stored, d.recorded} \subseteq BOOLEAN /\ d.reply = None
  BY <1>1 DEF Fits, Draining
<1>3. ASSUME Op(c) = "delete" PROVE EventsFit(d, Met(c))
  <2>1. EventsFit(call[c], c \in alive) /\ call[c].pc # "done" /\ d.pc \notin {"done", "drop", "probe", "anything"}
    BY <1>1, <1>3 DEF Fits, Draining
  <2>2. Going \notin Ended
    BY DEF Going, Ended
  <2> QED
    BY <1>2, <1>3, <2>1, <2>2 DEF EventsFit, None, Met
<1>4. ASSUME Op(c) = "clear" PROVE Looked(d, Met(c))
  BY <1>4, HasMet DEF Looked, Draining, Blind
<1> QED
  BY <1>2, <1>3, <1>4 DEF Good, Fits, Draining

LEMMA DrainsGood ==
  ASSUME Base, NEW c \in Clients, call[c].pc # "done", NEW r, NEW gone, NEW d, Good(c, d),
         Drains(c, r, gone, d)
  PROVE  Good(c, call'[c])
<1>1. Fits(c, call[c], c \in alive) /\ Keeps
  BY DEF Base, Local
<1>2. Becomes(c, d) \/ Becomes(c, Replies(c, "failed"))
  BY DEF Drains
<1> QED
  BY <1>1, <1>2, FailedGood, BecomesIs

LEMMA ToldGood ==
  ASSUME Base, NEW c \in Clients, Op(c) \in {"delete", "clear"}, call[c].pc \in Draining,
         NEW gone, NEW n
  PROVE  /\ Good(c, Took(c, gone)) /\ Good(c, Told(c, gone)) /\ Good(c, [Told(c, gone) EXCEPT !.after = n])
         /\ Good(c, [Told(c, gone) EXCEPT !.pc = "entities"])
<1>1. Fits(c, call[c], c \in alive) /\ IsCall(call[c])
  BY DEF Base, Local, Fits
<1>2. Op(c) = "delete" => Progressed(call[c]) = Going
  <2>1. Op(c) = "delete" => call[c].events \in {<<>>, Begun, Going}
    BY <1>1 DEF Fits, EventsFit, Draining
  <2> QED
    BY <2>1, EventsGoOn
<1>3. PcFits(call[c].pc, Op(c)) /\ PcFits("entities", Op(c)) /\ call[c].raw \in BOOLEAN
  BY <1>1 DEF Fits, PcFits
<1>4. ASSUME NEW d, d \in {Took(c, gone), Told(c, gone)}
      PROVE  /\ IsCall(d) /\ d.pc = call[c].pc /\ d.reply = call[c].reply /\ d.resent = call[c].resent
             /\ d.stored = call[c].stored /\ d.recorded = call[c].recorded
             /\ d.raw \in BOOLEAN /\ (call[c].raw => d.raw)
             /\ d.events = call[c].events \/ (Op(c) = "delete" => d.raw /\ d.events = Going)
  <2> DEFINE took == [call[c] EXCEPT !.raw = @ \/ gone # {}]
             told == [took EXCEPT !.events = Progressed(call[c])]
  <2>1. /\ IsCall(took) /\ took.pc = call[c].pc /\ took.reply = call[c].reply /\ took.resent = call[c].resent
        /\ took.stored = call[c].stored /\ took.recorded = call[c].recorded
        /\ took.raw \in BOOLEAN /\ (call[c].raw => took.raw) /\ (gone # {} => took.raw)
        /\ took.events = call[c].events
    BY <1>1, <1>3 DEF IsCall, Fields
  <2> HIDE DEF took
  <2>2. /\ IsCall(told) /\ told.pc = took.pc /\ told.reply = took.reply /\ told.resent = took.resent
        /\ told.stored = took.stored /\ told.recorded = took.recorded /\ told.raw = took.raw
        /\ told.events = Progressed(call[c])
    BY <2>1 DEF IsCall, Fields
  <2> HIDE DEF told
  <2>3. d = took \/ (d = told /\ gone # {} /\ Op(c) = "delete")
    BY <1>4 DEF Told, Took, told, took
  <2> QED
    BY <1>2, <2>1, <2>2, <2>3
<1>5. ASSUME NEW d, d \in {Took(c, gone), Told(c, gone)}
      PROVE  Good(c, d) /\ Good(c, [d EXCEPT !.after = n]) /\ Good(c, [d EXCEPT !.pc = "entities"])
  <2>1. /\ IsCall(d) /\ d.pc = call[c].pc /\ d.reply = call[c].reply /\ d.resent = call[c].resent
        /\ d.stored = call[c].stored /\ d.recorded = call[c].recorded
        /\ d.raw \in BOOLEAN /\ (call[c].raw => d.raw)
        /\ d.events = call[c].events \/ (Op(c) = "delete" => d.raw /\ d.events = Going)
    BY <1>4, <1>5
  <2>2. Good(c, d)
    BY <1>3, <2>1, DrainGood
  <2>3. ASSUME NEW e, e \in {[d EXCEPT !.after = n], [d EXCEPT !.pc = "entities"]} PROVE Good(c, e)
    <3>1. /\ IsCall(e) /\ e.pc \in {d.pc, "entities"} /\ e.reply = d.reply /\ e.resent = d.resent
          /\ e.stored = d.stored /\ e.recorded = d.recorded /\ e.raw = d.raw /\ e.events = d.events
      BY <2>1, <2>3 DEF IsCall, Fields
    <3>2. e.pc \in Draining /\ PcFits(e.pc, Op(c))
      BY <1>3, <2>1, <3>1 DEF Draining
    <3> QED
      BY <2>1, <3>1, <3>2, DrainGood
  <2> QED
    BY <2>2, <2>3
<1> QED
  BY <1>5

LEMMA DrainNodesGood ==
  ASSUME Base, NEW c \in Clients, Op(c) \in {"delete", "clear"}, call[c].pc \in Draining,
         NEW nodes, NEW next, Good(c, next), DrainNodes(c, nodes, next)
  PROVE  Good(c, call'[c])
<1>1. CASE Becomes(c, next)
  BY <1>1, BecomesIs DEF Base
<1>2. CASE nodes # {} /\ \E batch \in Batches(nodes) :
             Drains(c, Repo(c), batch, IF call[c].pc = "entities" THEN Told(c, batch) ELSE Took(c, batch))
  <2>1. PICK batch, d : d \in {Told(c, batch), Took(c, batch)} /\ Drains(c, Repo(c), batch, d)
    BY <1>2
  <2>2. Good(c, d)
    BY <2>1, ToldGood
  <2> QED
    BY <2>1, <2>2, DrainsGood DEF Draining
<1> QED
  BY <1>1, <1>2 DEF DrainNodes

LEMMA Neo4jDeletesGood ==
  ASSUME Base, NEW c \in Clients, provider = "neo4j",
         \/ DetachMarker(c) \/ DrainRelationships(c) \/ DetachEntities(c) \/ DrainChangeLog(c)
         \/ SweepNodes(c) \/ DetachVocabulary(c) \/ AssertBeforeClear(c)
  PROVE  Good(c, call'[c])
<1>0. Fits(c, call[c], c \in alive) /\ IsCall(call[c]) /\ Keeps
  BY DEF Base, Local, Fits
<1>1. CASE DetachMarker(c)
  <2>1. call[c].pc = "drop" /\ Op(c) = "delete"
    BY <1>0, <1>1 DEF DetachMarker, Fits, PcFits
  <2>2. Good(c, Goes(c, "drop"))
    BY <2>1, DeleteGood DEF PcFits
  <2>3. EventsFit(call[c], c \in alive) /\ {call[c].resent, call[c].stored, call[c].recorded} \subseteq BOOLEAN
        /\ call[c].reply = None
    BY <1>0, <2>1 DEF Fits
  <2> DEFINE d == [Goes(c, "relationships") EXCEPT !.raw = marker[Repo(c)] # None]
  <2>4. /\ IsCall(d) /\ d.pc = "relationships" /\ d.reply = None /\ d.raw \in BOOLEAN
        /\ d.resent = call[c].resent /\ d.stored = call[c].stored /\ d.recorded = call[c].recorded
        /\ d.events = call[c].events
    BY <1>0, <2>3, GoesIs DEF IsCall, Fields
  <2>5. Submitted(c, d, "drop")
    BY <1>1 DEF DetachMarker
  <2> HIDE DEF d
  <2>6. EventsFit(d, Met(c)) /\ PcFits(d.pc, Op(c))
    BY <2>1, <2>3, <2>4 DEF EventsFit, PcFits, None, Met
  <2>7. Good(c, d)
    BY <2>1, <2>3, <2>4, <2>6 DEF Good, Fits
  <2> QED
    BY <1>0, <2>2, <2>5, <2>7, SubmittedGood
<1>2. CASE DrainRelationships(c)
  <2>1. call[c].pc = "relationships" /\ call[c].pc \in Draining /\ Op(c) \in {"delete", "clear"}
    BY <1>0, <1>2 DEF DrainRelationships, Fits, PcFits, Draining
  <2>2. PICK edges : Drains(c, Repo(c), edges,
               Turned(Told(c, edges), Page(c), edges, [Told(c, edges) EXCEPT !.pc = "entities"]))
    BY <1>2 DEF DrainRelationships
  <2> DEFINE d == Turned(Told(c, edges), Page(c), edges, [Told(c, edges) EXCEPT !.pc = "entities"])
  <2>3. PICK n : d \in {Told(c, edges), [Told(c, edges) EXCEPT !.pc = "entities"],
                        [Told(c, edges) EXCEPT !.after = n]}
    BY DEF Turned
  <2>4. /\ Good(c, Told(c, edges)) /\ Good(c, [Told(c, edges) EXCEPT !.after = n])
        /\ Good(c, [Told(c, edges) EXCEPT !.pc = "entities"])
    BY <2>1, ToldGood
  <2> HIDE DEF d
  <2>5. Good(c, d)
    BY <2>3, <2>4
  <2> QED
    BY <2>1, <2>2, <2>5, DrainsGood DEF d, Draining
<1>3. CASE DetachEntities(c)
  <2>1. call[c].pc = "entities" /\ call[c].pc \in Draining /\ Op(c) \in {"delete", "clear"}
    BY <1>0, <1>3 DEF DetachEntities, Fits, PcFits, Draining
  <2>2. Op(c) = "delete" => Good(c, Goes(c, "log"))
    BY <2>1, DeleteGood DEF PcFits
  <2>3. Op(c) = "clear" => Good(c, Replies(c, "removed"))
    BY <2>1, HasMet, WriteGood DEF Writing, Blind
  <2>4. Good(c, IF Op(c) = "clear" THEN Replies(c, "removed") ELSE Goes(c, "log"))
    BY <2>1, <2>2, <2>3
  <2> QED
    BY <1>3, <2>1, <2>4, DrainNodesGood DEF DetachEntities
<1>4. CASE DrainChangeLog(c)
  <2>1. call[c].pc = "log" /\ call[c].pc \in Draining /\ Op(c) = "delete"
    BY <1>0, <1>4 DEF DrainChangeLog, Fits, PcFits, Draining
  <2>2. Good(c, Goes(c, "rest"))
    BY <2>1, DeleteGood DEF PcFits
  <2> QED
    BY <1>4, <2>1, <2>2, DrainNodesGood DEF DrainChangeLog
<1>5. CASE SweepNodes(c)
  <2>1. call[c].pc = "rest" /\ call[c].pc \in Draining /\ Op(c) = "delete"
    BY <1>0, <1>5 DEF SweepNodes, Fits, PcFits, Draining
  <2>2. Good(c, Goes(c, "last"))
    BY <2>1, DeleteGood DEF PcFits
  <2> QED
    BY <1>5, <2>1, <2>2, DrainNodesGood DEF SweepNodes
<1>6. CASE DetachVocabulary(c)
  <2>1. call[c].pc = "last" /\ Op(c) = "delete"
    BY <1>0, <1>6 DEF DetachVocabulary, Fits, PcFits
  <2>2. Good(c, Goes(c, "last")) /\ Good(c, Completed(call[c]))
    BY <2>1, DeleteGood DEF PcFits
  <2>3. ASSUME ~call[c].raw PROVE Good(c, Replies(c, "not_found"))
    BY <1>0, <2>1, <2>3, RepliesGood DEF Fits, EventsFit, Met
  <2>4. \/ Submitted(c, Completed(call[c]), "last")
        \/ ~call[c].raw /\ Submitted(c, Replies(c, "not_found"), "last")
    BY <1>6 DEF DetachVocabulary
  <2> QED
    BY <1>0, <2>2, <2>3, <2>4, SubmittedGood
<1>7. CASE AssertBeforeClear(c)
  <2>1. Op(c) = "clear" /\ call[c].pc = "idle" /\ Op(c) \in Writing
    BY <1>7 DEF AssertBeforeClear, Writing
  <2>2. Good(c, Missing(c)) /\ (Locked(c) => Good(c, Goes(c, "relationships")))
    BY <2>1, WriteGood DEF PcFits, Locked, Met
  <2> QED
    BY <1>0, <1>7, <2>2, BecomesIs DEF AssertBeforeClear
<1> QED
  BY <1>1, <1>2, <1>3, <1>4, <1>5, <1>6, <1>7

LEMMA Neo4jAddsGood ==
  ASSUME Base, NEW c \in Clients, AddItem(c) \/ ReadToken(c)
  PROVE  Good(c, call'[c])
<1>0. Fits(c, call[c], c \in alive) /\ IsCall(call[c]) /\ Keeps
  BY DEF Base, Local, Fits
<1>1. Op(c) \in {"entity", "edge"} /\ call[c].pc \in {"idle", "again", "token"} /\ Op(c) \in Writing
  BY <1>0 DEF AddItem, ReadToken, Fits, PcFits, Writing
<1>2. Good(c, Replies(c, "missing"))
  BY <1>1, WriteGood DEF Missing
<1>3. ASSUME Met(c)
      PROVE  /\ Good(c, Goes(c, "again")) /\ Good(c, Goes(c, "token")) /\ Good(c, Replies(c, "not_found"))
             /\ Good(c, Replies(c, "duplicate")) /\ \A v, w : /\ Good(c, Created(c, v))
                                                              /\ Good(c, [Created(c, v) EXCEPT !.wrote = w])
  <2>1. Good(c, Goes(c, "again")) /\ Good(c, Goes(c, "token"))
    BY <1>1, <1>3, WriteGood DEF PcFits
  <2>2. Good(c, Replies(c, "not_found")) /\ Good(c, Replies(c, "duplicate")) /\ Good(c, Replies(c, "created"))
    BY <1>1, <1>3, WriteGood
  <2>3. ASSUME NEW v, NEW w PROVE Good(c, Created(c, v)) /\ Good(c, [Created(c, v) EXCEPT !.wrote = w])
    BY <1>0, <2>2, RepliesWith
  <2> QED
    BY <2>1, <2>2, <2>3
<1>4. CASE AddItem(c)
  <2>1. Obstacle(c) # "missing" /\ Obstacle(c) \in {"none", "token", "not_found"} => Met(c)
    BY DEF Obstacle, Locked, Met
  <2>2. CASE Obstacle(c) = "none" /\ Submitted(c, Created(c, marker[Repo(c)]), "again")
    BY <1>0, <1>3, <2>1, <2>2, SubmittedGood
  <2>3. CASE Obstacle(c) \in {"missing", "not_found"} /\ Becomes(c, Replies(c, Obstacle(c)))
    BY <1>0, <1>2, <1>3, <2>1, <2>3, BecomesIs
  <2>4. CASE Obstacle(c) = "token" /\ Becomes(c, Goes(c, "token"))
    BY <1>0, <1>3, <2>1, <2>4, BecomesIs
  <2> QED
    BY <1>4, <2>2, <2>3, <2>4 DEF AddItem
<1>5. CASE ReadToken(c)
  <2>1. Met(c)
    BY <1>1, <1>5, HasMet DEF ReadToken, Blind
  <2> DEFINE created == [Created(c, marker[Repo(c)]) EXCEPT !.wrote = call[c].wrote]
  <2>2. Becomes(c, created) \/ Becomes(c, Replies(c, "duplicate"))
    BY <1>5 DEF ReadToken
  <2>3. Good(c, created) /\ Good(c, Replies(c, "duplicate"))
    BY <1>3, <2>1
  <2> HIDE DEF created
  <2> QED
    BY <1>0, <2>2, <2>3, BecomesIs
<1> QED
  BY <1>4, <1>5

LEMMA Neo4jRemovesGood ==
  ASSUME Base, NEW c \in Clients, DeleteByIds(c) \/ DeleteTypeBatch(c) \/ DeleteEdgesOfPage(c)
  PROVE  Good(c, call'[c])
<1>0. Fits(c, call[c], c \in alive) /\ IsCall(call[c]) /\ Keeps
  BY DEF Base, Local, Fits
<1>1. Op(c) \in {"remove", "purge", "cut"} /\ call[c].pc \in {"idle", "again", "more"} /\ Op(c) \in Writing
  BY DEF DeleteByIds, DeleteTypeBatch, DeleteEdgesOfPage, Writing
<1>2. Good(c, Missing(c))
  BY <1>1, WriteGood
<1>3. ASSUME Locked(c)
      PROVE  Good(c, Replies(c, "removed")) /\ (Op(c) = "remove" => Good(c, Goes(c, "again")))
             /\ (Op(c) \in {"purge", "cut"} => Good(c, Goes(c, "more")))
  BY <1>1, <1>3, WriteGood DEF PcFits, Locked, Met
<1>4. CASE Becomes(c, Missing(c))
  BY <1>0, <1>2, <1>4, BecomesIs
<1>5. CASE Locked(c) /\ DeleteByIds(c)
  <2>1. \E v, w : \/ Becomes(c, [Replies(c, "removed") EXCEPT !.told = v, !.took = w])
                  \/ Becomes(c, [[Goes(c, "again") EXCEPT !.seen = v, !.resent = TRUE] EXCEPT !.took = w])
                  \/ Becomes(c, [Goes(c, "again") EXCEPT !.seen = v, !.resent = TRUE])
    <3>1. Replies(c, "removed").took = call[c].took
      BY <1>0, RepliesIs DEF Fields
    <3> QED
      BY <1>5, <3>1 DEF DeleteByIds
  <2>2. PICK v, w : \/ Becomes(c, [Replies(c, "removed") EXCEPT !.told = v, !.took = w])
                    \/ Becomes(c, [[Goes(c, "again") EXCEPT !.seen = v, !.resent = TRUE] EXCEPT !.took = w])
                    \/ Becomes(c, [Goes(c, "again") EXCEPT !.seen = v, !.resent = TRUE])
    BY <2>1
  <2>3. Op(c) = "remove" /\ Good(c, Goes(c, "again")) /\ Good(c, Replies(c, "removed"))
    BY <1>3, <1>5 DEF DeleteByIds
  <2>4. Good(c, [Replies(c, "removed") EXCEPT !.told = v, !.took = w])
    BY <1>0, <2>3, RepliesWith
  <2> DEFINE tried == [Goes(c, "again") EXCEPT !.seen = v, !.resent = TRUE]
             told == [tried EXCEPT !.took = w]
  <2>5. /\ IsCall(tried) /\ tried.pc = "again" /\ tried.resent = TRUE
        /\ tried.reply = call[c].reply /\ tried.raw = call[c].raw
        /\ tried.stored = call[c].stored /\ tried.recorded = call[c].recorded
    BY <1>0, GoesIs DEF IsCall, Fields
  <2>6. Good(c, tried)
    <3> HIDE DEF tried
    <3>1. Met(c)
      BY <1>5 DEF Locked, Met
    <3>2. Looked(tried, Met(c)) /\ PcFits(tried.pc, Op(c))
      BY <2>3, <2>5, <3>1 DEF Looked, PcFits
    <3>3. {tried.raw, tried.resent, tried.stored, tried.recorded} \subseteq BOOLEAN /\ tried.reply = None
      BY <1>0, <1>1, <2>5 DEF Fits
    <3> QED
      BY <2>3, <2>5, <3>2, <3>3 DEF Good, Fits
  <2>7. Good(c, told)
    <3> HIDE DEF tried
    <3>1. DOMAIN told = DOMAIN tried /\ \A f \in Seen : told[f] = tried[f]
      BY <2>5 DEF IsCall, Fields, Seen
    <3>2. \A x : DOMAIN x = DOMAIN tried /\ (\A f \in Seen : x[f] = tried[f]) => Good(c, x)
      BY <2>5, <2>6, AlikeGood
    <3> QED
      BY <3>1, <3>2
  <2> QED
    BY <1>0, <2>2, <2>4, <2>6, <2>7, BecomesIs
<1>6. CASE Locked(c) /\ DeleteTypeBatch(c)
  <2>1. Op(c) = "purge" /\ (Answered(c, Replies(c, "removed")) \/ Answered(c, Goes(c, "more")))
    BY <1>6 DEF DeleteTypeBatch
  <2> QED
    BY <1>0, <1>1, <1>3, <1>6, <2>1, AnsweredGood
<1>7. CASE Locked(c) /\ DeleteEdgesOfPage(c)
  <2>1. Op(c) = "cut" /\ \E edges :
          Drains(c, Repo(c), edges, Turned(Goes(c, "more"), Page(c), edges, Replies(c, "removed")))
    BY <1>7 DEF DeleteEdgesOfPage
  <2>2. PICK edges : Drains(c, Repo(c), edges, Turned(Goes(c, "more"), Page(c), edges, Replies(c, "removed")))
    BY <2>1
  <2> DEFINE d == Turned(Goes(c, "more"), Page(c), edges, Replies(c, "removed"))
  <2>3. PICK n : d \in {Goes(c, "more"), Replies(c, "removed"), [Goes(c, "more") EXCEPT !.after = n]}
    BY DEF Turned
  <2>4. Good(c, Goes(c, "more")) /\ Good(c, Replies(c, "removed"))
    BY <1>3, <1>7, <2>1
  <2>5. Good(c, [Goes(c, "more") EXCEPT !.after = n])
    BY <1>0, <2>4, GoesWith
  <2> HIDE DEF d
  <2>6. Good(c, d)
    BY <2>3, <2>4, <2>5
  <2> QED
    BY <1>1, <2>2, <2>6, DrainsGood DEF d
<1> QED
  BY <1>4, <1>5, <1>6, <1>7 DEF DeleteByIds, DeleteTypeBatch, DeleteEdgesOfPage

LEMMA Neo4jSavesGood ==
  ASSUME Base, NEW c \in Clients, provider = "neo4j", SaveVocabulary(c) \/ ReadSaveOutcome(c)
  PROVE  Good(c, call'[c])
<1>0. Fits(c, call[c], c \in alive) /\ IsCall(call[c]) /\ Keeps
  BY DEF Base, Local, Fits
<1>1. call[c].pc \in {"match", "why"}
  BY DEF SaveVocabulary, ReadSaveOutcome
<1>2. CASE Op(c) = "save"
  <2>1. /\ SaveFits(call[c]) /\ Met(c)
        /\ call[c].reply = None /\ {call[c].raw, call[c].resent, call[c].stored, call[c].recorded} \subseteq BOOLEAN
        /\ Good(c, Missing(c)) /\ Good(c, Replies(c, "conflict"))
        /\ Good(c, Goes(c, "match")) /\ Good(c, Goes(c, "why"))
    BY <1>1, <1>2, SaveGoes
  <2>2. CASE SaveVocabulary(c)
    <3> DEFINE d == [Replies(c, "saved") EXCEPT !.stored = TRUE, !.recorded = TRUE]
    <3>1. Submitted(c, d, "match") \/ Becomes(c, Goes(c, "why"))
      BY <2>2 DEF SaveVocabulary
    <3>2. /\ IsCall(d) /\ d.pc = "done" /\ d.reply = "saved" /\ d.raw = call[c].raw
          /\ d.resent = call[c].resent /\ d.stored = TRUE /\ d.recorded = TRUE
      BY <1>0, RepliesIs DEF IsCall, Fields
    <3> HIDE DEF d
    <3>3. SaveFits(d) /\ PcFits(d.pc, "save")
      BY <3>2 DEF SaveFits, PcFits
    <3>4. Good(c, d)
      BY <1>2, <2>1, <3>2, <3>3, SaveGood
    <3> QED
      BY <1>0, <2>1, <3>1, <3>4, SubmittedGood, BecomesIs
  <2>3. CASE ReadSaveOutcome(c)
    <3>1. ASSUME NEW v \in vocabulary[Repo(c)], v.by = c PROVE Good(c, Replies(c, "saved"))
      <4>1. Repo(c) \in Repositories
        BY <1>2 DEF Base, Requests, Op, Repo, None
      <4>2. call[c].stored
        BY <1>2, <3>1, <4>1 DEF Base, Owned
      <4>3. call[c].recorded
        BY <2>1, <4>2 DEF SaveFits
      <4> QED
        BY <1>0, <1>1, <1>2, <2>1, <4>2, <4>3, RepliesGood
    <3> QED
      BY <1>0, <2>1, <2>3, <3>1, BecomesIs DEF ReadSaveOutcome
  <2> QED
    BY <2>2, <2>3
<1>3. CASE Op(c) = "edge"
  <2>1. ReadSaveOutcome(c) /\ call[c].pc = "why"
    BY <1>0, <1>3 DEF SaveVocabulary, ReadSaveOutcome, Fits, PcFits
  <2>2. Met(c) /\ Op(c) \in Writing
    BY <1>3, <2>1, HasMet DEF Blind, Writing
  <2>3. Good(c, Missing(c)) /\ Good(c, Replies(c, "saved")) /\ Good(c, Replies(c, "conflict"))
    BY <2>1, <2>2, WriteGood
  <2> QED
    BY <1>0, <2>1, <2>3, BecomesIs DEF ReadSaveOutcome
<1> QED
  BY <1>0, <1>1, <1>2, <1>3 DEF Fits, PcFits

\* The next row of a chunk is one of its rows.
RowFits(c, k, chunk) ==
  "row" \in DOMAIN chunk /\ chunk.row \in 1..Len(request[c].chunks[k])

\* A chunk of an import moves, the others stand.
Moves(c, k, d) ==
  /\ IsCall(d) /\ d.pc = call[c].pc /\ d.reply = call[c].reply /\ d.raw = call[c].raw
  /\ d.stored = call[c].stored /\ d.recorded = call[c].recorded /\ d.resent = call[c].resent
  /\ DOMAIN d.chunks = DOMAIN call[c].chunks
  /\ \A i \in DOMAIN d.chunks \ {k} : d.chunks[i] = call[c].chunks[i]
  /\ "pc" \in DOMAIN d.chunks[k]
  /\ RowFits(c, k, call[c].chunks[k]) => RowFits(c, k, d.chunks[k])
  /\ d.stopped = call[c].stopped \/ d.stopped \in {"missing", "failed"}

\* It has been answered only by a marker, or not after the import had stopped.
LEMMA MovesGood ==
  ASSUME Base, NEW c \in Clients, provider = "neo4j", call[c].pc = "importing",
         NEW k \in DOMAIN call[c].chunks, NEW d, Moves(c, k, d),
         \/ d.chunks[k].pc = "sent" \/ Met(c) \/ d.stopped # None
         \/ call[c].chunks[k].pc \notin {"waiting", "sent"}
  PROVE  Good(c, d)
<1>1. Fits(c, call[c], c \in alive)
  BY DEF Base, Local
<1>2. Op(c) = "import" /\ ImportFits(call[c], c \in alive)
  BY <1>1 DEF Fits, PcFits
<1>3. {d.raw, d.resent, d.stored, d.recorded} \subseteq BOOLEAN /\ d.reply = None /\ d.pc = "importing"
  BY <1>1 DEF Moves, Fits
<1>4. call[c].stopped # None => d.stopped # None
  BY DEF Moves, None
<1>5. ImportFits(d, Met(c))
  <2>1. d.stopped \in {None, "missing", "failed"}
    BY <1>2 DEF Moves, ImportFits
  <2>2. ASSUME NEW i \in DOMAIN d.chunks
        PROVE  "pc" \in DOMAIN d.chunks[i] /\ (d.chunks[i].pc \in {"waiting", "sent"} \/ Met(c) \/ d.stopped # None)
    <3>1. CASE i = k
      BY <1>2, <1>4, <3>1 DEF Moves, ImportFits, Met
    <3>2. CASE i # k
      BY <1>2, <1>4, <3>2 DEF Moves, ImportFits, Met
    <3> QED
      BY <3>1, <3>2
  <2> QED
    BY <2>1, <2>2 DEF ImportFits
<1>6. PcFits(d.pc, Op(c)) /\ Looked(d, Met(c)) /\ (call[c].stored => d.stored)
  BY <1>2, <1>3 DEF PcFits, Looked, Blind, Moves
<1> QED
  BY <1>2, <1>3, <1>5, <1>6, Zenon DEF Good, Fits, Moves

LEMMA ChunkGoesOn ==
  ASSUME NEW c, IsCall(call[c]), NEW k \in DOMAIN call[c].chunks, "pc" \in DOMAIN call[c].chunks[k],
         NEW x
  PROVE  /\ Moves(c, k, ChunkGoes(c, k, x)) /\ ChunkGoes(c, k, x).chunks[k].pc = x
         /\ ChunkGoes(c, k, x).stopped = call[c].stopped
BY DEF Moves, ChunkGoes, IsCall, Fields, RowFits

LEMMA ChunkMoves ==
  ASSUME NEW c, IsCall(call[c]), NEW k \in DOMAIN call[c].chunks, "pc" \in DOMAIN call[c].chunks[k],
         NEW x, NEW v
  PROVE  /\ Moves(c, k, [ChunkGoes(c, k, x) EXCEPT !.wrote = @ \cup v])
         /\ Moves(c, k, [ChunkGoes(c, k, x) EXCEPT !.chunks[k].imported = v])
         /\ Moves(c, k, Imports(c, k, v, x))
         /\ Moves(c, k, [call[c] EXCEPT !.chunks[k].refused = v])
<1>1. /\ Moves(c, k, ChunkGoes(c, k, x)) /\ ChunkGoes(c, k, x).chunks[k].pc = x
      /\ ChunkGoes(c, k, x).stopped = call[c].stopped
  BY ChunkGoesOn
<1>2. ASSUME NEW d, Moves(c, k, d)
      PROVE  /\ Moves(c, k, [d EXCEPT !.wrote = @ \cup v])
             /\ Moves(c, k, [d EXCEPT !.chunks[k].imported = v])
             /\ Moves(c, k, [d EXCEPT !.chunks[k].imported = @ \cup v, !.wrote = @ \cup v])
  <2>1. Moves(c, k, [d EXCEPT !.wrote = @ \cup v])
    BY <1>2 DEF Moves, IsCall, Fields, RowFits
  <2>2. Moves(c, k, [d EXCEPT !.chunks[k].imported = v])
    BY <1>2 DEF Moves, IsCall, Fields, RowFits
  <2>3. Moves(c, k, [d EXCEPT !.chunks[k].imported = @ \cup v, !.wrote = @ \cup v])
    BY <1>2 DEF Moves, IsCall, Fields, RowFits
  <2> QED
    BY <2>1, <2>2, <2>3
<1>3. Moves(c, k, [call[c] EXCEPT !.chunks[k].refused = v])
  BY DEF Moves, IsCall, Fields, RowFits
<1>5. /\ Moves(c, k, [ChunkGoes(c, k, x) EXCEPT !.wrote = @ \cup v])
      /\ Moves(c, k, [ChunkGoes(c, k, x) EXCEPT !.chunks[k].imported = v])
      /\ Moves(c, k, Imports(c, k, v, x))
  BY <1>1, <1>2 DEF Imports
<1> QED
  BY <1>3, <1>5

LEMMA ChunkStops ==
  ASSUME NEW c, IsCall(call[c]), NEW k \in DOMAIN call[c].chunks, "pc" \in DOMAIN call[c].chunks[k],
         NEW x \in {"missing", "failed"}
  PROVE  Moves(c, k, Stops(c, k, x)) /\ Stops(c, k, x).stopped # None
<1> DEFINE over == ChunkGoes(c, k, "over")
           d == [over EXCEPT !.stopped = IF @ = None THEN x ELSE @]
<1>1. Moves(c, k, over) /\ over.stopped = call[c].stopped
  BY ChunkGoesOn
<1> HIDE DEF over
<1>2. Moves(c, k, d) /\ d.stopped # None
  BY <1>1 DEF Moves, IsCall, Fields, RowFits, None
<1> QED
  BY <1>2 DEF Stops, over

LEMMA RowsMove ==
  ASSUME NEW c, IsCall(call[c]), NEW k \in DOMAIN call[c].chunks, NEW d, Moves(c, k, d)
  PROVE  Moves(c, k, NextRow(d, c, k)) /\ NextRow(d, c, k).stopped = d.stopped
<1>1. CASE d.chunks[k].row < Len(request[c].chunks[k])
  <2> DEFINE e == [d EXCEPT !.chunks[k].row = @ + 1]
  <2>1. /\ IsCall(e) /\ e.chunks = [d.chunks EXCEPT ![k].row = @ + 1]
        /\ \A f \in Fields \ {"chunks"} : e[f] = d[f]
    BY DEF Moves, IsCall, Fields
  <2>2. RowFits(c, k, d.chunks[k]) => RowFits(c, k, e.chunks[k])
    BY <1>1, <2>1 DEF RowFits, Moves
  <2> HIDE DEF e
  <2>3. Moves(c, k, e) /\ e.stopped = d.stopped
    BY <2>1, <2>2 DEF Moves, Fields
  <2> QED
    BY <1>1, <2>3 DEF NextRow, e
<1>2. ASSUME NEW pc
      PROVE  Moves(c, k, [d EXCEPT !.chunks[k].pc = pc]) /\ [d EXCEPT !.chunks[k].pc = pc].stopped = d.stopped
  BY DEF Moves, IsCall, Fields, RowFits
<1> QED
  BY <1>1, <1>2 DEF NextRow

LEMMA ImportingGood ==
  ASSUME Base, NEW c \in Clients, call[c].pc = "importing"
  PROVE  /\ Fits(c, call[c], c \in alive) /\ IsCall(call[c]) /\ Keeps /\ Op(c) = "import"
         /\ ImportFits(call[c], c \in alive)
         /\ Good(c, Goes(c, "importing")) /\ Good(c, Missing(c)) /\ Good(c, Replies(c, "failed"))
<1>0. Fits(c, call[c], c \in alive) /\ IsCall(call[c]) /\ Keeps
  BY DEF Base, Local, Fits
<1>1. Op(c) = "import" /\ ImportFits(call[c], c \in alive)
  BY <1>0 DEF Fits, PcFits
<1>2. Alters(call[c], Goes(c, "importing"))
  <2> SUFFICES ASSUME NEW d, d = Goes(c, "importing") PROVE Alters(call[c], d)
    OBVIOUS
  <2>1. /\ IsCall(d) /\ d.pc = call[c].pc /\ d.reply = call[c].reply /\ d.raw = call[c].raw
        /\ d.stored = call[c].stored /\ d.recorded = call[c].recorded /\ d.resent = call[c].resent
        /\ d.stopped = call[c].stopped /\ d.chunks = call[c].chunks /\ d.gate = call[c].gate
    BY <1>0, GoesIs DEF Fields
  <2> QED
    BY <1>0, <2>1 DEF Alters, IsCall
<1> QED
  BY <1>0, <1>1, <1>2, AltersGood, ImportReplies

LEMMA Neo4jChunksGood ==
  ASSUME Base, NEW c \in Clients, provider = "neo4j", call[c].pc = "importing", NEW k \in Chunks(c),
         \/ Dispatch(c, k) \/ SendChunk(c, k) \/ CountCarrying(c, k) \/ ImportRow(c, k)
         \/ ReadTokens(c, k) \/ ChunkFails(c, k)
  PROVE  Good(c, call'[c])
<1>0. /\ Fits(c, call[c], c \in alive) /\ IsCall(call[c]) /\ Keeps /\ Op(c) = "import"
      /\ ImportFits(call[c], c \in alive) /\ Good(c, Goes(c, "importing"))
      /\ k \in DOMAIN call[c].chunks
  BY ImportingGood DEF Chunks
<1>1. "pc" \in DOMAIN call[c].chunks[k]
  BY <1>0 DEF ImportFits
<1>2. ASSUME NEW x
      PROVE  /\ Moves(c, k, ChunkGoes(c, k, x)) /\ ChunkGoes(c, k, x).chunks[k].pc = x
             /\ ChunkGoes(c, k, x).stopped = call[c].stopped
  BY <1>0, <1>1, ChunkGoesOn
<1>3. ASSUME NEW x \in {"missing", "failed"} PROVE Good(c, Stops(c, k, x))
  <2>1. Moves(c, k, Stops(c, k, x)) /\ Stops(c, k, x).stopped # None
    BY <1>0, <1>1, ChunkStops
  <2> QED
    BY <1>0, <2>1, MovesGood
\* A chunk that is past its statement may go anywhere.
<1>4. ASSUME NEW d, Moves(c, k, d), Met(c) \/ Pc(c, k) \notin {"waiting", "sent"} PROVE Good(c, d)
  BY <1>0, <1>4, MovesGood DEF Pc
<1>5. CASE Dispatch(c, k)
  <2>1. Good(c, ChunkGoes(c, k, "sent"))
    BY <1>0, <1>2, MovesGood
  <2> QED
    BY <1>0, <1>5, <2>1, BecomesIs DEF Dispatch
<1>6. CASE SendChunk(c, k)
  <2>1. CASE Becomes(c, Stops(c, k, "missing"))
    BY <1>0, <1>3, <2>1, BecomesIs
  <2>2. CASE Locked(c)
    <3>1. Met(c)
      BY <2>2 DEF Locked, Met
    <3>2. PICK rows : \/ Becomes(c, ChunkGoes(c, k, "count")) \/ Becomes(c, ChunkGoes(c, k, "rows"))
                      \/ Submitted(c, Imports(c, k, rows, "over"), "importing")
                      \/ Becomes(c, [ChunkGoes(c, k, "rows") EXCEPT !.wrote = @ \cup rows])
      BY <1>6, <2>2 DEF SendChunk
    <3>3. Good(c, ChunkGoes(c, k, "count")) /\ Good(c, ChunkGoes(c, k, "rows"))
      BY <1>2, <1>4, <3>1
    <3>4. Moves(c, k, Imports(c, k, rows, "over"))
      BY <1>0, <1>1, ChunkMoves
    <3>5. Moves(c, k, [ChunkGoes(c, k, "rows") EXCEPT !.wrote = @ \cup rows])
      BY <1>0, <1>1, ChunkMoves
    <3>6. Good(c, Imports(c, k, rows, "over")) /\ Good(c, [ChunkGoes(c, k, "rows") EXCEPT !.wrote = @ \cup rows])
      BY <1>4, <3>1, <3>4, <3>5
    <3> QED
      BY <1>0, <3>2, <3>3, <3>6, SubmittedGood, BecomesIs
  <2> QED
    BY <1>6, <2>1, <2>2 DEF SendChunk
<1>7. CASE CountCarrying(c, k)
  <2>1. \/ Becomes(c, [ChunkGoes(c, k, "over") EXCEPT !.chunks[k].imported = RowsOf(c, k)])
        \/ Becomes(c, ChunkGoes(c, k, "rows"))
    BY <1>7 DEF CountCarrying
  <2>2. Pc(c, k) \notin {"waiting", "sent"}
    BY <1>7 DEF CountCarrying
  <2>3. Moves(c, k, [ChunkGoes(c, k, "over") EXCEPT !.chunks[k].imported = RowsOf(c, k)])
    BY <1>0, <1>1, ChunkMoves
  <2>4. /\ Good(c, [ChunkGoes(c, k, "over") EXCEPT !.chunks[k].imported = RowsOf(c, k)])
        /\ Good(c, ChunkGoes(c, k, "rows"))
    BY <1>2, <1>4, <2>2, <2>3
  <2> QED
    BY <1>0, <2>1, <2>4, BecomesIs
<1>8. CASE ImportRow(c, k)
  <2>0. Pc(c, k) \notin {"waiting", "sent"}
    BY <1>8 DEF ImportRow
  <2>1. PICK v : \/ Becomes(c, ChunkGoes(c, k, "over")) \/ Becomes(c, Stops(c, k, "missing"))
                 \/ Becomes(c, NextRow([call[c] EXCEPT !.chunks[k].refused = v], c, k))
                 \/ Submitted(c, NextRow(Imports(c, k, v, "rows"), c, k), "importing")
                 \/ Becomes(c, NextRow(call[c], c, k))
    BY <1>8 DEF ImportRow
  <2>2. /\ Moves(c, k, [call[c] EXCEPT !.chunks[k].refused = v])
        /\ Moves(c, k, Imports(c, k, v, "rows"))
    BY <1>0, <1>1, ChunkMoves
  <2>3. Moves(c, k, call[c])
    BY <1>0, <1>1 DEF Moves
  <2>4. /\ Moves(c, k, NextRow([call[c] EXCEPT !.chunks[k].refused = v], c, k))
        /\ Moves(c, k, NextRow(Imports(c, k, v, "rows"), c, k))
        /\ Moves(c, k, NextRow(call[c], c, k))
    BY <1>0, <2>2, <2>3, RowsMove
  <2>5. /\ Good(c, NextRow([call[c] EXCEPT !.chunks[k].refused = v], c, k))
        /\ Good(c, NextRow(Imports(c, k, v, "rows"), c, k))
        /\ Good(c, NextRow(call[c], c, k)) /\ Good(c, ChunkGoes(c, k, "over"))
    BY <1>2, <1>4, <2>0, <2>4
  <2> QED
    BY <1>0, <1>3, <2>1, <2>5, SubmittedGood, BecomesIs
<1>9. CASE ReadTokens(c, k)
  <2>1. PICK v : Becomes(c, [ChunkGoes(c, k, "over") EXCEPT !.chunks[k].imported = v])
    BY <1>9 DEF ReadTokens
  <2>2. Moves(c, k, [ChunkGoes(c, k, "over") EXCEPT !.chunks[k].imported = v])
    BY <1>0, <1>1, ChunkMoves
  <2>3. Good(c, [ChunkGoes(c, k, "over") EXCEPT !.chunks[k].imported = v])
    BY <1>4, <1>9, <2>2 DEF ReadTokens
  <2> QED
    BY <1>0, <2>1, <2>3, BecomesIs
<1>10. CASE ChunkFails(c, k)
  BY <1>0, <1>3, <1>10, BecomesIs DEF ChunkFails
<1> QED
  BY <1>5, <1>6, <1>7, <1>8, <1>9, <1>10

LEMMA Neo4jImportsGood ==
  ASSUME Base, NEW c \in Clients, provider = "neo4j", ImportStep(c) \/ ImportTrouble(c)
  PROVE  Good(c, call'[c])
<1>0. Fits(c, call[c], c \in alive) /\ IsCall(call[c]) /\ Keeps
  BY DEF Base, Local, Fits
<1>1. CASE BeginImport(c)
  <2> DEFINE d == [Goes(c, "importing") EXCEPT !.chunks = [k \in DOMAIN request[c].chunks |-> NewChunk]]
  <2>1. Op(c) = "import" /\ call[c].pc = "idle" /\ Becomes(c, d)
    BY <1>1 DEF BeginImport
  <2>2. /\ IsCall(d) /\ d.pc = "importing"
        /\ \A f \in {"reply", "raw", "stopped", "resent", "stored", "recorded"} : d[f] = call[c][f]
        /\ d.chunks = [k \in DOMAIN request[c].chunks |-> NewChunk]
    BY <1>0, GoesIs DEF IsCall, Fields
  <2>3. "pc" \in DOMAIN NewChunk /\ NewChunk.pc = "waiting"
    BY DEF NewChunk
  <2>4. \A k \in DOMAIN d.chunks : "pc" \in DOMAIN d.chunks[k] /\ d.chunks[k].pc = "waiting"
    BY <2>2, <2>3
  <2> HIDE DEF d
  <2> QED
    BY <1>0, <2>1, <2>2, <2>4, OpensGood, BecomesIs
<1>2. CASE EndImport(c)
  <2>1. call[c].pc = "importing" /\ Op(c) = "import" /\ ImportFits(call[c], c \in alive) /\ Good(c, Missing(c))
    BY <1>2, ImportingGood DEF EndImport
  <2>2. PICK v : \/ Becomes(c, Missing(c))
                 \/ /\ Becomes(c, [Replies(c, "imported") EXCEPT !.told = v])
                    /\ call[c].stopped = None /\ \A k \in Chunks(c) : Pc(c, k) = "over"
                    /\ Chunks(c) # {} \/ Locked(c)
                 \/ call[c].stopped # None /\ Becomes(c, Replies(c, call[c].stopped))
    BY <1>2 DEF EndImport
  <2>3. CASE /\ Becomes(c, [Replies(c, "imported") EXCEPT !.told = v])
             /\ call[c].stopped = None /\ \A k \in Chunks(c) : Pc(c, k) = "over"
             /\ Chunks(c) # {} \/ Locked(c)
    <3>1. Met(c)
      BY <2>1, <2>3 DEF ImportFits, Chunks, Pc, Locked, Met
    <3>2. Good(c, Replies(c, "imported"))
      BY <2>1, <3>1, ImportReplies
    <3>3. Good(c, [Replies(c, "imported") EXCEPT !.told = v])
      BY <1>0, <3>2, RepliesWith
    <3> QED
      BY <1>0, <2>3, <3>3, BecomesIs
  <2>4. call[c].stopped # None => Good(c, Replies(c, call[c].stopped))
    BY <2>1, ImportReplies
  <2> QED
    BY <1>0, <2>1, <2>2, <2>3, <2>4, BecomesIs
<1> QED
  BY <1>1, <1>2, Neo4jChunksGood DEF ImportStep, ImportTrouble

-----------------------------------------------------------------------------
(* SQL Server.                                                             *)

LEMMA SqlCreatesGood ==
  ASSUME Base, NEW c \in Clients,
         LookForRepository(c) \/ InsertRepository(c) \/ InsertVocabulary(c)
  PROVE  Good(c, call'[c])
<1>0. Fits(c, call[c], c \in alive) /\ Keeps
  BY DEF Base, Local
<1>1. Op(c) = "create" /\ call[c].pc \in {"idle", "repository", "seed"}
  BY <1>0 DEF LookForRepository, InsertRepository, InsertVocabulary, Fits, PcFits
<1>2. /\ Good(c, Goes(c, "repository")) /\ Good(c, Goes(c, "seed"))
      /\ \A x : x # "deleted" => Good(c, Replies(c, x))
  BY <1>1, CreateGood DEF PcFits
<1>3. CASE LookForRepository(c)
  BY <1>0, <1>2, <1>3, BecomesIs DEF LookForRepository
<1>4. CASE InsertRepository(c)
  BY <1>0, <1>1, <1>2, <1>4, AnsweredGood, BecomesIs DEF InsertRepository
<1>5. CASE InsertVocabulary(c)
  BY <1>0, <1>1, <1>2, <1>5, AnsweredGood, BecomesIs DEF InsertVocabulary
<1> QED
  BY <1>3, <1>4, <1>5

LEMMA SqlDeletesGood ==
  ASSUME Base, NEW c \in Clients, DeleteRepository(c)
  PROVE  Good(c, call'[c])
<1>0. Fits(c, call[c], c \in alive) /\ Keeps
  BY DEF Base, Local
<1>1. Op(c) = "delete" /\ call[c].pc = "drop"
  BY <1>0 DEF DeleteRepository, Fits, PcFits
<1>2. Good(c, Completed(call[c]))
  BY <1>1, DeleteGood DEF PcFits
<1>3. Good(c, Replies(c, "not_found"))
  BY <1>0, <1>1, RepliesGood DEF Fits, EventsFit, Met
<1> QED
  BY <1>0, <1>1, <1>2, <1>3, AnsweredGood, BecomesIs DEF DeleteRepository

LEMMA RowsGood ==
  ASSUME Base, NEW c \in Clients, call[c].pc # "done", NEW gone, NEW d, Good(c, d),
         DeletesRows(c, gone, d)
  PROVE  Good(c, call'[c])
<1>0. Fits(c, call[c], c \in alive) /\ Keeps
  BY DEF Base, Local
<1>1. Answered(c, d) \/ Becomes(c, Replies(c, "failed"))
  BY DEF DeletesRows
<1> QED
  BY <1>0, <1>1, AnsweredGood, FailedGood, BecomesIs

LEMMA SqlRemovesGood ==
  ASSUME Base, NEW c \in Clients, provider = "sqlserver",
         \/ AssertForClear(c) \/ DeleteRelationships(c) \/ DeleteEntities(c)
         \/ DeleteEntityEdges(c) \/ DeleteEntityRow(c) \/ ExplainMiss(c) \/ GuardedDelete(c)
  PROVE  Good(c, call'[c])
<1>0. Fits(c, call[c], c \in alive) /\ IsCall(call[c]) /\ Keeps
  BY DEF Base, Local, Fits
<1>1. /\ Op(c) \in {"clear", "erase", "remove", "purge", "cut"} /\ Op(c) \in Writing
      /\ call[c].pc \in {"idle", "relationships", "entities", "row", "miss"}
  BY <1>0 DEF AssertForClear, DeleteRelationships, DeleteEntities, DeleteEntityEdges, DeleteEntityRow,
              ExplainMiss, GuardedDelete, Fits, PcFits, Writing
<1>2. Good(c, Missing(c)) /\ Repo(c) \in Repositories
  BY <1>1, WriteGood DEF Base, Requests, Op, Repo, None
<1>3. ASSUME Met(c) PROVE Good(c, Replies(c, "removed")) /\ Good(c, Replies(c, "not_found"))
  BY <1>1, <1>3, WriteGood
<1>4. ASSUME Met(c), NEW v, NEW w PROVE Good(c, [Replies(c, "removed") EXCEPT !.told = v, !.took = w])
  BY <1>0, <1>3, <1>4, RepliesWith
<1>5. RepositoryExists(c) => Met(c)
  BY DEF RepositoryExists, Met
<1>6. CASE AssertForClear(c)
  <2>1. Met(c) => Good(c, Goes(c, "relationships"))
    BY <1>1, <1>6, WriteGood DEF AssertForClear, PcFits
  <2> QED
    BY <1>0, <1>2, <1>5, <1>6, <2>1, BecomesIs DEF AssertForClear
<1>7. CASE DeleteRelationships(c)
  <2>1. Op(c) = "clear" /\ call[c].pc = "relationships" /\ DeletesRows(c, Edges(Repo(c)), Goes(c, "entities"))
    BY <1>7 DEF DeleteRelationships
  <2>2. Met(c)
    BY <2>1, HasMet DEF Blind
  <2>3. Good(c, Goes(c, "entities"))
    BY <1>1, <2>1, <2>2, WriteGood DEF PcFits
  <2> QED
    BY <2>1, <2>3, RowsGood
<1>8. CASE DeleteEntities(c)
  <2>1. Op(c) = "clear" /\ call[c].pc = "entities" /\ DeletesRows(c, Entities(Repo(c)), Replies(c, "removed"))
    BY <1>8 DEF DeleteEntities
  <2>2. Met(c)
    BY <2>1, HasMet DEF Blind
  <2> QED
    BY <1>3, <2>1, <2>2, RowsGood
<1>9. CASE DeleteEntityEdges(c)
  <2>1. Op(c) = "erase" /\ call[c].pc = "idle" /\ DeletesRows(c, Linked(Repo(c), request[c].ids), Goes(c, "row"))
    BY <1>9 DEF DeleteEntityEdges
  <2>2. Good(c, Goes(c, "row"))
    BY <1>1, <2>1, WriteGood DEF PcFits, Blind
  <2> QED
    BY <2>1, <2>2, RowsGood
<1>10. CASE DeleteEntityRow(c)
  <2> DEFINE rows == {d \in Entities(Repo(c)) : d.id \in request[c].ids}
             d == [Replies(c, "removed") EXCEPT !.told = IdsOf(rows), !.took = IdsOf(rows)]
  <2>1. /\ call[c].pc = "row" /\ Op(c) = "erase"
        /\ (rows # {} /\ DeletesRows(c, rows, d)) \/ Becomes(c, Goes(c, "miss"))
    BY <1>0, <1>1, <1>10 DEF DeleteEntityRow, Fits, PcFits
  <2>2. rows # {} => Met(c)
    BY <1>2 DEF Entities, Base, Rooted, Met
  <2>3. rows # {} => Good(c, d)
    BY <1>4, <2>2
  <2>4. Good(c, Goes(c, "miss"))
    BY <1>1, <2>1, WriteGood DEF PcFits, Blind
  <2> HIDE DEF rows, d
  <2> QED
    BY <1>0, <2>1, <2>3, <2>4, RowsGood, BecomesIs
<1>11. CASE ExplainMiss(c)
  BY <1>0, <1>2, <1>3, <1>5, <1>11, BecomesIs DEF ExplainMiss
<1>12. CASE GuardedDelete(c)
  <2>1. PICK gone, v : \/ /\ RepositoryExists(c)
                          /\ DeletesRows(c, gone, [Replies(c, "removed") EXCEPT !.told = v, !.took = v])
                       \/ Becomes(c, Missing(c))
    BY <1>12 DEF GuardedDelete
  <2> DEFINE d == [Replies(c, "removed") EXCEPT !.told = v, !.took = v]
  <2>2. RepositoryExists(c) => Good(c, d)
    BY <1>4, <1>5
  <2> HIDE DEF d
  <2>3. (RepositoryExists(c) /\ DeletesRows(c, gone, d)) \/ Becomes(c, Missing(c))
    BY <2>1 DEF d
  <2> QED
    BY <1>0, <1>1, <1>2, <2>2, <2>3, RowsGood, BecomesIs
<1> QED
  BY <1>6, <1>7, <1>8, <1>9, <1>10, <1>11, <1>12

LEMMA SqlAddsGood ==
  ASSUME Base, NEW c \in Clients,
         \/ AssertForCreate(c) \/ LookForEntity(c) \/ ReadPreconditions(c) \/ InsertRow(c)
         \/ ExplainForeignKey(c)
  PROVE  Good(c, call'[c])
<1>0. Fits(c, call[c], c \in alive) /\ IsCall(call[c]) /\ Keeps
  BY DEF Base, Local, Fits
<1>1. /\ Op(c) \in {"entity", "edge"} /\ Op(c) \in Writing
      /\ call[c].pc \in {"idle", "id", "insert", "why"} /\ (call[c].pc = "why" => Op(c) = "edge")
  BY <1>0 DEF AssertForCreate, LookForEntity, ReadPreconditions, InsertRow, ExplainForeignKey, Fits,
              PcFits, Writing
<1>2. Good(c, Missing(c)) /\ Good(c, Replies(c, "failed"))
  BY <1>1, WriteGood
<1>3. ASSUME Met(c)
      PROVE  /\ Good(c, Replies(c, "duplicate")) /\ Good(c, Replies(c, "not_found"))
             /\ Good(c, Goes(c, "id")) /\ Good(c, Goes(c, "insert")) /\ (Op(c) = "edge" => Good(c, Goes(c, "why")))
             /\ \A v : Good(c, Created(c, v))
  <2>1. Good(c, Replies(c, "duplicate")) /\ Good(c, Replies(c, "not_found")) /\ Good(c, Replies(c, "created"))
    BY <1>1, <1>3, WriteGood
  <2>2. Good(c, Goes(c, "id")) /\ Good(c, Goes(c, "insert")) /\ (Op(c) = "edge" => Good(c, Goes(c, "why")))
    BY <1>1, <1>3, WriteGood DEF PcFits
  <2>3. ASSUME NEW v, NEW w PROVE Good(c, Created(c, v)) /\ Good(c, [Created(c, v) EXCEPT !.wrote = w])
    BY <1>0, <2>1, RepliesWith
  <2> QED
    BY <2>1, <2>2, <2>3
<1>4. RepositoryExists(c) \/ call[c].pc # "idle" => Met(c)
  BY <1>1, HasMet DEF RepositoryExists, Met, Blind
<1>5. CASE AssertForCreate(c)
  BY <1>0, <1>2, <1>3, <1>4, <1>5, BecomesIs DEF AssertForCreate
<1>6. CASE LookForEntity(c)
  BY <1>0, <1>3, <1>4, <1>6, BecomesIs DEF LookForEntity
<1>7. CASE ReadPreconditions(c)
  BY <1>0, <1>2, <1>3, <1>4, <1>7, BecomesIs DEF ReadPreconditions
<1>8. CASE InsertRow(c)
  BY <1>0, <1>1, <1>2, <1>3, <1>4, <1>8, AnsweredGood, BecomesIs DEF InsertRow
<1>9. CASE ExplainForeignKey(c)
  BY <1>0, <1>2, <1>3, <1>4, <1>9, BecomesIs DEF ExplainForeignKey
<1> QED
  BY <1>5, <1>6, <1>7, <1>8, <1>9

LEMMA SqlSavesGood ==
  ASSUME Base, NEW c \in Clients, UpdateVocabulary(c)
  PROVE  Good(c, call'[c])
<1>0. Fits(c, call[c], c \in alive) /\ IsCall(call[c]) /\ Keeps
  BY DEF Base, Local, Fits
<1>1. Op(c) = "save" /\ call[c].pc = "match"
  BY <1>0 DEF UpdateVocabulary, Fits, PcFits
<1>2. /\ SaveFits(call[c]) /\ Met(c)
      /\ call[c].reply = None /\ {call[c].raw, call[c].resent, call[c].stored, call[c].recorded} \subseteq BOOLEAN
      /\ Good(c, Missing(c)) /\ Good(c, Replies(c, "conflict"))
  BY <1>1, SaveGoes
<1> DEFINE d == [Replies(c, "saved") EXCEPT !.stored = TRUE, !.recorded = TRUE]
<1>3. Answered(c, d) \/ Becomes(c, Missing(c)) \/ Becomes(c, Replies(c, "conflict"))
  BY DEF UpdateVocabulary
<1>4. /\ IsCall(d) /\ d.pc = "done" /\ d.reply = "saved" /\ d.raw = call[c].raw
      /\ d.resent = call[c].resent /\ d.stored = TRUE /\ d.recorded = TRUE
  BY <1>0, RepliesIs DEF IsCall, Fields
<1> HIDE DEF d
<1>5. SaveFits(d) /\ PcFits(d.pc, "save")
  BY <1>4 DEF SaveFits, PcFits
<1>6. Good(c, d)
  BY <1>1, <1>2, <1>4, <1>5, SaveGood
<1> QED
  BY <1>0, <1>1, <1>2, <1>3, <1>6, AnsweredGood, BecomesIs

LEMMA SqlImportsGood ==
  ASSUME Base, NEW c \in Clients, ImportInOneTransaction(c)
  PROVE  Good(c, call'[c])
<1>0. Fits(c, call[c], c \in alive) /\ IsCall(call[c]) /\ Keeps
  BY DEF Base, Local, Fits
<1>1. Op(c) = "import" /\ call[c].pc = "idle"
  BY DEF ImportInOneTransaction
<1>2. Good(c, Missing(c))
  BY <1>1, ImportReplies
<1> DEFINE d == [Replies(c, "imported") EXCEPT !.told = Rows(c), !.wrote = Rows(c)]
<1>3. \/ RepositoryExists(c) /\ (Answered(c, d) \/ Becomes(c, Replies(c, "refused")))
      \/ Becomes(c, Missing(c))
  BY DEF ImportInOneTransaction
<1>4. ASSUME RepositoryExists(c) PROVE Good(c, d) /\ Good(c, Replies(c, "refused"))
  <2>1. Good(c, Replies(c, "imported")) /\ Good(c, Replies(c, "refused"))
    BY <1>1, <1>4, ImportReplies DEF RepositoryExists, Met
  <2> QED
    BY <1>0, <2>1, RepliesWith
<1> HIDE DEF d
<1> QED
  BY <1>0, <1>1, <1>2, <1>3, <1>4, AnsweredGood, BecomesIs

-----------------------------------------------------------------------------
(* What a step leaves of the stores.                                       *)

Answers(c) == \E cl : Becomes(c, cl)

LEMMA Tells ==
  ASSUME NEW c, NEW cl, NEW x
  PROVE  /\ Becomes(c, cl) => Answers(c)
         /\ Submitted(c, cl, x) => Answers(c)
         /\ Answered(c, cl) => Answers(c)
BY DEF Answers, Submitted, Answered

\* A step that leaves the markers and the vocabularies alone.
Quiet(c) ==
  /\ Answers(c) /\ UNCHANGED <<marker, vocabulary, swept>>
  /\ DOMAIN data' = Repositories
  /\ late' = late \/ provider = "cosmosdb"

LEMMA CommonQuiet ==
  ASSUME Keeps, NEW c \in Clients, BeginDelete(c) \/ ReadVersion(c) \/ Fails(c)
  PROVE  Quiet(c)
<1>1. CASE BeginDelete(c)
  BY <1>1, Tells DEF BeginDelete, Quiet, Keeps, store
<1>2. CASE ReadVersion(c)
  BY <1>2, Tells DEF ReadVersion, Quiet, Keeps, store
<1>3. CASE Fails(c)
  BY <1>3, Tells DEF Fails, Quiet, Keeps, store
<1> QED
  BY <1>1, <1>2, <1>3

LEMMA CosmosQuiet ==
  ASSUME Keeps, NEW c \in Clients, provider = "cosmosdb",
         \/ ProbeForCreate(c) \/ WhyOccupied(c) \/ ReadIndexForCreate(c) \/ ProbeForDelete(c)
         \/ NothingLeft(c) \/ DrainEdges(c) \/ SizeEntities(c) \/ DrainEntities(c)
         \/ CountRemaining(c) \/ ReadIndexForDelete(c) \/ RemoveFromIndex(c) \/ CheckAndAdd(c)
         \/ Land(c) \/ BeginRemove(c) \/ RemoveChunk(c) \/ ReadBatch(c) \/ DropBatch(c)
         \/ AssertMarker(c) \/ DropEdgeBatch(c) \/ ClearEntities(c) \/ MatchVersion(c)
         \/ WriteRecord(c) \/ ReadState(c) \/ EnsureRecord(c) \/ UnlessRecreated(c) \/ PutRecord(c)
  PROVE  Quiet(c)
<1>1. CASE ProbeForCreate(c)
  BY <1>1, Tells DEF ProbeForCreate, Quiet, Keeps, store, ChangesData
<1>2. CASE WhyOccupied(c)
  BY <1>2, Tells DEF WhyOccupied, Quiet, Keeps, store, ChangesData
<1>3. CASE ReadIndexForCreate(c)
  BY <1>3, Tells DEF ReadIndexForCreate, Quiet, Keeps, store, ChangesData
<1>4. CASE ProbeForDelete(c)
  BY <1>4, Tells DEF ProbeForDelete, Quiet, Keeps, store, ChangesData
<1>5. CASE NothingLeft(c)
  BY <1>5, Tells DEF NothingLeft, Quiet, Keeps, store, ChangesData
<1>6. CASE DrainEdges(c)
  BY <1>6, Tells DEF DrainEdges, Quiet, Keeps, store, ChangesData
<1>7. CASE SizeEntities(c)
  BY <1>7, Tells DEF SizeEntities, Quiet, Keeps, store, ChangesData
<1>8. CASE DrainEntities(c)
  BY <1>8, Tells DEF DrainEntities, Quiet, Keeps, store, ChangesData
<1>9. CASE CountRemaining(c)
  BY <1>9, Tells DEF CountRemaining, Quiet, Keeps, store, ChangesData
<1>10. CASE ReadIndexForDelete(c)
  BY <1>10, Tells DEF ReadIndexForDelete, Quiet, Keeps, store, ChangesData
<1>11. CASE RemoveFromIndex(c)
  BY <1>11, Tells DEF RemoveFromIndex, Quiet, Keeps, store, ChangesData
<1>12. CASE CheckAndAdd(c)
  BY <1>12, Tells DEF CheckAndAdd, Quiet, Keeps, store, ChangesData
<1>13. CASE Land(c)
  BY <1>13, Tells DEF Land, Quiet, Keeps, store, ChangesData
<1>14. CASE BeginRemove(c)
  BY <1>14, Tells DEF BeginRemove, Quiet, Keeps, store, ChangesData
<1>15. CASE RemoveChunk(c)
  BY <1>15, Tells DEF RemoveChunk, Quiet, Keeps, store, ChangesData
<1>16. CASE ReadBatch(c)
  BY <1>16, Tells DEF ReadBatch, Quiet, Keeps, store, ChangesData
<1>17. CASE DropBatch(c)
  BY <1>17, Tells DEF DropBatch, Quiet, Keeps, store, ChangesData
<1>18. CASE AssertMarker(c)
  BY <1>18, Tells DEF AssertMarker, Quiet, Keeps, store, ChangesData
<1>19. CASE DropEdgeBatch(c)
  BY <1>19, Tells DEF DropEdgeBatch, Quiet, Keeps, store, ChangesData
<1>20. CASE ClearEntities(c)
  BY <1>20, Tells DEF ClearEntities, Quiet, Keeps, store, ChangesData
<1>21. CASE MatchVersion(c)
  BY <1>21, Tells DEF MatchVersion, Quiet, Keeps, store, ChangesData
<1>22. CASE WriteRecord(c)
  BY <1>22, Tells DEF WriteRecord, Quiet, Keeps, store, ChangesData
<1>23. CASE ReadState(c)
  BY <1>23, Tells DEF ReadState, Quiet, Keeps, store, ChangesData
<1>24. CASE EnsureRecord(c)
  BY <1>24, Tells DEF EnsureRecord, Quiet, Keeps, store, ChangesData
<1>25. CASE UnlessRecreated(c)
  BY <1>25, Tells DEF UnlessRecreated, Quiet, Keeps, store, ChangesData
<1>26. CASE PutRecord(c)
  BY <1>26, Tells DEF PutRecord, Quiet, Keeps, store, ChangesData
<1> QED
  BY <1>1, <1>2, <1>3, <1>4, <1>5, <1>6, <1>7, <1>8, <1>9, <1>10, <1>11, <1>12, <1>13, <1>14, <1>15, <1>16, <1>17, <1>18, <1>19, <1>20, <1>21, <1>22, <1>23, <1>24, <1>25, <1>26

LEMMA Neo4jQuiet ==
  ASSUME Keeps, NEW c \in Clients, provider = "neo4j",
         \/ ReadRepositoryToken(c) \/ DrainRelationships(c) \/ DetachEntities(c)
         \/ DrainChangeLog(c) \/ SweepNodes(c) \/ AssertBeforeClear(c) \/ AddItem(c)
         \/ ReadToken(c) \/ DeleteByIds(c) \/ DeleteTypeBatch(c) \/ DeleteEdgesOfPage(c)
         \/ ReadSaveOutcome(c)
  PROVE  Quiet(c)
<1>1. CASE ReadRepositoryToken(c)
  BY <1>1, Tells DEF ReadRepositoryToken, Quiet, Keeps, store, ChangesData, Unmarked
<1>2. CASE DrainRelationships(c)
  BY <1>2, Tells DEF DrainRelationships, Quiet, Keeps, store, ChangesData, Drains
<1>3. CASE DetachEntities(c)
  BY <1>3, Tells DEF DetachEntities, Quiet, Keeps, store, ChangesData, DrainNodes, Drains, Unmarked
<1>4. CASE DrainChangeLog(c)
  BY <1>4, Tells DEF DrainChangeLog, Quiet, Keeps, store, ChangesData, DrainNodes, Drains, Unmarked
<1>5. CASE SweepNodes(c)
  BY <1>5, Tells DEF SweepNodes, Quiet, Keeps, store, ChangesData, DrainNodes, Drains, Unmarked
<1>6. CASE AssertBeforeClear(c)
  BY <1>6, Tells DEF AssertBeforeClear, Quiet, Keeps, store, ChangesData, Unmarked
<1>7. CASE AddItem(c)
  BY <1>7, Tells DEF AddItem, Quiet, Keeps, store, ChangesData
<1>8. CASE ReadToken(c)
  BY <1>8, Tells DEF ReadToken, Quiet, Keeps, store, ChangesData, Unmarked
<1>9. CASE DeleteByIds(c)
  BY <1>9, Tells DEF DeleteByIds, Quiet, Keeps, store, ChangesData
<1>10. CASE DeleteTypeBatch(c)
  BY <1>10, Tells DEF DeleteTypeBatch, Quiet, Keeps, store, ChangesData
<1>11. CASE DeleteEdgesOfPage(c)
  BY <1>11, Tells DEF DeleteEdgesOfPage, Quiet, Keeps, store, ChangesData, Drains
<1>12. CASE ReadSaveOutcome(c)
  BY <1>12, Tells DEF ReadSaveOutcome, Quiet, Keeps, store, ChangesData, Unmarked
<1> QED
  BY <1>1, <1>2, <1>3, <1>4, <1>5, <1>6, <1>7, <1>8, <1>9, <1>10, <1>11, <1>12

LEMMA RowAnswers ==
  ASSUME NEW c, NEW cl, NEW k, NEW j, NEW how,
         RowOver(cl, c, k, j, how) \/ RowAgain(cl, c, k, j) \/ RowResent(cl, c, k, j)
  PROVE  Answers(c)
BY DEF Answers, RowOver, RowAgain, RowResent

LEMMA CosmosImportQuiet ==
  ASSUME Keeps, NEW c \in Clients, provider = "cosmosdb", CosmosImportStep(c) \/ CosmosImportTrouble(c)
  PROVE  Quiet(c)
<1>1. CASE OpenImport(c)
  BY <1>1, Tells DEF OpenImport, Quiet, Keeps, store
<1>2. CASE CloseImport(c)
  BY <1>2, Tells DEF CloseImport, Quiet, Keeps, store
<1>3. ASSUME NEW k, CheckChunk(c, k) PROVE Quiet(c)
  BY <1>3, Tells DEF CheckChunk, Quiet, Keeps, store
<1>4. ASSUME NEW k, DispatchRow(c, k) PROVE Quiet(c)
  BY <1>4, Tells DEF DispatchRow, Quiet, Keeps, store
<1>5. ASSUME NEW k, PoolEnds(c, k) PROVE Quiet(c)
  BY <1>5, Tells DEF PoolEnds, Quiet, Keeps, store
<1>6. ASSUME NEW k, NEW j, FindRow(c, k, j) PROVE Quiet(c)
  <2>1. Answers(c)
    BY <1>6, RowAnswers, Tells DEF FindRow
  <2> QED
    BY <1>6, <2>1 DEF FindRow, Quiet, Keeps, store
<1>7. ASSUME NEW k, NEW j, LandRow(c, k, j) PROVE Quiet(c)
  <2>1. Answers(c)
    BY <1>7, RowAnswers, Tells DEF LandRow
  <2>2. DOMAIN data' = Repositories
    BY <1>7 DEF LandRow, ChangesData, Keeps
  <2> QED
    BY <1>7, <2>1, <2>2 DEF LandRow, Quiet
<1>8. ASSUME NEW k, NEW j, RowTrouble(c, k, j) PROVE Quiet(c)
  <2>1. Answers(c)
    BY <1>8, RowAnswers, Tells DEF RowTrouble
  <2> QED
    BY <1>8, <2>1 DEF RowTrouble, Quiet, Keeps, store
<1> QED
  BY <1>1, <1>2, <1>3, <1>4, <1>5, <1>6, <1>7, <1>8 DEF CosmosImportStep, CosmosImportTrouble

LEMMA Neo4jImportQuiet ==
  ASSUME Keeps, NEW c \in Clients, provider = "neo4j", ImportStep(c) \/ ImportTrouble(c)
  PROVE  Quiet(c)
<1>1. CASE BeginImport(c)
  BY <1>1, Tells DEF BeginImport, Quiet, Keeps, store, Unmarked
<1>2. CASE EndImport(c)
  BY <1>2, Tells DEF EndImport, Quiet, Keeps, store, Unmarked
<1>3. ASSUME NEW k, Dispatch(c, k) PROVE Quiet(c)
  BY <1>3, Tells DEF Dispatch, Quiet, Keeps, store, Unmarked
<1>4. ASSUME NEW k, SendChunk(c, k) PROVE Quiet(c)
  BY <1>4, Tells DEF SendChunk, Quiet, Keeps, ChangesData
<1>5. ASSUME NEW k, CountCarrying(c, k) PROVE Quiet(c)
  BY <1>5, Tells DEF CountCarrying, Quiet, Keeps, store, Unmarked
<1>6. ASSUME NEW k, ImportRow(c, k) PROVE Quiet(c)
  BY <1>6, Tells DEF ImportRow, Quiet, Keeps, ChangesData
<1>7. ASSUME NEW k, ReadTokens(c, k) PROVE Quiet(c)
  BY <1>7, Tells DEF ReadTokens, Quiet, Keeps, store, Unmarked
<1>8. ASSUME NEW k, ChunkFails(c, k) PROVE Quiet(c)
  BY <1>8, Tells DEF ChunkFails, Quiet, Keeps, store, Unmarked
<1> QED
  BY <1>1, <1>2, <1>3, <1>4, <1>5, <1>6, <1>7, <1>8 DEF ImportStep, ImportTrouble

\* A request of SQL Server that changes no repository adds rows of the one that has the id, with
\* the call's token, or takes rows away.
RowsOnly(c) ==
  /\ Answers(c) /\ UNCHANGED <<marker, vocabulary, swept, late>>
  /\ \/ UNCHANGED data
     \/ \E items :
          /\ data' = [data EXCEPT ![Repo(c)] = items]
          /\ marker[Repo(c)] = None => items \subseteq data[Repo(c)]
          /\ \A d \in items : d \in data[Repo(c)] \/ (d.of = marker[Repo(c)] /\ d.by[1] = c)

LEMMA DeletesRowsOnly ==
  ASSUME NEW c, NEW gone, NEW cl, DeletesRows(c, gone, cl), UNCHANGED OnlyData
  PROVE  RowsOnly(c)
<1>1. Answers(c)
  BY Tells DEF DeletesRows
<1>2. UNCHANGED data \/ data' = [data EXCEPT ![Repo(c)] = data[Repo(c)] \ gone]
  BY DEF DeletesRows, ChangesData
<1> QED
  BY <1>1, <1>2 DEF RowsOnly, OnlyData

LEMMA SqlRowsOnly ==
  ASSUME NEW c \in Clients,
         \/ LookForRepository(c) \/ AssertForClear(c) \/ DeleteRelationships(c) \/ DeleteEntities(c)
         \/ DeleteEntityEdges(c) \/ DeleteEntityRow(c) \/ ExplainMiss(c) \/ GuardedDelete(c)
         \/ AssertForCreate(c) \/ LookForEntity(c) \/ ReadPreconditions(c) \/ InsertRow(c)
         \/ ExplainForeignKey(c) \/ ImportInOneTransaction(c)
  PROVE  RowsOnly(c)
<1>1. CASE LookForRepository(c) \/ AssertForClear(c) \/ ExplainMiss(c) \/ AssertForCreate(c)
           \/ LookForEntity(c) \/ ReadPreconditions(c) \/ ExplainForeignKey(c)
  BY <1>1, Tells DEF RowsOnly, store, Unchanged, LookForRepository, AssertForClear, ExplainMiss,
     AssertForCreate, LookForEntity, ReadPreconditions, ExplainForeignKey
<1>2. CASE DeleteRelationships(c) \/ DeleteEntities(c) \/ DeleteEntityEdges(c)
  BY <1>2, DeletesRowsOnly DEF DeleteRelationships, DeleteEntities, DeleteEntityEdges
<1>3. CASE DeleteEntityRow(c)
  <2>1. UNCHANGED OnlyData
    BY <1>3 DEF DeleteEntityRow
  <2>2. (\E gone, cl : DeletesRows(c, gone, cl)) \/ (UNCHANGED data /\ Becomes(c, Goes(c, "miss")))
    BY <1>3 DEF DeleteEntityRow
  <2> QED
    BY <2>1, <2>2, DeletesRowsOnly, Tells DEF RowsOnly, OnlyData
<1>4. CASE GuardedDelete(c)
  <2>1. UNCHANGED OnlyData
    BY <1>4 DEF GuardedDelete
  <2>2. (\E gone, cl : DeletesRows(c, gone, cl)) \/ (UNCHANGED data /\ Becomes(c, Missing(c)))
    BY <1>4 DEF GuardedDelete
  <2> QED
    BY <2>1, <2>2, DeletesRowsOnly, Tells DEF RowsOnly, OnlyData
<1>5. CASE InsertRow(c)
  <2>1. Answers(c) /\ UNCHANGED OnlyData
    BY <1>5, Tells DEF InsertRow
  <2>2. UNCHANGED data \/ (data' = [data EXCEPT ![Repo(c)] = data[Repo(c)] \cup {NewItem(c, marker[Repo(c)])}]
                           /\ marker[Repo(c)] # None)
    BY <1>5 DEF InsertRow, ChangesData, RefersToRows
  <2>3. NewItem(c, marker[Repo(c)]).of = marker[Repo(c)] /\ NewItem(c, marker[Repo(c)]).by[1] = c
    BY DEF NewItem, Item, Token
  <2> QED
    BY <2>1, <2>2, <2>3 DEF RowsOnly, OnlyData
<1>6. CASE ImportInOneTransaction(c)
  <2> DEFINE added == {Item(RowOf(c, row).id, RowOf(c, row).kind, marker[Repo(c)], RowOf(c, row).ends,
                            Token(c, 0, 0)) : row \in {w \in Rows(c) : StoredUnder(c, w) = {}}}
  <2>1. Answers(c) /\ UNCHANGED OnlyData
    BY <1>6, Tells DEF ImportInOneTransaction
  <2>2. UNCHANGED data \/ (data' = [data EXCEPT ![Repo(c)] = data[Repo(c)] \cup added]
                           /\ marker[Repo(c)] # None)
    BY <1>6 DEF ImportInOneTransaction, ChangesData, RepositoryExists
  <2>3. \A d \in added : d.of = marker[Repo(c)] /\ d.by[1] = c
    BY DEF Item, Token
  <2> HIDE DEF added
  <2> QED
    BY <2>1, <2>2, <2>3 DEF RowsOnly, OnlyData
<1> QED
  BY <1>1, <1>2, <1>3, <1>4, <1>5, <1>6

LEMMA RowsQuiet ==
  ASSUME Base, NEW c \in Clients, RowsOnly(c), UNCHANGED provider
  PROVE  Quiet(c) /\ Rooted'
<1>1. CASE UNCHANGED data
  <2>1. Quiet(c)
    BY <1>1 DEF RowsOnly, Quiet, Base, Keeps
  <2>2. Rooted'
    BY <1>1 DEF RowsOnly, Base, Rooted
  <2> QED
    BY <2>1, <2>2
<1>2. CASE data' # data
  <2>1. PICK items : /\ data' = [data EXCEPT ![Repo(c)] = items]
                     /\ marker[Repo(c)] = None => items \subseteq data[Repo(c)]
                     /\ \A d \in items : d \in data[Repo(c)] \/ (d.of = marker[Repo(c)] /\ d.by[1] = c)
    BY <1>2 DEF RowsOnly
  <2>2. Quiet(c)
    BY <2>1 DEF RowsOnly, Quiet, Base, Keeps
  <2>3. Rooted'
    <3> SUFFICES ASSUME provider = "sqlserver", NEW r \in Repositories
                 PROVE  /\ marker[r] = None => data'[r] = {} /\ vocabulary[r] = {}
                        /\ \A d \in data'[r] : d.of = marker[r]
      BY DEF RowsOnly, Rooted
    <3>1. /\ marker[r] = None => data[r] = {} /\ vocabulary[r] = {}
          /\ \A d \in data[r] : d.of = marker[r]
      BY DEF Base, Rooted
    <3>2. data'[r] = data[r] \/ (r = Repo(c) /\ data'[r] = items)
      BY <2>1 DEF Base, Keeps
    <3> QED
      BY <2>1, <3>1, <3>2
  <2> QED
    BY <2>2, <2>3
<1> QED
  BY <1>1, <1>2

-----------------------------------------------------------------------------
(* The vocabularies that a step may leave.                                 *)

\* It leaves no vocabulary that it has not told its call of.
Honest(c) ==
  /\ Answers(c)
  /\ DOMAIN marker' = Repositories /\ DOMAIN vocabulary' = Repositories /\ DOMAIN data' = Repositories
  /\ \A r \in Repositories : \A v \in vocabulary'[r] :
       v \in vocabulary[r] \/ (v.by = c /\ (Op(c) = "create" \/ call'[c].stored))
  /\ late' = late \/ provider = "cosmosdb"

LEMMA QuietIsHonest ==
  ASSUME Keeps, NEW c, Quiet(c)
  PROVE  Honest(c)
BY DEF Quiet, Honest, Keeps

LEMMA CosmosHonest ==
  ASSUME Base, NEW c \in Clients, provider = "cosmosdb",
         WriteVocabulary(c) \/ WriteMarker(c) \/ DropMarker(c) \/ DrainVertices(c) \/ CompareAndSet(c)
  PROVE  Honest(c)
<1>0. Fits(c, call[c], c \in alive) /\ IsCall(call[c]) /\ Keeps
  BY DEF Base, Local, Fits
<1>1. CASE WriteVocabulary(c)
  <2>1. Answers(c) /\ UNCHANGED <<marker, data, late>>
    BY <1>1, Tells DEF WriteVocabulary
  <2>2. Op(c) = "create"
    BY <1>0, <1>1 DEF WriteVocabulary, Fits, PcFits
  <2>3. vocabulary' = vocabulary \/ vocabulary' = [vocabulary EXCEPT ![Repo(c)] = {[of |-> c, by |-> c, version |-> 0]}]
    BY <1>1 DEF WriteVocabulary
  <2> QED
    BY <1>0, <2>1, <2>2, <2>3 DEF Honest, Keeps
<1>2. CASE WriteMarker(c)
  BY <1>0, <1>2, Tells DEF WriteMarker, Honest, Keeps
<1>3. CASE DropMarker(c)
  BY <1>0, <1>3, Tells DEF DropMarker, Honest, Keeps
<1>4. CASE DrainVertices(c)
  <2>1. Answers(c) /\ UNCHANGED <<marker, late>> /\ DOMAIN data' = Repositories
    BY <1>0, <1>4, Tells DEF DrainVertices, ChangesData, Keeps
  <2>2. vocabulary' = vocabulary \/ \E batch : vocabulary' = [vocabulary EXCEPT ![Repo(c)] = @ \ batch]
    BY <1>4 DEF DrainVertices
  <2> QED
    BY <1>0, <2>1, <2>2 DEF Honest, Keeps
<1>5. CASE CompareAndSet(c)
  <2>1. Answers(c) /\ UNCHANGED <<marker, data, late>>
    BY <1>5, Tells DEF CompareAndSet
  <2>2. CASE UNCHANGED vocabulary
    BY <1>0, <2>1, <2>2 DEF Honest, Keeps
  <2>3. CASE vocabulary' # vocabulary
    <3> DEFINE saved == {[[of |-> c, by |-> c, version |-> call[c].version + 1] EXCEPT !.of = v.of] :
                           v \in call[c].seen}
               d == [Goes(c, "record") EXCEPT !.stored = TRUE]
               e == [Replies(c, "failed") EXCEPT !.stored = TRUE]
    <3>1. /\ vocabulary' = [vocabulary EXCEPT ![Repo(c)] = saved]
          /\ Submitted(c, d, "match") \/ Becomes(c, e)
      BY <1>5, <2>3 DEF CompareAndSet
    <3>2. \A v \in saved : v.by = c
      OBVIOUS
    <3>3. d.stored = TRUE /\ e.stored = TRUE
      BY <1>0, GoesIs, RepliesIs DEF IsCall, Fields
    <3> HIDE DEF saved, d, e
    <3>4. call'[c].stored
      <4> DEFINE again == [Goes(c, "match") EXCEPT !.resent = TRUE, !.stored = d.stored,
                             !.recorded = d.recorded, !.wrote = d.wrote, !.took = d.took,
                             !.caught = d.caught]
      <4>1. Becomes(c, d) \/ Becomes(c, again) \/ Becomes(c, e)
        BY <3>1 DEF Submitted
      <4>2. again.stored = TRUE
        BY <1>0, <3>3, GoesIs DEF IsCall, Fields
      <4> HIDE DEF again
      <4> QED
        BY <1>0, <3>3, <4>1, <4>2, BecomesIs
    <3> QED
      BY <1>0, <2>1, <3>1, <3>2, <3>4 DEF Honest, Keeps
  <2> QED
    BY <2>2, <2>3
<1> QED
  BY <1>1, <1>2, <1>3, <1>4, <1>5

\* A statement whose call says that it was stored.
LEMMA StoredIsTold ==
  ASSUME Keeps, NEW c \in Clients, IsCall(call[c]), NEW cl, cl.stored = TRUE,
         Submitted(c, cl, "match") \/ Answered(c, cl)
  PROVE  call'[c].stored
<1> DEFINE again == [Goes(c, "match") EXCEPT !.resent = TRUE, !.stored = cl.stored,
                       !.recorded = cl.recorded, !.wrote = cl.wrote, !.took = cl.took,
                       !.caught = cl.caught]
           lost == [Replies(c, "failed") EXCEPT !.stored = cl.stored, !.recorded = cl.recorded]
<1>1. Becomes(c, cl) \/ Becomes(c, again) \/ Becomes(c, lost)
  BY DEF Submitted, Answered
<1>2. again.stored = TRUE /\ lost.stored = TRUE
  BY GoesIs, RepliesIs DEF IsCall, Fields
<1> HIDE DEF again, lost
<1> QED
  BY <1>1, <1>2, BecomesIs

LEMMA Neo4jHonest ==
  ASSUME Base, NEW c \in Clients, provider = "neo4j",
         CreateRepository(c) \/ DetachMarker(c) \/ DetachVocabulary(c) \/ SaveVocabulary(c)
  PROVE  Honest(c)
<1>0. Fits(c, call[c], c \in alive) /\ IsCall(call[c]) /\ Keeps
  BY DEF Base, Local, Fits
<1>1. CASE CreateRepository(c)
  <2>1. Answers(c) /\ UNCHANGED <<data, late>> /\ Op(c) = "create"
    BY <1>1, Tells DEF CreateRepository
  <2>2. /\ marker' = marker \/ marker' = [marker EXCEPT ![Repo(c)] = c]
        /\ vocabulary' = vocabulary \/ vocabulary' = [vocabulary EXCEPT ![Repo(c)] = {[of |-> c, by |-> c, version |-> 0]}]
    BY <1>1 DEF CreateRepository
  <2> QED
    BY <1>0, <2>1, <2>2 DEF Honest, Keeps
<1>2. CASE DetachMarker(c)
  BY <1>0, <1>2, Tells DEF DetachMarker, Honest, Keeps
<1>3. CASE DetachVocabulary(c)
  BY <1>0, <1>3, Tells DEF DetachVocabulary, Honest, Keeps
<1>4. CASE SaveVocabulary(c)
  <2>1. Answers(c) /\ UNCHANGED <<marker, late>> /\ DOMAIN data' = Repositories
    BY <1>0, <1>4, Tells DEF SaveVocabulary, ChangesData, Keeps
  <2>2. CASE UNCHANGED vocabulary
    BY <1>0, <2>1, <2>2 DEF Honest, Keeps
  <2>3. CASE vocabulary' # vocabulary
    <3> DEFINE d == [Replies(c, "saved") EXCEPT !.stored = TRUE, !.recorded = TRUE]
               matching == {v \in vocabulary[Repo(c)] : Locked(c) /\ v.version = call[c].version}
               saved == {[of |-> v.of, by |-> c, version |-> v.version + 1] : v \in matching}
    <3>1. vocabulary' = [vocabulary EXCEPT ![Repo(c)] = saved] /\ Submitted(c, d, "match")
      BY <1>4, <2>3 DEF SaveVocabulary
    <3>2. d.stored = TRUE /\ \A v \in saved : v.by = c
      BY <1>0, RepliesIs DEF IsCall, Fields
    <3> HIDE DEF d, matching, saved
    <3>3. call'[c].stored
      BY <1>0, <3>1, <3>2, StoredIsTold
    <3> QED
      BY <1>0, <2>1, <3>1, <3>2, <3>3 DEF Honest, Keeps
  <2> QED
    BY <2>2, <2>3
<1> QED
  BY <1>1, <1>2, <1>3, <1>4

LEMMA SqlHonest ==
  ASSUME Base, NEW c \in Clients, provider = "sqlserver",
         InsertRepository(c) \/ InsertVocabulary(c) \/ DeleteRepository(c) \/ UpdateVocabulary(c)
  PROVE  Honest(c)
<1>0. Fits(c, call[c], c \in alive) /\ IsCall(call[c]) /\ Keeps
  BY DEF Base, Local, Fits
<1>1. CASE InsertRepository(c)
  BY <1>0, <1>1, Tells DEF InsertRepository, Honest, Keeps
<1>2. CASE InsertVocabulary(c)
  <2>1. Answers(c) /\ UNCHANGED <<marker, data, late>>
    BY <1>2, Tells DEF InsertVocabulary
  <2>2. Op(c) = "create"
    BY <1>0, <1>2 DEF InsertVocabulary, Fits, PcFits
  <2>3. vocabulary' = vocabulary \/ vocabulary' = [vocabulary EXCEPT ![Repo(c)] = {[of |-> marker[Repo(c)], by |-> c, version |-> 0]}]
    BY <1>2 DEF InsertVocabulary
  <2> QED
    BY <1>0, <2>1, <2>2, <2>3 DEF Honest, Keeps
<1>3. CASE DeleteRepository(c)
  BY <1>0, <1>3, Tells DEF DeleteRepository, ChangesData, Honest, Keeps
<1>4. CASE UpdateVocabulary(c)
  <2>1. Answers(c) /\ UNCHANGED <<marker, late>> /\ DOMAIN data' = Repositories
    BY <1>0, <1>4, Tells DEF UpdateVocabulary, ChangesData, Keeps
  <2>2. CASE UNCHANGED vocabulary
    BY <1>0, <2>1, <2>2 DEF Honest, Keeps
  <2>3. CASE vocabulary' # vocabulary
    <3> DEFINE d == [Replies(c, "saved") EXCEPT !.stored = TRUE, !.recorded = TRUE]
               matching == {v \in vocabulary[Repo(c)] : v.version = call[c].version}
               saved == {[of |-> v.of, by |-> c, version |-> v.version + 1] : v \in matching}
    <3>1. vocabulary' = [vocabulary EXCEPT ![Repo(c)] = saved] /\ Answered(c, d)
      BY <1>4, <2>3 DEF UpdateVocabulary
    <3>2. d.stored = TRUE /\ \A v \in saved : v.by = c
      BY <1>0, RepliesIs DEF IsCall, Fields
    <3> HIDE DEF d, matching, saved
    <3>3. call'[c].stored
      BY <1>0, <3>1, <3>2, StoredIsTold
    <3> QED
      BY <1>0, <2>1, <3>1, <3>2, <3>3 DEF Honest, Keeps
  <2> QED
    BY <2>2, <2>3
<1> QED
  BY <1>1, <1>2, <1>3, <1>4

LEMMA SqlRooted ==
  ASSUME Base, NEW c \in Clients, provider = "sqlserver", UNCHANGED provider,
         InsertRepository(c) \/ InsertVocabulary(c) \/ DeleteRepository(c) \/ UpdateVocabulary(c)
  PROVE  Rooted'
<1>0. Keeps
  BY DEF Base
<1>1. \A r \in Repositories : /\ marker[r] = None => data[r] = {} /\ vocabulary[r] = {}
                              /\ \A d \in data[r] : d.of = marker[r]
  BY DEF Base, Rooted
<1>2. CASE InsertRepository(c)
  <2>1. UNCHANGED <<data, vocabulary>>
    BY <1>2 DEF InsertRepository
  <2>2. marker' = marker \/ (marker[Repo(c)] = None /\ marker' = [marker EXCEPT ![Repo(c)] = c])
    BY <1>2 DEF InsertRepository
  <2> SUFFICES ASSUME NEW r \in Repositories
               PROVE  /\ marker'[r] = None => data[r] = {} /\ vocabulary[r] = {}
                      /\ \A d \in data[r] : d.of = marker'[r]
    BY <2>1 DEF Rooted
  <2>3. marker'[r] = marker[r] \/ marker[r] = None
    BY <1>0, <2>2 DEF Keeps
  <2> QED
    BY <1>1, <2>3
<1>3. CASE InsertVocabulary(c)
  <2>1. UNCHANGED <<data, marker>>
    BY <1>3 DEF InsertVocabulary
  <2>2. vocabulary' = vocabulary \/ (marker[Repo(c)] # None /\ \E v : vocabulary' = [vocabulary EXCEPT ![Repo(c)] = v])
    BY <1>3 DEF InsertVocabulary, RepositoryExists
  <2> QED
    BY <1>0, <1>1, <2>1, <2>2 DEF Rooted, Keeps
<1>4. CASE DeleteRepository(c)
  BY <1>0, <1>1, <1>4 DEF DeleteRepository, ChangesData, Rooted, Keeps
<1>5. CASE UpdateVocabulary(c)
  <2>1. UNCHANGED marker
    BY <1>5 DEF UpdateVocabulary
  <2> DEFINE item == ChangeRecord(c, "record", marker[Repo(c)])
  <2>2. (vocabulary' = vocabulary /\ data' = data)
        \/ (/\ vocabulary[Repo(c)] # {} /\ data' = [data EXCEPT ![Repo(c)] = data[Repo(c)] \cup {item}]
            /\ \E v : vocabulary' = [vocabulary EXCEPT ![Repo(c)] = v])
    BY <1>5 DEF UpdateVocabulary, ChangesData
  <2>3. item.of = marker[Repo(c)]
    BY DEF ChangeRecord, Item
  <2> HIDE DEF item
  <2> SUFFICES ASSUME NEW r \in Repositories
               PROVE  /\ marker[r] = None => data'[r] = {} /\ vocabulary'[r] = {}
                      /\ \A d \in data'[r] : d.of = marker[r]
    BY <2>1 DEF Rooted
  <2>4. \/ data'[r] = data[r] /\ vocabulary'[r] = vocabulary[r]
        \/ r = Repo(c) /\ vocabulary[r] # {} /\ data'[r] = data[r] \cup {item}
    BY <1>0, <2>2 DEF Keeps
  <2> QED
    BY <1>1, <2>3, <2>4
<1> QED
  BY <1>2, <1>3, <1>4, <1>5

-----------------------------------------------------------------------------
(* The steps of the store.                                                 *)

\* Who steps has been asked and has not answered.
Acts(c) == call[c].pc # "done" /\ Op(c) # None

LEMMA CommonActs ==
  ASSUME Requests, NEW c, BeginDelete(c) \/ ReadVersion(c) \/ Fails(c)
  PROVE  Acts(c)
<1>1. c \in DOMAIN request => Op(c) # None
  BY DEF Requests, Op, Operations, None
<1> QED
  BY <1>1 DEF BeginDelete, ReadVersion, Fails, Acts, None

LEMMA CosmosActs ==
  ASSUME NEW c, Fits(c, call[c], c \in alive), CosmosStep(c)
  PROVE  Acts(c)
<1> USE DEF Acts, Fits, PcFits, None
<1>1. CASE Creates(c)
  BY <1>1 DEF Creates, ProbeForCreate, WhyOccupied, WriteVocabulary, ReadIndexForCreate, WriteMarker
<1>2. CASE Deletes(c)
  BY <1>2 DEF Deletes, DropMarker, ProbeForDelete, NothingLeft, DrainEdges, SizeEntities,
              UnlessRecreated, DrainEntities, DrainVertices, CountRemaining, ReadIndexForDelete, RemoveFromIndex
<1>3. CASE Writes(c)
  BY <1>3 DEF Writes, CheckAndAdd, Land, BeginRemove, RemoveChunk, ReadBatch, DropBatch, AssertMarker,
              DropEdgeBatch, ClearEntities
<1>4. CASE Saves(c)
  BY <1>4 DEF Saves, MatchVersion, CompareAndSet, WriteRecord, ReadState, EnsureRecord, PutRecord
<1> QED
  BY <1>1, <1>2, <1>3, <1>4 DEF CosmosStep

LEMMA CosmosImportActs ==
  ASSUME NEW c, Fits(c, call[c], c \in alive), CosmosImportStep(c) \/ CosmosImportTrouble(c)
  PROVE  Acts(c)
<1>1. call[c].pc = "importing" \/ (call[c].pc = "idle" /\ Op(c) = "import")
  BY DEF CosmosImportStep, CosmosImportTrouble, OpenImport, CloseImport
<1> QED
  BY <1>1 DEF Acts, Fits, PcFits, None

LEMMA Neo4jActs ==
  ASSUME NEW c, Fits(c, call[c], c \in alive), Neo4jStep(c)
  PROVE  Acts(c)
<1> USE DEF Acts, Fits, PcFits, None
<1>1. CASE \/ CreateRepository(c) \/ ReadRepositoryToken(c) \/ DetachMarker(c)
           \/ DrainRelationships(c) \/ DetachEntities(c) \/ DrainChangeLog(c) \/ SweepNodes(c)
           \/ DetachVocabulary(c) \/ AssertBeforeClear(c)
  BY <1>1 DEF CreateRepository, ReadRepositoryToken, DetachMarker, DrainRelationships, DetachEntities,
              DrainChangeLog, SweepNodes, DetachVocabulary, AssertBeforeClear
<1>2. CASE \/ AddItem(c) \/ ReadToken(c) \/ DeleteByIds(c) \/ DeleteTypeBatch(c)
           \/ DeleteEdgesOfPage(c) \/ SaveVocabulary(c) \/ ReadSaveOutcome(c)
  BY <1>2 DEF AddItem, ReadToken, DeleteByIds, DeleteTypeBatch, DeleteEdgesOfPage, SaveVocabulary,
              ReadSaveOutcome
<1> QED
  BY <1>1, <1>2 DEF Neo4jStep

LEMMA Neo4jImportActs ==
  ASSUME NEW c, Fits(c, call[c], c \in alive), ImportStep(c) \/ ImportTrouble(c)
  PROVE  Acts(c)
<1>1. call[c].pc = "importing" \/ (call[c].pc = "idle" /\ Op(c) = "import")
  BY DEF ImportStep, ImportTrouble, BeginImport, EndImport
<1> QED
  BY <1>1 DEF Acts, Fits, PcFits, None

LEMMA SqlActs ==
  ASSUME NEW c, Fits(c, call[c], c \in alive), SqlServerStep(c)
  PROVE  Acts(c)
<1> USE DEF Acts, Fits, PcFits, None
<1>1. CASE \/ LookForRepository(c) \/ InsertRepository(c) \/ InsertVocabulary(c) \/ DeleteRepository(c)
           \/ AssertForClear(c) \/ DeleteRelationships(c) \/ DeleteEntities(c) \/ DeleteEntityEdges(c)
           \/ DeleteEntityRow(c)
  BY <1>1 DEF LookForRepository, InsertRepository, InsertVocabulary, DeleteRepository, AssertForClear,
              DeleteRelationships, DeleteEntities, DeleteEntityEdges, DeleteEntityRow
<1>2. CASE \/ ExplainMiss(c) \/ GuardedDelete(c) \/ AssertForCreate(c) \/ LookForEntity(c)
           \/ ReadPreconditions(c) \/ InsertRow(c) \/ ExplainForeignKey(c) \/ UpdateVocabulary(c)
           \/ ImportInOneTransaction(c)
  BY <1>2 DEF ExplainMiss, GuardedDelete, AssertForCreate, LookForEntity, ReadPreconditions, InsertRow,
              ExplainForeignKey, UpdateVocabulary, ImportInOneTransaction
<1> QED
  BY <1>1, <1>2 DEF SqlServerStep

\* What a step of a call does, whatever the store.
LEMMA StepIs ==
  ASSUME Base, NEW c \in Clients, Step(c) \/ Trouble(c), UNCHANGED provider
  PROVE  Acts(c) /\ Good(c, call'[c]) /\ Honest(c) /\ Rooted'
<1>0. Fits(c, call[c], c \in alive) /\ Keeps /\ Requests
  BY DEF Base, Local
<1>1. CASE BeginDelete(c) \/ ReadVersion(c) \/ Fails(c)
  <2>1. RowsOnly(c)
    BY <1>1, Tells DEF BeginDelete, ReadVersion, Fails, RowsOnly, store
  <2> QED
    BY <1>0, <1>1, <2>1, CommonActs, CommonGood, RowsQuiet, QuietIsHonest
<1>2. ASSUME provider # "sqlserver" PROVE Rooted'
  BY <1>2 DEF Rooted
<1>3. CASE provider = "cosmosdb" /\ CosmosStep(c)
  <2>1. Acts(c)
    BY <1>0, <1>3, CosmosActs
  <2>2. Good(c, call'[c])
    BY <1>3, CosmosCreatesGood, CosmosDeletesGood, CosmosWritesGood, CosmosSavesGood DEF CosmosStep
  <2>3. Honest(c)
    BY <1>0, <1>3, CosmosQuiet, QuietIsHonest, CosmosHonest DEF CosmosStep, Creates, Deletes, Writes, Saves
  <2> QED
    BY <1>2, <1>3, <2>1, <2>2, <2>3
<1>4. CASE provider = "cosmosdb" /\ (CosmosImportStep(c) \/ CosmosImportTrouble(c))
  BY <1>0, <1>2, <1>4, CosmosImportActs, CosmosImportsGood, CosmosImportQuiet, QuietIsHonest
<1>5. CASE provider = "neo4j" /\ Neo4jStep(c)
  <2>1. Acts(c)
    BY <1>0, <1>5, Neo4jActs
  <2>2. Good(c, call'[c])
    BY <1>5, Neo4jCreatesGood, Neo4jDeletesGood, Neo4jAddsGood, Neo4jRemovesGood, Neo4jSavesGood
       DEF Neo4jStep
  <2>3. Honest(c)
    BY <1>0, <1>5, Neo4jQuiet, QuietIsHonest, Neo4jHonest DEF Neo4jStep
  <2> QED
    BY <1>2, <1>5, <2>1, <2>2, <2>3
<1>6. CASE provider = "neo4j" /\ (ImportStep(c) \/ ImportTrouble(c))
  BY <1>0, <1>2, <1>6, Neo4jImportActs, Neo4jImportsGood, Neo4jImportQuiet, QuietIsHonest
<1>7. CASE provider = "sqlserver" /\ SqlServerStep(c)
  <2>1. Acts(c)
    BY <1>0, <1>7, SqlActs
  <2>2. Good(c, call'[c])
    BY <1>7, SqlCreatesGood, SqlDeletesGood, SqlRemovesGood, SqlAddsGood, SqlSavesGood, SqlImportsGood
       DEF SqlServerStep
  <2>3. CASE InsertRepository(c) \/ InsertVocabulary(c) \/ DeleteRepository(c) \/ UpdateVocabulary(c)
    BY <1>7, <2>1, <2>2, <2>3, SqlHonest, SqlRooted
  <2>4. CASE RowsOnly(c)
    BY <1>0, <2>1, <2>2, <2>4, RowsQuiet, QuietIsHonest
  <2> QED
    BY <1>7, <2>3, <2>4, SqlRowsOnly DEF SqlServerStep
<1> QED
  BY <1>1, <1>3, <1>4, <1>5, <1>6, <1>7 DEF Step, Trouble

LEMMA AlsoMet ==
  ASSUME NEW c, NEW cl, Fits(c, cl, c \in alive), alive \subseteq alive'
  PROVE  Fits(c, cl, c \in alive')
BY DEF Fits, EventsFit, Looked, ImportFits

LEMMA MetIsSeen ==
  ASSUME NEW c, NEW cl, Fits(c, cl, Met(c)), Met(c) /\ cl.pc # "idle" => c \in alive'
  PROVE  Fits(c, cl, c \in alive')
<1>1. CASE cl.pc = "idle"
  <2>1. cl = NoCall
    BY <1>1 DEF Fits
  <2>2. /\ cl.events = <<>> /\ cl.reply = None /\ cl.chunks = <<>>
        /\ cl.raw = FALSE /\ cl.resent = FALSE /\ cl.stored = FALSE /\ cl.recorded = FALSE
    BY <2>1 DEF NoCall
  <2>3. EventsFit(cl, c \in alive')
    BY <1>1, <2>2 DEF EventsFit, None, Begun, Going, Ended
  <2>4. Looked(cl, c \in alive')
    BY <1>1 DEF Looked, Blind
  <2> QED
    BY <1>1, <2>3, <2>4 DEF Fits
<1>2. CASE cl.pc # "idle"
  BY <1>2 DEF Fits, EventsFit, Looked, ImportFits
<1> QED
  BY <1>1, <1>2

LEMMA LocalNext ==
  ASSUME UNCHANGED <<provider, request>>, \A d \in Clients : Fits(d, call'[d], d \in alive')
  PROVE  Local'
<1> SUFFICES ASSUME NEW d \in Clients PROVE Fits(d, call[d], d \in alive)'
  BY DEF Local
<1>1. Fits(d, call'[d], d \in alive')
  OBVIOUS
<1>2. Op(d)' = Op(d)
  BY DEF Op
<1>3. EventsFit(call[d], d \in alive)' = EventsFit(call'[d], d \in alive')
  BY DEF EventsFit
<1>4. ImportFits(call[d], d \in alive)' = ImportFits(call'[d], d \in alive')
  BY DEF ImportFits
<1>5. SaveFits(call[d])' = SaveFits(call'[d])
  BY DEF SaveFits
<1> QED
  BY <1>1, <1>2, <1>3, <1>4, <1>5 DEF Fits, Looked

LEMMA BaseNext ==
  ASSUME Base, Next
  PROVE  Base'
<1>1. PICK c \in Clients : Step(c) \/ Trouble(c)
  BY DEF Next
<1>2. Observed /\ UNCHANGED <<provider, request>>
  BY DEF Next, Observed
<1>3. Acts(c) /\ Good(c, call'[c]) /\ Honest(c) /\ Rooted'
  BY <1>1, <1>2, StepIs
<1>4. PICK cl : Becomes(c, cl)
  BY <1>3 DEF Honest, Answers
<1>5. /\ DOMAIN call' = Clients
      /\ \A d \in Clients : d # c => call'[d] = call[d]
  BY <1>4, BecomesIs DEF Base
<1>6. Requests'
  BY <1>2 DEF Base, Requests
<1>7. Keeps'
  BY <1>3, <1>5 DEF Honest, Keeps
<1>8. alive \subseteq alive'
  BY <1>2 DEF Observed
<1>9. ASSUME NEW d \in Clients PROVE Fits(d, call'[d], d \in alive')
  <2>1. CASE d # c
    <3>1. Fits(d, call[d], d \in alive)
      BY DEF Base, Local
    <3> QED
      BY <1>5, <1>8, <2>1, <3>1, AlsoMet
  <2>2. CASE d = c
    <3>1. c \in DOMAIN request
      BY <1>3 DEF Acts, Op
    <3>2. ASSUME Met(c), call'[c].pc # "idle" PROVE c \in alive'
      BY <1>2, <1>3, <3>1, <3>2 DEF Observed, Met, Acts
    <3>3. Fits(c, call'[c], Met(c))
      BY <1>3 DEF Good
    <3> QED
      BY <2>2, <3>2, <3>3, MetIsSeen
  <2> QED
    BY <2>1, <2>2
<1>10. Local'
  BY <1>2, <1>9, LocalNext
<1>11. Owned'
  <2> SUFFICES ASSUME NEW r \in Repositories, NEW d \in Clients, NEW v \in vocabulary'[r],
                      Op(d) = "save", v.by = d
               PROVE  call'[d].stored
    BY <1>2 DEF Owned, Op
  <2>1. v \in vocabulary[r] => call[d].stored
    BY DEF Base, Owned
  <2>2. call[c].stored => call'[c].stored
    BY <1>3 DEF Good
  <2>3. v \in vocabulary[r] \/ (v.by = c /\ (Op(c) = "create" \/ call'[c].stored))
    BY <1>3 DEF Honest
  <2> QED
    BY <1>5, <2>1, <2>2, <2>3
<1> QED
  BY <1>3, <1>6, <1>7, <1>10, <1>11 DEF Base

LEMMA BaseStutters ==
  ASSUME Base, UNCHANGED vars
  PROVE  Base'
<1>1. UNCHANGED <<provider, marker, vocabulary, data, request, call, alive>>
  BY DEF vars, store, history
<1>2. Requests' /\ Keeps' /\ Owned' /\ Rooted'
  BY <1>1 DEF Base, Requests, Keeps, Owned, Rooted, Op
<1>3. \A d \in Clients : Fits(d, call'[d], d \in alive')
  BY <1>1 DEF Base, Local
<1>4. Local'
  BY <1>1, <1>3, LocalNext
<1> QED
  BY <1>2, <1>4 DEF Base

LEMMA BaseInit == Init => Base
<1> SUFFICES ASSUME Init PROVE Base
  OBVIOUS
<1>1. PICK plan \in Plans :
        /\ provider = plan.provider
        /\ request = plan.asked
        /\ faults = plan.faults
        /\ marker = [r \in Repositories |-> IF r \in plan.live THEN First ELSE None]
        /\ data = [r \in Repositories |-> IF r \in plan.live THEN plan.data ELSE {}]
        /\ index = plan.live
  BY DEF Init
<1>2. /\ vocabulary = [r \in Repositories |->
           IF marker[r] = None THEN {} ELSE {[of |-> First, by |-> First, version |-> 0]}]
      /\ call = [c \in Clients |-> NoCall] /\ alive = {}
  BY DEF Init
<1>3. Requests
  BY <1>1, LifeAssumption DEF Requests
<1>4. Keeps
  BY <1>1, <1>2 DEF Keeps
<1>5. Rooted
  BY <1>1, <1>2, LifeAssumption DEF Rooted, First, None
<1>6. Owned
  BY <1>2, LifeAssumption DEF Owned
<1>7. Local
  <2> SUFFICES ASSUME NEW c \in Clients PROVE Fits(c, NoCall, c \in alive)
    BY <1>2 DEF Local
  <2> DEFINE cl == NoCall
  <2>1. /\ IsCall(cl) /\ cl.pc = "idle" /\ cl.events = <<>> /\ cl.reply = None
        /\ cl.raw = FALSE /\ cl.resent = FALSE /\ cl.stored = FALSE /\ cl.recorded = FALSE
    BY DEF NoCall, IsCall, Fields
  <2> HIDE DEF cl
  <2>2. EventsFit(cl, c \in alive)
    BY <2>1 DEF EventsFit, None, Begun, Going, Ended
  <2>3. Looked(cl, c \in alive) /\ PcFits(cl.pc, Op(c)) /\ SaveFits(cl)
    BY <2>1 DEF Looked, Blind, PcFits, SaveFits, None
  <2>4. cl = NoCall
    BY DEF cl
  <2>5. Fits(c, cl, c \in alive)
    BY <2>1, <2>2, <2>3, <2>4 DEF Fits
  <2> QED
    BY <2>4, <2>5
<1> QED
  BY <1>3, <1>4, <1>5, <1>6, <1>7 DEF Base

LEMMA BaseHolds == Spec => []Base
<1>1. Base /\ [Next]_vars => Base'
  BY BaseNext, BaseStutters
<1> QED
  BY BaseInit, <1>1, PTL DEF Spec

-----------------------------------------------------------------------------
(* What callers are told.                                                  *)

LEMMA ReportsMissing == Base => MissingIsReported
<1> SUFFICES ASSUME Base, NEW c \in Clients, call[c].pc = "done", Op(c) \notin {"create", "delete"}
             PROVE  call[c].reply \in {"missing", "failed"} \/ c \in alive
  BY DEF MissingIsReported
<1>1. Looked(call[c], c \in alive)
  BY DEF Base, Local, Fits
<1> QED
  BY <1>1 DEF Looked, Blind

LEMMA ReportsEvents == Base => DeleteEventsInOrder
<1> SUFFICES ASSUME Base, NEW c \in Clients, Op(c) = "delete", NEW events, events = call[c].events
             PROVE  /\ \A k \in DOMAIN events : events[k] = "started" <=> k = 1
                    /\ \A k \in DOMAIN events : events[k] = "completed" => k = Len(events)
                    /\ call[c].reply = "deleted" => Last(events) = "completed"
                    /\ call[c].reply = "not_found" => events = <<>> \/ c \in alive
  BY DEF DeleteEventsInOrder
<1>1. EventsFit(call[c], c \in alive)
  BY DEF Base, Local, Fits
<1>2. events \in {<<>>, Begun, Going} \cup Ended
  BY <1>1 DEF EventsFit
<1>3. call[c].reply = "deleted" => events \in Ended
  BY <1>1 DEF EventsFit
<1>4. call[c].reply = "not_found" => events = <<>> \/ c \in alive
  BY <1>1 DEF EventsFit
<1>5. CASE events = <<>>
  BY <1>3, <1>4, <1>5 DEF Ended
<1>6. CASE events = Begun
  BY <1>3, <1>4, <1>6 DEF Ended, Begun, Last
<1>7. CASE events = Going
  BY <1>3, <1>4, <1>7 DEF Ended, Going, Last
<1>8. CASE events = <<"started", "completed">>
  BY <1>3, <1>4, <1>8 DEF Ended, Last
<1>9. CASE events = <<"started", "progress", "completed">>
  BY <1>3, <1>4, <1>9 DEF Ended, Last
<1> QED
  BY <1>2, <1>5, <1>6, <1>7, <1>8, <1>9 DEF Ended

LEMMA ReportsSave == Base => SaveIsTruth
<1> SUFFICES ASSUME Base, NEW c \in Clients, Op(c) = "save", call[c].pc = "done"
             PROVE  /\ call[c].reply = "saved" => call[c].stored /\ call[c].recorded
                    /\ call[c].reply \in {"conflict", "missing"} /\ ~call[c].resent => ~call[c].stored
  BY DEF SaveIsTruth
<1>1. SaveFits(call[c])
  BY DEF Base, Local, Fits
<1> QED
  BY <1>1 DEF SaveFits

\* A call on a repository that was not there at any step of it answers so or fails, in
\* each of the three providers: writes look for the marker, imports that send nothing look
\* for it too ("Deleted repositories" in StorageProvider).
THEOREM MissingReported == Spec => []MissingIsReported
BY BaseHolds, ReportsMissing, PTL

\* However a delete is repeated, interrupted or overtaken by creates and other deletes,
\* its caller hears of one start, before any progress, and of one completion, which comes
\* last and with the answer; and of nothing if there never was a repository
\* (DeepMemory.deleteRepository).
THEOREM EventsInOrder == Spec => []DeleteEventsInOrder
BY BaseHolds, ReportsEvents, PTL

\* A save that answers "saved" has stored its vocabulary and its change record, though it
\* found them stored by a request whose answer was lost; one that answers otherwise, and
\* repeated nothing, has stored nothing (saveVocabulary of the three providers).
THEOREM SaveTellsTruth == Spec => []SaveIsTruth
BY BaseHolds, ReportsSave, PTL

-----------------------------------------------------------------------------
(* Every repository has a vocabulary.                                      *)

\* The vocabulary of a repository, or of the one that a create is about to make.
HasIts(r) == marker[r] \notin swept \cup {None} => \E v \in vocabulary[r] : v.of = marker[r]

WaitsWithIts(c) ==
  call[c].pc \in {"listing", "marker"} /\ c \notin swept => \E v \in vocabulary[Repo(c)] : v.of = c

CosmosKept ==
  provider = "cosmosdb" => (\A r \in Repositories : HasIts(r)) /\ (\A c \in Clients : WaitsWithIts(c))

\* A batch of vertices has found no marker; the repository that the run starts with is not
\* made again.
Batch == {"entity batch", "vertex batch"}

LooksBehind(c) ==
  call[c].pc \in Batch => call[c].gate = None /\ marker[Repo(c)] \in Clients \cup {None}

Guarded == provider = "cosmosdb" => \A c \in Clients : LooksBehind(c)

Neo4jKept == provider = "neo4j" => \A r \in Repositories : marker[r] # None => vocabulary[r] # {}

\* The maker of a repository, and its vocabulary once the call has answered.
SeededBy(m, r) == Op(m) = "create" /\ Repo(m) = r /\ (call[m].reply = "created" => vocabulary[r] # {})

SqlKept ==
  provider = "sqlserver" => \A r \in Repositories :
    /\ marker[r] \in Makers \cup {None}
    /\ marker[r] = First => vocabulary[r] # {}
    /\ marker[r] \in Clients => SeededBy(marker[r], r)

Kept == CosmosKept /\ Guarded /\ Neo4jKept /\ SqlKept

\* In CosmosDB and SQL Server a call that creates does nothing else.
LEMMA CosmosCreatesOnly ==
  ASSUME NEW c \in Clients, Fits(c, call[c], c \in alive), Op(c) = "create", provider = "cosmosdb",
         Step(c) \/ Trouble(c)
  PROVE  Creates(c) \/ Fails(c)
<1> USE DEF Fits, PcFits
<1>1. ~BeginDelete(c) /\ ~ReadVersion(c)
  BY DEF BeginDelete, ReadVersion
<1>2. ~CosmosImportStep(c) /\ ~CosmosImportTrouble(c)
  BY DEF CosmosImportStep, CosmosImportTrouble, OpenImport, CloseImport
<1>3. ~Deletes(c)
  BY DEF Deletes, DropMarker, ProbeForDelete, NothingLeft, DrainEdges, SizeEntities,
         UnlessRecreated, DrainEntities, DrainVertices, CountRemaining, ReadIndexForDelete, RemoveFromIndex
<1>4. ~Writes(c)
  BY DEF Writes, CheckAndAdd, Land, BeginRemove, RemoveChunk, ReadBatch, DropBatch, AssertMarker,
         DropEdgeBatch, ClearEntities
<1>5. ~Saves(c)
  BY DEF Saves, MatchVersion, CompareAndSet, WriteRecord, ReadState, EnsureRecord, PutRecord
<1> QED
  BY <1>1, <1>2, <1>3, <1>4, <1>5 DEF Step, Trouble, CosmosStep

\* ... and a call that deletes a repository only that.
LEMMA CosmosDeletesOnly ==
  ASSUME NEW c \in Clients, Fits(c, call[c], c \in alive), Op(c) = "delete", provider = "cosmosdb",
         Step(c) \/ Trouble(c)
  PROVE  BeginDelete(c) \/ Deletes(c) \/ Fails(c)
<1> USE DEF Fits, PcFits
<1>1. ~ReadVersion(c)
  BY DEF ReadVersion
<1>2. ~CosmosImportStep(c) /\ ~CosmosImportTrouble(c)
  BY DEF CosmosImportStep, CosmosImportTrouble, OpenImport, CloseImport
<1>3. ~Creates(c)
  BY DEF Creates, ProbeForCreate, WhyOccupied, WriteVocabulary, ReadIndexForCreate, WriteMarker
<1>4. ~Writes(c)
  BY DEF Writes, CheckAndAdd, Land, BeginRemove, RemoveChunk, ReadBatch, DropBatch, AssertMarker,
         DropEdgeBatch, ClearEntities
<1>5. ~Saves(c)
  BY DEF Saves, MatchVersion, CompareAndSet, WriteRecord, ReadState, EnsureRecord, PutRecord
<1> QED
  BY <1>1, <1>2, <1>3, <1>4, <1>5 DEF Step, Trouble, CosmosStep

LEMMA SqlCreatesOnly ==
  ASSUME NEW c \in Clients, Fits(c, call[c], c \in alive), Op(c) = "create", provider = "sqlserver",
         Step(c) \/ Trouble(c)
  PROVE  LookForRepository(c) \/ InsertRepository(c) \/ InsertVocabulary(c) \/ Fails(c)
<1> USE DEF Fits, PcFits
<1>1. ~BeginDelete(c) /\ ~ReadVersion(c)
  BY DEF BeginDelete, ReadVersion
<1>2. /\ ~DeleteRepository(c) /\ ~AssertForClear(c) /\ ~DeleteRelationships(c) /\ ~DeleteEntities(c)
      /\ ~DeleteEntityEdges(c) /\ ~DeleteEntityRow(c) /\ ~ExplainMiss(c) /\ ~GuardedDelete(c)
  BY DEF DeleteRepository, AssertForClear, DeleteRelationships, DeleteEntities,
         DeleteEntityEdges, DeleteEntityRow, ExplainMiss, GuardedDelete
<1>3. /\ ~AssertForCreate(c) /\ ~LookForEntity(c) /\ ~ReadPreconditions(c) /\ ~InsertRow(c)
      /\ ~ExplainForeignKey(c) /\ ~UpdateVocabulary(c) /\ ~ImportInOneTransaction(c)
  BY DEF AssertForCreate, LookForEntity, ReadPreconditions, InsertRow,
         ExplainForeignKey, UpdateVocabulary, ImportInOneTransaction
<1> QED
  BY <1>1, <1>2, <1>3 DEF Step, Trouble, SqlServerStep

\* The calls beside the one that steps.
LEMMA OthersStay ==
  ASSUME Keeps, NEW c \in Clients, Answers(c)
  PROVE  \A d \in Clients : d # c => call'[d] = call[d]
BY BecomesIs DEF Answers

\* The program point that a request leads to, or the one that it is sent again from.
LEMMA SubmittedTo ==
  ASSUME Keeps, NEW c \in Clients, IsCall(call[c]), NEW cl, NEW pc, Submitted(c, cl, pc)
  PROVE  call'[c].pc \in {cl.pc, pc}
<1> DEFINE again == [Goes(c, pc) EXCEPT !.resent = TRUE, !.stored = cl.stored,
                       !.recorded = cl.recorded, !.wrote = cl.wrote, !.took = cl.took,
                       !.caught = cl.caught]
<1>1. Becomes(c, cl) \/ Becomes(c, again)
  BY DEF Submitted
<1>2. again.pc = pc
  BY GoesIs DEF IsCall, Fields
<1> HIDE DEF again
<1> QED
  BY <1>1, <1>2, BecomesIs

LEMMA CosmosKeptQuiet ==
  ASSUME Base, CosmosKept, provider = "cosmosdb", UNCHANGED <<provider, request>>,
         NEW c \in Clients, Quiet(c),
         call'[c].pc \in {"listing", "marker"} => call[c].pc \in {"listing", "marker"}
  PROVE  CosmosKept'
<1>1. UNCHANGED <<marker, vocabulary, swept>> /\ \A d \in Clients : d # c => call'[d] = call[d]
  BY OthersStay DEF Quiet, Base
<1>2. \A d \in Clients : WaitsWithIts(d)'
  BY <1>1 DEF CosmosKept, WaitsWithIts, Repo
<1>3. \A r \in Repositories : HasIts(r)'
  BY <1>1 DEF CosmosKept, HasIts
<1> QED
  BY <1>2, <1>3 DEF CosmosKept

LEMMA CosmosKeptCreate ==
  ASSUME Base, CosmosKept, provider = "cosmosdb", UNCHANGED <<provider, request>>,
         NEW c \in Clients, Op(c) = "create", Creates(c) \/ Fails(c)
  PROVE  CosmosKept'
<1>0. Fits(c, call[c], c \in alive) /\ IsCall(call[c]) /\ Keeps /\ Repo(c) \in Repositories
  BY DEF Base, Local, Fits, Requests, Op, Repo, None
<1>1. CASE Fails(c)
  <2>1. call'[c].pc = "done"
    BY <1>0, <1>1, RepliesIs, BecomesIs DEF Fails
  <2> QED
    BY <1>0, <1>1, <2>1, CommonQuiet, CosmosKeptQuiet
<1>2. CASE ProbeForCreate(c)
  <2>1. call'[c].pc \in {"which", "vocabulary"}
    BY <1>0, <1>2, GoesIs, BecomesIs DEF ProbeForCreate
  <2> QED
    BY <1>0, <1>2, <2>1, CosmosQuiet, CosmosKeptQuiet
<1>3. CASE WhyOccupied(c)
  <2>1. call'[c].pc = "done"
    BY <1>0, <1>3, RepliesIs, BecomesIs DEF WhyOccupied
  <2> QED
    BY <1>0, <1>3, <2>1, CosmosQuiet, CosmosKeptQuiet
<1>4. CASE ReadIndexForCreate(c)
  BY <1>0, <1>4, CosmosQuiet, CosmosKeptQuiet DEF ReadIndexForCreate
<1>5. CASE WriteVocabulary(c)
  <2>1. UNCHANGED <<marker, swept>> /\ Answers(c)
    BY <1>5, Tells DEF WriteVocabulary
  <2>2. \A d \in Clients : d # c => call'[d] = call[d]
    BY <1>0, <2>1, OthersStay
  <2>3. CASE vocabulary[Repo(c)] = {}
    <3>1. vocabulary' = [vocabulary EXCEPT ![Repo(c)] = {[of |-> c, by |-> c, version |-> 0]}]
      BY <1>5, <2>3 DEF WriteVocabulary
    <3>2. ASSUME NEW r \in Repositories PROVE HasIts(r)'
      <4>1. (HasIts(r) /\ vocabulary'[r] = vocabulary[r]) \/ marker[r] \in swept \cup {None}
        BY <1>0, <2>3, <3>1 DEF CosmosKept, HasIts, Keeps
      <4> QED
        BY <2>1, <4>1 DEF HasIts
    <3>3. ASSUME NEW d \in Clients PROVE WaitsWithIts(d)'
      <4>1. CASE d = c
        <5>1. vocabulary'[Repo(c)] = {[of |-> c, by |-> c, version |-> 0]}
          BY <1>0, <3>1 DEF Keeps
        <5> QED
          BY <4>1, <5>1 DEF WaitsWithIts, Repo
      <4>2. CASE d # c
        <5>1. WaitsWithIts(d)
          BY DEF CosmosKept
        <5>2. CASE Repo(d) = Repo(c)
          BY <2>1, <2>2, <2>3, <4>2, <5>1, <5>2 DEF WaitsWithIts
        <5>3. CASE Repo(d) # Repo(c)
          <6>1. vocabulary'[Repo(d)] = vocabulary[Repo(d)]
            BY <3>1, <5>3
          <6> QED
            BY <2>1, <2>2, <4>2, <5>1, <6>1 DEF WaitsWithIts, Repo
        <5> QED
          BY <5>2, <5>3
      <4> QED
        BY <4>1, <4>2
    <3> QED
      BY <3>2, <3>3 DEF CosmosKept
  <2>4. CASE vocabulary[Repo(c)] # {}
    <3>1. UNCHANGED vocabulary /\ Becomes(c, Replies(c, "duplicate"))
      BY <1>5, <2>4 DEF WriteVocabulary
    <3>2. call'[c].pc = "done"
      BY <1>0, <3>1, RepliesIs, BecomesIs
    <3>3. Quiet(c)
      BY <1>0, <1>5, <2>1, <3>1 DEF WriteVocabulary, Quiet, Keeps
    <3> QED
      BY <3>2, <3>3, CosmosKeptQuiet
  <2> QED
    BY <2>3, <2>4
<1>6. CASE WriteMarker(c)
  <2>1. UNCHANGED <<vocabulary, swept>> /\ Answers(c) /\ call[c].pc = "marker"
    BY <1>6, Tells DEF WriteMarker
  <2>2. \A d \in Clients : d # c => call'[d] = call[d]
    BY <1>0, <2>1, OthersStay
  <2>3. marker' = marker \/ marker' = [marker EXCEPT ![Repo(c)] = c]
    BY <1>6 DEF WriteMarker
  <2>4. \A d \in Clients : WaitsWithIts(d)'
    BY <2>1, <2>2 DEF CosmosKept, WaitsWithIts, Repo
  <2>5. ASSUME NEW r \in Repositories PROVE HasIts(r)'
    <3>1. marker'[r] = marker[r] \/ (r = Repo(c) /\ marker'[r] = c)
      BY <1>0, <2>3 DEF Keeps
    <3>2. HasIts(r) /\ WaitsWithIts(c)
      BY DEF CosmosKept
    <3> QED
      BY <2>1, <3>1, <3>2 DEF HasIts, WaitsWithIts
  <2> QED
    BY <2>4, <2>5 DEF CosmosKept
<1> QED
  BY <1>1, <1>2, <1>3, <1>4, <1>5, <1>6 DEF Creates

LEMMA CosmosKeptOther ==
  ASSUME Base, CosmosKept, provider = "cosmosdb", UNCHANGED <<provider, request>>,
         Guarded, NEW c \in Clients, Op(c) # "create", Good(c, call'[c]),
         DropMarker(c) \/ DrainVertices(c) \/ CompareAndSet(c)
  PROVE  CosmosKept'
<1>0. Fits(c, call[c], c \in alive) /\ IsCall(call[c]) /\ Keeps
  BY DEF Base, Local, Fits
<1>1. Answers(c)
  BY Tells DEF DropMarker, DrainVertices, CompareAndSet
<1>2. \A d \in Clients : call'[d].pc \in {"listing", "marker"} => call'[d] = call[d]
  BY <1>0, <1>1, OthersStay DEF Good, Fits, PcFits
<1>3. CASE DropMarker(c)
  <2>1. UNCHANGED <<vocabulary, swept>> /\ marker' = [marker EXCEPT ![Repo(c)] = None]
    BY <1>3 DEF DropMarker
  <2>2. \A d \in Clients : WaitsWithIts(d)'
    BY <1>2, <2>1 DEF CosmosKept, WaitsWithIts, Repo
  <2>3. ASSUME NEW r \in Repositories PROVE HasIts(r)'
    <3>1. marker'[r] \in {marker[r], None} /\ HasIts(r)
      BY <1>0, <2>1 DEF Keeps, CosmosKept
    <3> QED
      BY <2>1, <3>1 DEF HasIts
  <2> QED
    BY <2>2, <2>3 DEF CosmosKept
<1>4. CASE CompareAndSet(c)
  <2>1. UNCHANGED <<marker, swept>>
    BY <1>4 DEF CompareAndSet
  <2> DEFINE saved == {[[of |-> c, by |-> c, version |-> call[c].version + 1] EXCEPT !.of = v.of] :
                         v \in call[c].seen}
  <2>2. \/ UNCHANGED vocabulary
        \/ vocabulary[Repo(c)] = call[c].seen /\ vocabulary' = [vocabulary EXCEPT ![Repo(c)] = saved]
    BY <1>4 DEF CompareAndSet
  <2>3. \A m : (\E v \in call[c].seen : v.of = m) => \E v \in saved : v.of = m
    <3> SUFFICES ASSUME NEW v \in call[c].seen PROVE \E w \in saved : w.of = v.of
      OBVIOUS
    <3> DEFINE w == [[of |-> c, by |-> c, version |-> call[c].version + 1] EXCEPT !.of = v.of]
    <3>1. w \in saved /\ w.of = v.of
      OBVIOUS
    <3> QED
      BY <3>1
  <2> HIDE DEF saved
  <2>4. ASSUME NEW r \in Repositories, NEW m, \E v \in vocabulary[r] : v.of = m
        PROVE  \E v \in vocabulary'[r] : v.of = m
    <3>1. \/ vocabulary'[r] = vocabulary[r]
          \/ vocabulary[r] = call[c].seen /\ vocabulary'[r] = saved
      BY <1>0, <2>2 DEF Keeps
    <3> QED
      BY <2>3, <2>4, <3>1
  <2>5. \A d \in Clients : WaitsWithIts(d)'
    <3> SUFFICES ASSUME NEW d \in Clients, call'[d].pc \in {"listing", "marker"}, d \notin swept
                 PROVE  \E v \in vocabulary'[Repo(d)] : v.of = d
      BY <2>1 DEF WaitsWithIts, Repo
    <3>1. WaitsWithIts(d)
      BY DEF CosmosKept
    <3>2. Repo(d) \in Repositories
      BY <1>2 DEF Base, Local, Fits, PcFits, Requests, Op, Repo, None
    <3> QED
      BY <1>2, <2>4, <3>1, <3>2 DEF WaitsWithIts
  <2>6. \A r \in Repositories : HasIts(r)'
    BY <2>1, <2>4 DEF CosmosKept, HasIts
  <2> QED
    BY <2>5, <2>6 DEF CosmosKept
<1>5. CASE DrainVertices(c)
  <2>1. UNCHANGED marker
    BY <1>5 DEF DrainVertices
  <2>2. PICK batch :
          /\ vocabulary' = [vocabulary EXCEPT ![Repo(c)] = @ \ batch]
          /\ swept' = swept \cup {d \in Clients : /\ Running(d) \/ Overtaken(c)
                                                  /\ \E v \in batch \cap vocabulary[Repo(c)] : v.of = d}
    BY <1>5 DEF DrainVertices
  <2>3. ASSUME NEW d \in Clients, call'[d].pc \in {"listing", "marker"}, d \notin swept'
        PROVE  \E v \in vocabulary'[Repo(d)] : v.of = d
    <3>1. WaitsWithIts(d) /\ call[d].pc \in {"listing", "marker"} /\ d \notin swept /\ Running(d)
      BY <1>2, <2>2, <2>3 DEF CosmosKept, Running
    <3>2. PICK v \in vocabulary[Repo(d)] : v.of = d
      BY <3>1 DEF WaitsWithIts
    <3>3. v \in vocabulary'[Repo(d)]
      BY <2>2, <2>3, <3>1, <3>2
    <3> QED
      BY <3>2, <3>3
  <2>4. \A d \in Clients : WaitsWithIts(d)'
    BY <2>3 DEF WaitsWithIts, Repo
  <2>5. call[c].gate = None /\ marker[Repo(c)] \in Clients \cup {None}
    BY <1>5 DEF DrainVertices, Guarded, LooksBehind, Batch
  <2>6. ASSUME NEW r \in Repositories, marker[r] \notin swept' \cup {None}
        PROVE  \E v \in vocabulary'[r] : v.of = marker[r]
    <3>1. HasIts(r) /\ marker[r] \notin swept \cup {None}
      BY <2>2, <2>6 DEF CosmosKept
    <3>2. PICK v \in vocabulary[r] : v.of = marker[r]
      BY <3>1 DEF HasIts
    <3>3. CASE r # Repo(c)
      BY <2>2, <3>2, <3>3
    <3>4. CASE r = Repo(c)
      <4>1. marker[r] \in Clients
        BY <2>5, <2>6, <3>4
      <4>2. Overtaken(c)
        BY <2>5, <2>6, <3>4 DEF Overtaken
      <4>3. v \notin batch
        BY <2>2, <2>6, <3>2, <3>4, <4>1, <4>2
      <4> QED
        BY <1>0, <2>2, <3>2, <3>4, <4>3 DEF Keeps
    <3> QED
      BY <3>3, <3>4
  <2>7. \A r \in Repositories : HasIts(r)'
    BY <2>1, <2>6 DEF HasIts
  <2> QED
    BY <2>4, <2>7 DEF CosmosKept
<1> QED
  BY <1>3, <1>4, <1>5

\* A delete comes to a batch by the look for a marker alone.
LEMMA DeleteLooks ==
  ASSUME Keeps, NEW c \in Clients, IsCall(call[c]), BeginDelete(c) \/ Deletes(c) \/ Fails(c),
         call'[c].pc \in Batch
  PROVE  call'[c].gate = None /\ UNCHANGED marker /\ marker[Repo(c)] = None
<1>0. \A pc : Goes(c, pc).pc = pc
  BY GoesIs
<1>1. \A cl, pc : Submitted(c, cl, pc) /\ pc \notin Batch => cl.pc \in Batch
  BY SubmittedTo
<1>2. \A cl : Becomes(c, cl) => cl.pc \in Batch
  BY BecomesIs
<1>3. \A cl : IsCall(cl) => \A v : [cl EXCEPT !.caught = v].pc = cl.pc
  BY DEF IsCall, Fields
<1>4. \A reply : Replies(c, reply).pc = "done" /\ Completed(call[c]).pc = "done"
  BY RepliesIs DEF Completed, IsCall, Fields
<1>5. \A pc : IsCall(Goes(c, pc))
  BY GoesIs
<1>6. \A cl, batch : IsCall(cl) => Catches(c, cl, batch).pc = cl.pc
  BY <1>3 DEF Catches
<1> USE DEF Batch
<1>7. CASE BeginDelete(c)
  <2> DEFINE d == [Goes(c, "drop") EXCEPT !.stood = Standing(Repo(c)),
                     !.events = IF marker[Repo(c)] # None THEN <<"started">> ELSE <<>>]
  <2>1. Becomes(c, d)
    BY <1>7 DEF BeginDelete
  <2>2. d.pc = "drop"
    BY <1>0, <1>5 DEF IsCall, Fields
  <2> HIDE DEF d
  <2> QED
    BY <1>2, <2>1, <2>2
<1>8. CASE Fails(c)
  BY <1>2, <1>4, <1>8 DEF Fails
<1>9. CASE DropMarker(c)
  <2> DEFINE d == [Goes(c, "probe") EXCEPT !.gate = marker[Repo(c)]]
  <2>1. Submitted(c, d, "drop")
    BY <1>9 DEF DropMarker
  <2>2. d.pc = "probe"
    BY <1>0, <1>5 DEF IsCall, Fields
  <2> HIDE DEF d
  <2> QED
    BY <1>1, <2>1, <2>2
<1>10. CASE ProbeForDelete(c)
  BY <1>0, <1>2, <1>10 DEF ProbeForDelete
<1>11. CASE NothingLeft(c)
  <2> DEFINE d == [Goes(c, "entry") EXCEPT !.seen = index]
  <2>1. Becomes(c, d) \/ Becomes(c, Replies(c, "not_found"))
    BY <1>11 DEF NothingLeft
  <2>2. d.pc = "entry"
    BY <1>0, <1>5 DEF IsCall, Fields
  <2> HIDE DEF d
  <2> QED
    BY <1>2, <1>4, <2>1, <2>2
<1>12. CASE DrainEdges(c)
  <2> DEFINE d == [call[c] EXCEPT !.events = Progressed(call[c])]
  <2>1. Submitted(c, d, "edges") \/ Becomes(c, Goes(c, "entities"))
    BY <1>12 DEF DrainEdges
  <2>2. d.pc = "edges"
    BY <1>12 DEF DrainEdges, IsCall, Fields
  <2> HIDE DEF d
  <2> QED
    BY <1>0, <1>1, <1>2, <2>1, <2>2
<1>13. CASE SizeEntities(c)
  BY <1>0, <1>2, <1>13 DEF SizeEntities
<1>14. CASE UnlessRecreated(c)
  <2>1. \/ Becomes(c, Completed(call[c]))
        \/ /\ marker[Repo(c)] = None
           /\ Becomes(c, [Goes(c, Behind(call[c].pc)) EXCEPT !.gate = marker[Repo(c)]])
    BY <1>14 DEF UnlessRecreated, StandsDown, Recreated
  <2>2. \A v : [Goes(c, Behind(call[c].pc)) EXCEPT !.gate = v].gate = v
    BY <1>5 DEF IsCall, Fields
  <2>3. UNCHANGED marker
    BY <1>14 DEF UnlessRecreated, store
  <2> QED
    BY <1>2, <1>4, <2>1, <2>2, <2>3, BecomesIs
<1>15. CASE DrainEntities(c)
  <2> DEFINE went == [Goes(c, "entities") EXCEPT !.events = Progressed(call[c])]
  <2>1. PICK batch : Submitted(c, Catches(c, went, batch), "drain")
    BY <1>15 DEF DrainEntities
  <2>2. IsCall(went) /\ went.pc = "entities"
    BY <1>0, <1>5 DEF IsCall, Fields
  <2> HIDE DEF went
  <2>3. \E cl : Submitted(c, cl, "drain") /\ cl.pc = "entities"
    BY <1>6, <2>1, <2>2
  <2> QED
    BY <1>1, <2>3
<1>16. CASE DrainVertices(c)
  <2>1. PICK batch : Submitted(c, Catches(c, Goes(c, "remaining"), batch), "vertices")
    BY <1>16 DEF DrainVertices
  <2> DEFINE rest == Goes(c, "remaining")
  <2>2. IsCall(rest) /\ rest.pc = "remaining" /\ Submitted(c, Catches(c, rest, batch), "vertices")
    BY <1>0, <1>5, <2>1
  <2> HIDE DEF rest
  <2>3. \E cl : Submitted(c, cl, "vertices") /\ cl.pc = "remaining"
    BY <1>6, <2>2
  <2> QED
    BY <1>1, <2>3
<1>17. CASE CountRemaining(c)
  BY <1>0, <1>2, <1>17 DEF CountRemaining
<1>18. CASE ReadIndexForDelete(c)
  <2> DEFINE d == [Goes(c, "entry") EXCEPT !.seen = index]
  <2>1. Becomes(c, d) \/ Becomes(c, Completed(call[c]))
    BY <1>18 DEF ReadIndexForDelete
  <2>2. d.pc = "entry"
    BY <1>0, <1>5 DEF IsCall, Fields
  <2> HIDE DEF d
  <2> QED
    BY <1>2, <1>4, <2>1, <2>2
<1>19. CASE RemoveFromIndex(c)
  BY <1>1, <1>4, <1>19 DEF RemoveFromIndex
<1> QED
  BY <1>7, <1>8, <1>9, <1>10, <1>11, <1>12, <1>13, <1>14, <1>15, <1>16, <1>17, <1>18, <1>19 DEF Deletes

\* A marker is that of a call.
LEMMA CosmosMarks ==
  ASSUME Base, provider = "cosmosdb", NEW c \in Clients, Step(c) \/ Trouble(c)
  PROVE  Answers(c) /\ \A r \in Repositories : marker'[r] \in {marker[r], None} \cup Clients
<1>0. Keeps
  BY DEF Base
<1>1. CASE Quiet(c)
  BY <1>1 DEF Quiet
<1>2. CASE WriteVocabulary(c) \/ DrainVertices(c) \/ CompareAndSet(c)
  <2>1. UNCHANGED marker
    BY <1>2 DEF WriteVocabulary, DrainVertices, CompareAndSet
  <2>2. Answers(c)
    BY <1>2, Tells DEF WriteVocabulary, DrainVertices, CompareAndSet
  <2> QED
    BY <2>1, <2>2
<1>3. CASE WriteMarker(c)
  <2>1. marker' = marker \/ marker' = [marker EXCEPT ![Repo(c)] = c]
    BY <1>3 DEF WriteMarker
  <2> QED
    BY <1>0, <1>3, <2>1, Tells DEF WriteMarker, Keeps
<1>4. CASE DropMarker(c)
  <2>1. marker' = [marker EXCEPT ![Repo(c)] = None]
    BY <1>4 DEF DropMarker
  <2> QED
    BY <1>0, <1>4, <2>1, Tells DEF DropMarker, Keeps
<1>5. CASE BeginDelete(c) \/ ReadVersion(c) \/ Fails(c)
  BY <1>0, <1>1, <1>5, CommonQuiet
<1>6. CASE CosmosImportStep(c) \/ CosmosImportTrouble(c)
  BY <1>0, <1>1, <1>6, CosmosImportQuiet
<1>7. CASE CosmosStep(c)
  BY <1>0, <1>1, <1>2, <1>3, <1>4, <1>7, CosmosQuiet DEF CosmosStep, Creates, Deletes, Writes, Saves
<1> QED
  BY <1>5, <1>6, <1>7 DEF Step, Trouble

LEMMA GuardedNext ==
  ASSUME Base, Guarded, provider = "cosmosdb", UNCHANGED <<provider, request>>,
         NEW c \in Clients, Step(c) \/ Trouble(c), Good(c, call'[c])
  PROVE  Guarded'
<1>0. Fits(c, call[c], c \in alive) /\ IsCall(call[c]) /\ Keeps
  BY DEF Base, Local, Fits
<1>1. Answers(c) /\ \A r \in Repositories : marker'[r] \in {marker[r], None} \cup Clients
  BY CosmosMarks
<1>2. ASSUME NEW d \in Clients, call'[d].pc \in Batch
      PROVE  call'[d].gate = None /\ marker'[Repo(d)] \in Clients \cup {None}
  <2>1. CASE d = c
    <3>1. Op(c) = "delete"
      BY <1>2, <2>1 DEF Good, Fits, PcFits, Batch
    <3>2. BeginDelete(c) \/ Deletes(c) \/ Fails(c)
      BY <1>0, <3>1, CosmosDeletesOnly
    <3>3. call'[c].gate = None /\ UNCHANGED marker /\ marker[Repo(c)] = None
      BY <1>0, <1>2, <2>1, <3>2, DeleteLooks
    <3> QED
      BY <2>1, <3>3
  <2>2. CASE d # c
    <3>1. call'[d] = call[d]
      BY <1>0, <1>1, <2>2, OthersStay
    <3>2. LooksBehind(d)
      BY DEF Guarded
    <3>3. Repo(d) \in Repositories
      BY <1>2, <3>1 DEF Base, Local, Fits, PcFits, Batch, Requests, Op, Repo, None
    <3> QED
      BY <1>1, <1>2, <3>1, <3>2, <3>3 DEF LooksBehind
  <2> QED
    BY <2>1, <2>2
<1> QED
  BY <1>2 DEF Guarded, LooksBehind, Repo

LEMMA CosmosKeptNext ==
  ASSUME Base, CosmosKept, Guarded, provider = "cosmosdb", UNCHANGED <<provider, request>>,
         NEW c \in Clients, Step(c) \/ Trouble(c), Good(c, call'[c])
  PROVE  CosmosKept'
<1>0. Fits(c, call[c], c \in alive) /\ Keeps
  BY DEF Base, Local
<1>1. CASE Op(c) = "create"
  BY <1>0, <1>1, CosmosCreatesOnly, CosmosKeptCreate
<1>2. CASE Op(c) # "create" /\ (DropMarker(c) \/ DrainVertices(c) \/ CompareAndSet(c))
  BY <1>2, CosmosKeptOther
<1>3. CASE Op(c) # "create" /\ Quiet(c)
  <2>1. call'[c].pc \notin {"listing", "marker"}
    BY <1>3 DEF Good, Fits, PcFits
  <2> QED
    BY <1>3, <2>1, CosmosKeptQuiet
<1>4. Op(c) # "create" => ~WriteVocabulary(c) /\ ~WriteMarker(c)
  BY <1>0 DEF Fits, PcFits, WriteVocabulary, WriteMarker
<1>5. CASE BeginDelete(c) \/ ReadVersion(c) \/ Fails(c)
  BY <1>0, <1>1, <1>3, <1>5, CommonQuiet
<1>6. CASE CosmosImportStep(c) \/ CosmosImportTrouble(c)
  BY <1>0, <1>1, <1>3, <1>6, CosmosImportQuiet
<1>7. CASE CosmosStep(c)
  BY <1>0, <1>1, <1>2, <1>3, <1>4, <1>7, CosmosQuiet DEF CosmosStep, Creates, Deletes, Writes, Saves
<1> QED
  BY <1>5, <1>6, <1>7 DEF Step, Trouble

LEMMA Neo4jKeptNext ==
  ASSUME Base, Neo4jKept, provider = "neo4j", UNCHANGED provider,
         NEW c \in Clients, Step(c) \/ Trouble(c)
  PROVE  Neo4jKept'
<1>0. Keeps
  BY DEF Base
<1>1. ASSUME Quiet(c) PROVE Neo4jKept'
  BY <1>1 DEF Quiet, Neo4jKept
<1>2. CASE BeginDelete(c) \/ ReadVersion(c) \/ Fails(c)
  BY <1>0, <1>1, <1>2, CommonQuiet
<1>3. CASE ImportStep(c) \/ ImportTrouble(c)
  BY <1>0, <1>1, <1>3, Neo4jImportQuiet
<1>4. CASE CreateRepository(c)
  <2>1. \/ UNCHANGED <<marker, vocabulary>>
        \/ /\ marker' = [marker EXCEPT ![Repo(c)] = c]
           /\ vocabulary' = [vocabulary EXCEPT ![Repo(c)] = {[of |-> c, by |-> c, version |-> 0]}]
    BY <1>4 DEF CreateRepository
  <2> QED
    BY <1>0, <2>1 DEF Neo4jKept, Keeps
<1>5. CASE DetachMarker(c)
  BY <1>0, <1>5 DEF DetachMarker, Neo4jKept, Keeps
<1>6. CASE DetachVocabulary(c)
  BY <1>0, <1>6 DEF DetachVocabulary, Neo4jKept, Keeps
<1>7. CASE SaveVocabulary(c)
  <2> DEFINE matching == {v \in vocabulary[Repo(c)] : Locked(c) /\ v.version = call[c].version}
             saved == {[of |-> v.of, by |-> c, version |-> v.version + 1] : v \in matching}
  <2>1. UNCHANGED marker /\ (UNCHANGED vocabulary
          \/ (matching # {} /\ vocabulary' = [vocabulary EXCEPT ![Repo(c)] = saved]))
    BY <1>7 DEF SaveVocabulary
  <2>2. matching # {} => saved # {}
    OBVIOUS
  <2> HIDE DEF matching, saved
  <2> QED
    BY <1>0, <2>1, <2>2 DEF Neo4jKept, Keeps
<1>8. CASE Neo4jStep(c)
  BY <1>0, <1>1, <1>4, <1>5, <1>6, <1>7, <1>8, Neo4jQuiet DEF Neo4jStep
<1> QED
  BY <1>2, <1>3, <1>8 DEF Step, Trouble

\* The reply to a request, or that it failed.
LEMMA AnsweredWith ==
  ASSUME Keeps, NEW c \in Clients, IsCall(call[c]), NEW cl, Answered(c, cl)
  PROVE  call'[c].reply \in {cl.reply, "failed"}
<1> DEFINE lost == [Replies(c, "failed") EXCEPT !.stored = cl.stored, !.recorded = cl.recorded]
<1>1. Becomes(c, cl) \/ Becomes(c, lost)
  BY DEF Answered
<1>2. lost.reply = "failed"
  BY RepliesIs DEF IsCall, Fields
<1> HIDE DEF lost
<1> QED
  BY <1>1, <1>2, BecomesIs

LEMMA SqlKeptLike ==
  ASSUME Base, SqlKept, provider = "sqlserver", UNCHANGED <<provider, request>>,
         NEW c \in Clients, Answers(c), Op(c) = "create" => call'[c].reply # "created",
         \A r \in Repositories : \/ marker'[r] = None
                                 \/ marker'[r] = marker[r] /\ (vocabulary[r] # {} => vocabulary'[r] # {})
  PROVE  SqlKept'
<1>1. \A d \in Clients : d # c => call'[d] = call[d]
  BY OthersStay DEF Base
<1> SUFFICES ASSUME NEW r \in Repositories, marker'[r] # None
             PROVE  /\ marker'[r] \in Makers
                    /\ marker'[r] = First => vocabulary'[r] # {}
                    /\ marker'[r] \in Clients =>
                         /\ Op(marker'[r]) = "create" /\ Repo(marker'[r]) = r
                         /\ call'[marker'[r]].reply = "created" => vocabulary'[r] # {}
  BY LifeAssumption DEF SqlKept, SeededBy, Op, Repo, Makers, None, First
<1>2. marker'[r] = marker[r] /\ (vocabulary[r] # {} => vocabulary'[r] # {})
  OBVIOUS
<1>3. /\ marker[r] \in Makers \cup {None}
      /\ marker[r] = First => vocabulary[r] # {}
      /\ marker[r] \in Clients => SeededBy(marker[r], r)
  BY DEF SqlKept
<1> QED
  BY <1>1, <1>2, <1>3 DEF SeededBy

LEMMA SqlKeptNext ==
  ASSUME Base, SqlKept, provider = "sqlserver", UNCHANGED <<provider, request>>,
         NEW c \in Clients, Step(c) \/ Trouble(c)
  PROVE  SqlKept'
<1>0. Fits(c, call[c], c \in alive) /\ IsCall(call[c]) /\ Keeps
  BY DEF Base, Local, Fits
<1>1. Op(c) = "create" => LookForRepository(c) \/ InsertRepository(c) \/ InsertVocabulary(c) \/ Fails(c)
  BY <1>0, SqlCreatesOnly
<1>2. ASSUME RowsOnly(c), ~InsertRepository(c), ~InsertVocabulary(c) PROVE SqlKept'
  <2>1. ASSUME Op(c) = "create" PROVE call'[c].reply # "created"
    <3>1. CASE Fails(c)
      BY <1>0, <3>1, RepliesIs, BecomesIs DEF Fails
    <3>2. CASE LookForRepository(c)
      <4>1. call[c].reply = None
        BY <1>0, <3>2 DEF LookForRepository, Fits
      <4>2. Goes(c, "repository").reply = None /\ Replies(c, "duplicate").reply = "duplicate"
        BY <1>0, <4>1, GoesIs, RepliesIs DEF Fields
      <4> QED
        BY <1>0, <3>2, <4>2, BecomesIs DEF LookForRepository, None
    <3> QED
      BY <1>1, <1>2, <2>1, <3>1, <3>2
  <2> QED
    BY <1>2, <2>1, SqlKeptLike DEF RowsOnly
<1>3. CASE BeginDelete(c) \/ ReadVersion(c) \/ Fails(c)
  <2>1. RowsOnly(c)
    BY <1>3, Tells DEF BeginDelete, ReadVersion, Fails, RowsOnly, store
  <2>2. Op(c) = "create" => call'[c].reply # "created"
    BY <1>0, <1>3, RepliesIs, BecomesIs DEF BeginDelete, ReadVersion, Fails
  <2> QED
    BY <2>1, <2>2, SqlKeptLike DEF RowsOnly
<1>4. CASE InsertRepository(c)
  <2>1. Op(c) = "create" /\ call[c].reply = None /\ Repo(c) \in Repositories
    BY <1>0, <1>4 DEF InsertRepository, Fits, PcFits, Base, Requests, Op, Repo, None
  <2>2. call'[c].reply # "created" /\ Answers(c)
    <3>1. Goes(c, "seed").reply = None /\ Replies(c, "duplicate").reply = "duplicate"
      BY <1>0, <2>1, GoesIs, RepliesIs DEF Fields
    <3>2. Answered(c, Goes(c, "seed")) \/ Becomes(c, Replies(c, "duplicate"))
      BY <1>4 DEF InsertRepository
    <3> QED
      BY <1>0, <3>1, <3>2, AnsweredWith, BecomesIs, Tells DEF None
  <2>3. CASE UNCHANGED marker
    BY <1>4, <2>2, <2>3, SqlKeptLike DEF InsertRepository
  <2>4. CASE marker' = [marker EXCEPT ![Repo(c)] = c]
    <3>1. \A d \in Clients : d # c => call'[d] = call[d]
      BY <1>0, <2>2, OthersStay
    <3>2. UNCHANGED vocabulary
      BY <1>4 DEF InsertRepository
    <3> SUFFICES ASSUME NEW r \in Repositories
                 PROVE  /\ marker'[r] \in Makers \cup {None}
                        /\ marker'[r] = First => vocabulary[r] # {}
                        /\ marker'[r] \in Clients =>
                             /\ Op(marker'[r]) = "create" /\ Repo(marker'[r]) = r
                             /\ call'[marker'[r]].reply = "created" => vocabulary[r] # {}
      BY <3>2 DEF SqlKept, SeededBy, Op, Repo, Makers
    <3>3. CASE r = Repo(c)
      <4>1. marker'[r] = c
        BY <1>0, <2>4, <3>3 DEF Keeps
      <4>2. c # First
        BY LifeAssumption
      <4> QED
        BY <2>1, <2>2, <3>3, <4>1, <4>2 DEF Makers
    <3>4. CASE r # Repo(c)
      <4>1. marker'[r] = marker[r]
        BY <2>4, <3>4
      <4>2. /\ marker[r] \in Makers \cup {None}
            /\ marker[r] = First => vocabulary[r] # {}
            /\ marker[r] \in Clients => SeededBy(marker[r], r)
        BY DEF SqlKept
      <4>3. marker[r] # c
        BY <3>4, <4>2 DEF SeededBy
      <4> QED
        BY <3>1, <4>1, <4>2, <4>3 DEF SeededBy
    <3> QED
      BY <3>3, <3>4
  <2> QED
    BY <1>4, <2>3, <2>4 DEF InsertRepository
<1>5. CASE InsertVocabulary(c)
  <2>1. Answers(c) /\ UNCHANGED marker
    BY <1>5, Tells DEF InsertVocabulary
  <2>2. CASE UNCHANGED vocabulary /\ Becomes(c, Replies(c, "failed"))
    <3>1. call'[c].reply = "failed"
      BY <1>0, <2>2, RepliesIs, BecomesIs
    <3> QED
      BY <2>1, <2>2, <3>1, SqlKeptLike
  <2>3. CASE vocabulary' = [vocabulary EXCEPT ![Repo(c)] = {[of |-> marker[Repo(c)], by |-> c, version |-> 0]}]
    <3>1. \A d \in Clients : d # c => call'[d] = call[d]
      BY <1>0, <2>1, OthersStay
    <3> SUFFICES ASSUME NEW r \in Repositories
                 PROVE  /\ marker[r] \in Makers \cup {None}
                        /\ marker[r] = First => vocabulary'[r] # {}
                        /\ marker[r] \in Clients =>
                             /\ Op(marker[r]) = "create" /\ Repo(marker[r]) = r
                             /\ call'[marker[r]].reply = "created" => vocabulary'[r] # {}
      BY <2>1 DEF SqlKept, SeededBy, Op, Repo, Makers
    <3>2. /\ marker[r] \in Makers \cup {None}
          /\ marker[r] = First => vocabulary[r] # {}
          /\ marker[r] \in Clients => SeededBy(marker[r], r)
      BY DEF SqlKept
    <3>3. vocabulary'[r] = vocabulary[r] \/ vocabulary'[r] # {}
      BY <1>0, <2>3 DEF Keeps
    <3>4. marker[r] = c => vocabulary'[r] # {}
      BY <1>0, <2>3, <3>2 DEF SeededBy, Keeps
    <3> QED
      BY <3>1, <3>2, <3>3, <3>4 DEF SeededBy
  <2> QED
    BY <1>5, <2>2, <2>3 DEF InsertVocabulary
<1>6. CASE DeleteRepository(c)
  <2>1. Op(c) # "create" /\ Answers(c)
    BY <1>0, <1>6, Tells DEF DeleteRepository, Fits, PcFits
  <2>2. \/ UNCHANGED <<marker, vocabulary>>
        \/ /\ marker' = [marker EXCEPT ![Repo(c)] = None]
           /\ vocabulary' = [vocabulary EXCEPT ![Repo(c)] = {}]
    BY <1>6 DEF DeleteRepository
  <2> QED
    BY <1>0, <2>1, <2>2, SqlKeptLike DEF Keeps
<1>7. CASE UpdateVocabulary(c)
  <2>1. Op(c) # "create" /\ Answers(c) /\ UNCHANGED marker
    BY <1>0, <1>7, Tells DEF UpdateVocabulary, Fits, PcFits
  <2> DEFINE matching == {v \in vocabulary[Repo(c)] : v.version = call[c].version}
             saved == {[of |-> v.of, by |-> c, version |-> v.version + 1] : v \in matching}
  <2>2. UNCHANGED vocabulary \/ (matching # {} /\ vocabulary' = [vocabulary EXCEPT ![Repo(c)] = saved])
    BY <1>7 DEF UpdateVocabulary
  <2>3. matching # {} => saved # {}
    OBVIOUS
  <2> HIDE DEF matching, saved
  <2> QED
    BY <1>0, <2>1, <2>2, <2>3, SqlKeptLike DEF Keeps
<1>8. CASE SqlServerStep(c)
  BY <1>2, <1>4, <1>5, <1>6, <1>7, <1>8, SqlRowsOnly DEF SqlServerStep
<1> QED
  BY <1>3, <1>8 DEF Step, Trouble

LEMMA KeptNext ==
  ASSUME Base, Kept, Next
  PROVE  Kept'
<1>1. PICK c \in Clients : Step(c) \/ Trouble(c)
  BY DEF Next
<1>2. UNCHANGED <<provider, request>>
  BY DEF Next, Observed
<1>3. Good(c, call'[c])
  BY <1>1, <1>2, StepIs
<1>4. CASE provider = "cosmosdb"
  BY <1>1, <1>2, <1>3, <1>4, CosmosKeptNext, GuardedNext DEF Kept, Neo4jKept, SqlKept
<1>5. CASE provider = "neo4j"
  BY <1>1, <1>2, <1>5, Neo4jKeptNext DEF Kept, CosmosKept, Guarded, SqlKept
<1>6. CASE provider = "sqlserver"
  BY <1>1, <1>2, <1>6, SqlKeptNext DEF Kept, CosmosKept, Guarded, Neo4jKept
<1> QED
  BY <1>4, <1>5, <1>6 DEF Base, Requests

LEMMA KeptHolds == Spec => []Kept
<1>1. Init => Kept
  <2> SUFFICES ASSUME Init PROVE Kept
    OBVIOUS
  <2>1. PICK live : marker = [r \in Repositories |-> IF r \in live THEN First ELSE None]
    BY DEF Init
  <2>2. /\ vocabulary = [r \in Repositories |->
             IF marker[r] = None THEN {} ELSE {[of |-> First, by |-> First, version |-> 0]}]
        /\ call = [c \in Clients |-> NoCall]
    BY DEF Init
  <2>3. \A r \in Repositories : marker[r] # None => marker[r] = First /\ \E v \in vocabulary[r] : v.of = First
    BY <2>1, <2>2
  <2>4. \A c \in Clients : call[c].pc = "idle"
    BY <2>2 DEF NoCall
  <2>5. CosmosKept
    BY <2>3, <2>4 DEF CosmosKept, HasIts, WaitsWithIts
  <2>6. Neo4jKept
    BY <2>3 DEF Neo4jKept
  <2>7. SqlKept
    BY <2>3, LifeAssumption DEF SqlKept, Makers, First, None
  <2>8. Guarded
    BY <2>4 DEF Guarded, LooksBehind, Batch
  <2> QED
    BY <2>5, <2>6, <2>7, <2>8 DEF Kept
<1>2. Base /\ Kept /\ [Next]_vars => Kept'
  <2>1. ASSUME Kept, UNCHANGED vars PROVE Kept'
    <3>1. UNCHANGED <<provider, marker, vocabulary, request, call, swept>>
      BY <2>1 DEF vars, store, history
    <3>2. CosmosKept'
      BY <2>1, <3>1 DEF Kept, CosmosKept, HasIts, WaitsWithIts, Repo
    <3>3. Neo4jKept'
      BY <2>1, <3>1 DEF Kept, Neo4jKept
    <3>4. SqlKept'
      BY <2>1, <3>1 DEF Kept, SqlKept, SeededBy, Repo, Op, Makers
    <3>5. Guarded'
      BY <2>1, <3>1 DEF Kept, Guarded, LooksBehind, Repo
    <3> QED
      BY <3>2, <3>3, <3>4, <3>5 DEF Kept
  <2> QED
    BY <2>1, KeptNext
<1> QED
  BY <1>1, <1>2, BaseHolds, PTL DEF Spec

LEMMA KeptIsEnough == Base /\ Kept => LiveHasVocabulary
<1> SUFFICES ASSUME Base, Kept, NEW r \in Repositories, marker[r] \notin swept \cup {None}, Seeded(marker[r])
             PROVE  vocabulary[r] # {}
  BY DEF LiveHasVocabulary
<1>1. CASE provider = "cosmosdb"
  BY <1>1 DEF Kept, CosmosKept, HasIts
<1>2. CASE provider = "neo4j"
  BY <1>2 DEF Kept, Neo4jKept
<1>3. CASE provider = "sqlserver"
  BY <1>3 DEF Kept, SqlKept, Seeded, SeededBy, Makers
<1> QED
  BY <1>1, <1>2, <1>3 DEF Base, Requests

\* A repository has a vocabulary while it lives, in whatever order creates, deletes and
\* saves interleave, fail or are repeated; in SQL Server from the answer to its create on,
\* in CosmosDB unless a drain took the vocabulary before the create wrote the marker, or in
\* the batch inside which the create wrote it.
THEOREM VocabularyLivesAsLong == Spec => []LiveHasVocabulary
BY BaseHolds, KeptHolds, KeptIsEnough, PTL

=============================================================================
