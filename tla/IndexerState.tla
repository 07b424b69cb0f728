---------------------------- MODULE IndexerState ----------------------------
(***************************************************************************)
(* The extraction phase of the indexer: extract calls of the MCP server,   *)
(* the loops each of them runs, the stop command, and the state they share *)
(* through files: the source list, the stop signal, the process lock and   *)
(* the extraction outputs.                                                 *)
(*                                                                         *)
(* Every change of the source list reads the file, changes the copy and    *)
(* writes the whole file back, and everybody else runs in between.  The    *)
(* file is truncated when a write begins and complete when it lands, so a  *)
(* read may find it unreadable; of two writes that overlap, the second may *)
(* leave a tail of the first behind it.  The extraction outputs are files  *)
(* written the same way, one for every worker and file name: documents of  *)
(* different folders share one when their names agree but for the          *)
(* extension.  The lock and the stop signal are single small writes and    *)
(* are taken as atomic.                                                    *)
(*                                                                         *)
(* Extraction runs a pool of workers; the single default worker is a pool  *)
(* of one.  Workers are assigned and sources need no conversion.           *)
(***************************************************************************)
EXTENDS Integers, FiniteSets, SequencesExt

CONSTANTS
  Sources,      \* documents in the source list
  NameOf,       \* the name of each document's file, without folder and extension
  Workers,      \* extraction workers of the pool
  Slots,        \* the concurrent loops of one extract call
  WorkerOf,     \* [Slots -> Workers]: the worker each loop runs
  Stronger,     \* [Workers -> SUBSET Workers]: whom a failed source may go to
  Calls,        \* extract calls
  Stops,        \* stop commands
  Scenarios     \* what may be found at the start and happen, see the assumption

Main == "main"     \* a call or a command itself, beside the loops it runs

ASSUME IndexerAssumption ==
  /\ IsFiniteSet(Sources)
  /\ DOMAIN NameOf = Sources
  /\ Main \notin Slots \cup Sources
  /\ Calls \cap Stops = {}
  /\ WorkerOf \in [Slots -> Workers]
  /\ Stronger \in [Workers -> SUBSET Workers]
  /\ \A sc \in Scenarios :
       /\ sc.assigned \in [Sources -> Seq(Workers) \ {<<>>}]  \* by analyze
       /\ sc.pending \subseteq Sources      \* the other documents are extracted
       /\ sc.by \subseteq Calls \cup Stops  \* the commands that are given
       /\ sc.later \subseteq sc.by          \* ... those given when nothing else runs
       /\ sc.faults \in Nat                \* bound on failed extractions and crashes

VARIABLES
  file,       \* the source list's file: <<entries>>, or <<>> when it does not parse
  stop,       \* the stop signal's file is there
  lock,       \* the process lock's file: the process that wrote it, or none
  outputs,    \* the extraction outputs' files: <<the document it is the output of>>, or
              \* <<>> when there is no file or it does not parse
  pid,        \* the running process; every crash starts a new one
  call,       \* what each extract call keeps in memory
  task,       \* where each call, loop and stop command has got to
  faults,     \* how many failures of the model and crashes are still to come
  broken,       \* history: outputs left unreadable, their rewriting died or overlapped
  recorded,   \* history: outputs whose recordExtractionComplete has returned
  overlapped  \* history: two changes of the list were made at the same time

vars == <<file, stop, lock, outputs, pid, call, task, faults, broken, recorded, overlapped>>

-----------------------------------------------------------------------------
Status == {"pending", "extracting", "deduplicating", "extracted"}

\* A worker is a key of extractionFiles once its output is recorded.
Entry == [status : Status, files : SUBSET Workers, assigned : Seq(Workers)]

\* The calls and commands themselves, and the loops of the calls.
Actors == (Calls \X (Slots \cup {Main})) \cup {<<h, Main>> : h \in Stops}

Steps == {"later", "idle", "offer", "acquire", "claim", "clear", "reset", "list", "work", "reassign",
          "poll", "shift", "extracting", "extract", "deduplicating", "save", "saving", "record",
          "error", "give up", "unlock", "done"}

\* How far the change of the source list that a step makes has got, and the list it
\* is about to write.
Task == [step : Steps, io : {"read", "write", "land"},
         source : Sources \cup {Main}, copy : UNION {[1..n -> [Sources -> Entry]] : n \in 0..1}]

At(step, s) == [step |-> step, io |-> "read", source |-> s, copy |-> <<>>]

NoCall == [queue |-> [w \in Workers |-> <<>>], failed |-> <<>>,
           assigned |-> [s \in Sources |-> <<>>], retry |-> FALSE, aborted |-> FALSE]

Running(a) == task[a].step \notin {"later", "idle", "done"}

\* The call is between its lock check and the end of its background work.
Live(c) == Running(<<c, Main>>)

SlotsOf(c) == {c} \X Slots

\* The extraction outputs' files, and the one that a loop saves to.
OutputFiles == {NameOf[s] : s \in Sources} \X Workers

OutputFile(s, w) == <<NameOf[s], w>>

SavesTo(a) == OutputFile(task[a].source, WorkerOf[a[2]])

Saving(f) == \E a \in Calls \X Slots : task[a].step = "saving" /\ SavesTo(a) = f

Init == \E sc \in Scenarios :
  LET done == UNION {{s} \X ToSet(sc.assigned[s]) : s \in Sources \ sc.pending}
  IN  /\ file = <<[s \in Sources |->
                     [status |-> IF s \in sc.pending THEN "pending" ELSE "extracted",
                      files |-> IF s \in sc.pending THEN {} ELSE ToSet(sc.assigned[s]),
                      assigned |-> sc.assigned[s]]]>>
      /\ stop = FALSE
      /\ lock = {}
      /\ outputs \in [OutputFiles -> {<<>>} \cup {<<s>> : s \in Sources}]
      /\ \A f \in OutputFiles :
           LET saved == {d[1] : d \in {e \in done : OutputFile(e[1], e[2]) = f}}
           IN  \/ saved = {} /\ outputs[f] = <<>>
               \/ \E s \in saved : outputs[f] = <<s>>
      /\ pid = 0
      /\ call = [c \in Calls |-> NoCall]
      /\ task = [a \in Actors |->
                   At(IF a[2] = Main /\ a[1] \notin sc.by THEN "done"
                      ELSE IF a[2] = Main /\ a[1] \in sc.later THEN "later" ELSE "idle", Main)]
      /\ faults = sc.faults
      /\ broken = {}
      /\ recorded = done
      /\ overlapped = FALSE

-----------------------------------------------------------------------------
(* The changes made to a copy of the list.                                 *)

SetStatus(entries, s, status) == [entries EXCEPT ![s].status = status]

\* Mutation of RecordExtractionComplete: one finished worker is enough.
RecordCompleteBySome(entries, s, w) ==
  [entries EXCEPT ![s].files = @ \cup {w}, ![s].status = "extracted"]

\* Mutation of RecordExtractionComplete: the outputs of the others are not merged.
RecordCompleteAlone(entries, s, w) ==
  [entries EXCEPT ![s].files = {w},
                  ![s].status = IF ToSet(entries[s].assigned) \subseteq {w}
                                THEN "extracted" ELSE "pending"]

\* The source is extracted once every assigned worker has an output.
RecordExtractionComplete(entries, s, w) ==
  LET files == entries[s].files \cup {w}
  IN  [entries EXCEPT ![s].files = files,
                      ![s].status = IF ToSet(entries[s].assigned) \subseteq files
                                    THEN "extracted" ELSE "pending"]

RecordExtractionError(entries, s) ==
  IF entries[s].status = "extracted" THEN entries ELSE SetStatus(entries, s, "pending")

ResetExtractingSources(entries) ==
  [s \in Sources |-> IF entries[s].status \in {"extracting", "deduplicating"}
                     THEN [entries[s] EXCEPT !.status = "pending"] ELSE entries[s]]

\* The worker a failed source goes to: a more capable one than the last assigned, and
\* not assigned yet.
Candidates(assigned) == Stronger[Last(assigned)] \ ToSet(assigned)

\* What a step of actor a writes for source s, made from what it read.
Update(a, s, entries) ==
  LET step == task[a].step
  IN  CASE step \in {"extracting", "deduplicating"} -> SetStatus(entries, s, step)
        [] step = "record" -> RecordExtractionComplete(entries, s, WorkerOf[a[2]])
        [] step = "error" -> RecordExtractionError(entries, s)
        [] step = "reset" -> ResetExtractingSources(entries)
        [] step = "reassign" ->
             [entries EXCEPT ![s].assigned = call[a[1]].assigned[s], ![s].status = "pending"]

-----------------------------------------------------------------------------
(* A change of the source list: the file is read, truncated and written.   *)

Goes(a, step) == task' = [task EXCEPT ![a] = At(step, task[a].source)]

Changes == {"extracting", "deduplicating", "record", "error", "reset", "reassign"}

\* The whole file is read and the change made in memory.
ReadList(a) ==
  /\ task[a].step \in Changes /\ task[a].io = "read" /\ file # <<>>
  /\ task[a].step = "reset" => ResetExtractingSources(file[1]) # file[1]
  /\ task[a].step = "reassign" => task[a].source # Main
  /\ task' = [task EXCEPT ![a].io = "write",
                          ![a].copy = <<Update(a, task[a].source, file[1])>>]
  /\ overlapped' = (overlapped \/ \E b \in Actors \ {a} : task[b].io # "read")
  /\ UNCHANGED <<file, stop, lock, outputs, pid, call, faults, broken, recorded>>

\* The write begins: the file is truncated.
WriteBegins(a) ==
  /\ task[a].io = "write"
  /\ file' = <<>>
  /\ task' = [task EXCEPT ![a].io = "land"]
  /\ UNCHANGED <<stop, lock, outputs, pid, call, faults, broken, recorded, overlapped>>

\* The write lands; over another one that landed since it began, it may leave that
\* one's tail, and the file does not parse.
WriteLands(a) ==
  /\ task[a].io = "land"
  /\ \/ file' = task[a].copy
     \/ file # <<>> /\ file' = <<>>
  /\ LET step == task[a].step
         s == task[a].source
         next == CASE step = "extracting" -> "extract"
                   [] step = "deduplicating" -> "save"
                   [] step = "record" -> "poll"
                   [] step = "error" -> "give up"
                   [] step = "reset" -> IF a[1] \in Stops THEN "unlock" ELSE "list"
                   [] step = "reassign" -> "reassign"
     IN  /\ task' = [task EXCEPT ![a] = At(next, IF step \in {"record", "reassign"} THEN Main ELSE s)]
         /\ recorded' = IF step = "record" THEN recorded \cup {<<s, WorkerOf[a[2]]>>}
                        ELSE recorded
  /\ UNCHANGED <<stop, lock, outputs, pid, call, faults, broken, overlapped>>

-----------------------------------------------------------------------------
(* The loops of a call.                                                    *)

Queue(a) == call[a[1]].queue[WorkerOf[a[2]]]

EmptyQueue(a) == call' = [call EXCEPT ![a[1]].queue[WorkerOf[a[2]]] = <<>>]

\* Mutation of Rejects: the lock is released by the calls that succeed.
RejectsLocked(a) ==
  task' = [b \in Actors |->
             IF b = a \/ (b = <<a[1], Main>> /\ task[b].step = "work") THEN At("done", Main)
             ELSE task[b]]

\* A loop that throws: Promise.all rejects and the call goes on to its end, while its
\* other loops keep running.
Rejects(a) ==
  task' = [b \in Actors |->
             IF b = a THEN At("done", Main)
             ELSE IF b = <<a[1], Main>> /\ task[b].step = "work" THEN At("unlock", Main)
             ELSE task[b]]

\* The head of the loop; when it goes on it awaits the stop signal.
Poll(a) ==
  /\ task[a].step = "poll"
  /\ IF Queue(a) = <<>> \/ call[a[1]].aborted
     THEN EmptyQueue(a) /\ Goes(a, "done")
     ELSE UNCHANGED call /\ Goes(a, "shift")
  /\ UNCHANGED <<file, stop, lock, outputs, pid, faults, broken, recorded, overlapped>>

\* Mutation of Shift: the source stays in the queue.
ShiftKeeping(a) ==
  /\ task[a].step = "shift" /\ Queue(a) # <<>> /\ ~ stop
  /\ task' = [task EXCEPT ![a] = At("extracting", Head(Queue(a)))]
  /\ UNCHANGED <<file, stop, lock, outputs, pid, call, faults, broken, recorded, overlapped>>

\* After the await: the queue may have been emptied by another loop meanwhile.
Shift(a) ==
  /\ task[a].step = "shift"
  /\ \/ stop /\ EmptyQueue(a) /\ Goes(a, "done")
     \/ ~ stop /\ Queue(a) = <<>> /\ UNCHANGED call /\ Rejects(a)
     \/ /\ ~ stop /\ Queue(a) # <<>>
        /\ call' = [call EXCEPT ![a[1]].queue[WorkerOf[a[2]]] = Tail(@)]
        /\ task' = [task EXCEPT ![a] = At("extracting", Head(Queue(a)))]
  /\ UNCHANGED <<file, stop, lock, outputs, pid, faults, broken, recorded, overlapped>>

\* The worker returns an output, fails, or is aborted.
Extract(a) ==
  /\ task[a].step = "extract"
  /\ \/ Goes(a, "deduplicating") /\ UNCHANGED faults
     \/ call[a[1]].aborted /\ Goes(a, "error") /\ UNCHANGED faults
     \/ faults > 0 /\ faults' = faults - 1 /\ Goes(a, "error")
  /\ UNCHANGED <<file, stop, lock, outputs, pid, call, broken, recorded, overlapped>>

\* Mutation of SaveExtractionOutput: the output is written after it is recorded.
SaveOutputLater(a) ==
  /\ task[a].step = "save"
  /\ Goes(a, "record")
  /\ UNCHANGED <<file, stop, lock, outputs, pid, call, faults, broken, recorded, overlapped>>

\* The output's file is truncated, whichever document's output it held.
OutputBegins(a) ==
  /\ task[a].step = "save"
  /\ outputs' = [outputs EXCEPT ![SavesTo(a)] = <<>>]
  /\ Goes(a, "saving")
  /\ UNCHANGED <<file, stop, lock, pid, call, faults, broken, recorded, overlapped>>

\* The output lands; over another one that landed since, it may leave that one's tail.
OutputLands(a) ==
  /\ task[a].step = "saving"
  /\ LET f == SavesTo(a)
     IN  \/ outputs' = [outputs EXCEPT ![f] = <<task[a].source>>] /\ broken' = broken \ {f}
         \/ outputs[f] # <<>> /\ outputs' = [outputs EXCEPT ![f] = <<>>] /\ broken' = broken \cup {f}
  /\ Goes(a, "record")
  /\ UNCHANGED <<file, stop, lock, pid, call, faults, recorded, overlapped>>

SaveExtractionOutput(a) == OutputBegins(a) \/ OutputLands(a)

\* The list does not parse: the change throws.  In the handler of the extraction the
\* error is recorded, which throws out of the loop when the list does not parse either.
ListMissing(a) ==
  /\ a[2] # Main /\ task[a].step \in Changes /\ task[a].io = "read" /\ file = <<>>
  /\ IF task[a].step = "error" THEN Rejects(a) ELSE Goes(a, "error")
  /\ UNCHANGED <<file, stop, lock, outputs, pid, call, faults, broken, recorded, overlapped>>

\* After the error is recorded: unless the run is being stopped, the source failed.
GiveUp(a) ==
  /\ task[a].step = "give up"
  /\ IF stop \/ call[a[1]].aborted THEN UNCHANGED call
     ELSE call' = [call EXCEPT ![a[1]].failed = Append(@, task[a].source)]
  /\ task' = [task EXCEPT ![a] = At("poll", Main)]
  /\ UNCHANGED <<file, stop, lock, outputs, pid, faults, broken, recorded, overlapped>>

-----------------------------------------------------------------------------
(* An extract call.                                                        *)

\* indexing_execute refuses while any lock is there, a dead process's included.
Execute(c) ==
  /\ \/ task[<<c, Main>>].step = "idle"
     \/ task[<<c, Main>>].step = "later" /\ \A a \in Actors : ~ Running(a)
  /\ lock = {}
  /\ Goes(<<c, Main>>, "offer")
  /\ UNCHANGED <<file, stop, lock, outputs, pid, call, faults, broken, recorded, overlapped>>

Pending == {s \in Sources : file # <<>> /\ file[1][s].status = "pending"}

\* executeExtract reads the list and answers when nothing is pending.
Offer(c) ==
  /\ task[<<c, Main>>].step = "offer"
  /\ Goes(<<c, Main>>, IF Pending = {} THEN "done" ELSE "acquire")
  /\ UNCHANGED <<file, stop, lock, outputs, pid, call, faults, broken, recorded, overlapped>>

\* acquireProcessLock reads the lock; held by a live process it gives up, and the
\* caller goes on all the same.
AcquireProcessLock(c) ==
  /\ task[<<c, Main>>].step = "acquire"
  /\ Goes(<<c, Main>>, IF lock = {pid} THEN "clear" ELSE "claim")
  /\ UNCHANGED <<file, stop, lock, outputs, pid, call, faults, broken, recorded, overlapped>>

ClaimProcessLock(c) ==
  /\ task[<<c, Main>>].step = "claim"
  /\ lock' = {pid}
  /\ Goes(<<c, Main>>, "clear")
  /\ UNCHANGED <<file, stop, outputs, pid, call, faults, broken, recorded, overlapped>>

ClearStopRequest(c) ==
  /\ task[<<c, Main>>].step = "clear"
  /\ stop' = FALSE
  /\ Goes(<<c, Main>>, "reset")
  /\ UNCHANGED <<file, lock, outputs, pid, call, faults, broken, recorded, overlapped>>

\* A reset finds nothing to change, or a list that does not parse.
NothingToReset(a) ==
  /\ task[a].step = "reset" /\ task[a].io = "read"
  /\ file # <<>> => ResetExtractingSources(file[1]) = file[1]
  /\ Goes(a, IF a[1] \in Stops THEN "unlock" ELSE "list")
  /\ UNCHANGED <<file, stop, lock, outputs, pid, call, faults, broken, recorded, overlapped>>

\* The queue of each worker: the sources assigned to it.
Queues(assigned, S) ==
  [w \in Workers |-> SetToSeq({s \in S : w \in ToSet(assigned[s])})]

\* As many loops of each worker as it has sources to extract.
Started(queue) ==
  CHOOSE T \in SUBSET Slots : \A w \in Workers :
    LET loops == {k \in Slots : WorkerOf[k] = w}
        n == IF Cardinality(loops) < Len(queue[w]) THEN Cardinality(loops) ELSE Len(queue[w])
    IN  Cardinality(T \cap loops) = n

\* The call and the loops it starts on its queues.
StartLoops(c, queue) ==
  task' = [a \in Actors |->
             IF a = <<c, Main>> THEN At("work", Main)
             ELSE IF a[1] = c /\ a[2] \in Started(queue) THEN At("poll", Main)
             ELSE task[a]]

ExtractWithWorkerPool(c) ==
  /\ task[<<c, Main>>].step = "list"
  /\ IF Pending = {}
     THEN Goes(<<c, Main>>, "unlock") /\ UNCHANGED call
     ELSE LET assigned == [s \in Sources |-> file[1][s].assigned]
              queue == Queues(assigned, Pending)
          IN  /\ call' = [call EXCEPT ![c].queue = queue, ![c].assigned = assigned]
              /\ StartLoops(c, queue)
  /\ UNCHANGED <<file, stop, lock, outputs, pid, faults, broken, recorded, overlapped>>

\* The poller sees the stop signal; it is cleared when the first pass ends.
Abort(c) ==
  /\ task[<<c, Main>>].step = "work" /\ ~ call[c].retry
  /\ stop /\ ~ call[c].aborted
  /\ call' = [call EXCEPT ![c].aborted = TRUE]
  /\ UNCHANGED <<file, stop, lock, outputs, pid, task, faults, broken, recorded, overlapped>>

\* Every loop has ended.
WorkEnds(c) ==
  /\ task[<<c, Main>>].step = "work"
  /\ \A a \in SlotsOf(c) : ~ Running(a)
  /\ IF call[c].aborted \/ call[c].retry
     THEN Goes(<<c, Main>>, "unlock") /\ UNCHANGED call
     ELSE Goes(<<c, Main>>, "reassign") /\ call' = [call EXCEPT ![c].retry = TRUE]
  /\ UNCHANGED <<file, stop, lock, outputs, pid, faults, broken, recorded, overlapped>>

\* A failed source goes to one more worker, besides those it has; without a candidate
\* it is left alone.
Reassign(c) ==
  /\ task[<<c, Main>>].step = "reassign" /\ task[<<c, Main>>].source = Main
  /\ call[c].failed # <<>>
  /\ LET s == Head(call[c].failed)
         rest == [call[c] EXCEPT !.failed = Tail(@)]
     IN  IF Candidates(call[c].assigned[s]) = {}
         THEN call' = [call EXCEPT ![c] = rest] /\ UNCHANGED task
         ELSE \E w \in Candidates(call[c].assigned[s]) :
                /\ call' = [call EXCEPT ![c] = [rest EXCEPT
                              !.assigned[s] = Append(@, w), !.queue[w] = Append(@, s)]]
                /\ task' = [task EXCEPT ![<<c, Main>>].source = s]
  /\ UNCHANGED <<file, stop, lock, outputs, pid, faults, broken, recorded, overlapped>>

\* The reassigned sources run once more, on the new workers only.
Retry(c) ==
  /\ task[<<c, Main>>].step = "reassign" /\ task[<<c, Main>>].source = Main
  /\ call[c].failed = <<>>
  /\ IF \A w \in Workers : call[c].queue[w] = <<>> THEN Goes(<<c, Main>>, "unlock")
     ELSE StartLoops(c, call[c].queue)
  /\ UNCHANGED <<file, stop, lock, outputs, pid, call, faults, broken, recorded, overlapped>>

\* The reassignment of a source throws when the list does not parse.
ReassignFails(c) ==
  /\ task[<<c, Main>>].step = "reassign" /\ task[<<c, Main>>].io = "read"
  /\ task[<<c, Main>>].source # Main /\ file = <<>>
  /\ task' = [task EXCEPT ![<<c, Main>>] = At("unlock", Main)]
  /\ UNCHANGED <<file, stop, lock, outputs, pid, call, faults, broken, recorded, overlapped>>

\* The lock is removed whoever holds it.
ReleaseProcessLock(a) ==
  /\ task[a].step = "unlock"
  /\ lock' = {}
  /\ Goes(a, "done")
  /\ UNCHANGED <<file, stop, outputs, pid, call, faults, broken, recorded, overlapped>>

-----------------------------------------------------------------------------
(* The stop command, and crashes.                                          *)

RequestStop(h) ==
  /\ task[<<h, Main>>].step = "idle"
  /\ stop' = TRUE
  /\ Goes(<<h, Main>>, "reset")
  /\ UNCHANGED <<file, lock, outputs, pid, call, faults, broken, recorded, overlapped>>

\* The server dies, in the middle of whatever it does; the files stay as they are.
Crash ==
  /\ faults > 0
  /\ faults' = faults - 1
  /\ pid' = pid + 1
  /\ task' = [a \in Actors |-> IF Running(a) THEN At("done", Main) ELSE task[a]]
  /\ call' = [c \in Calls |-> NoCall]
  /\ broken' = broken \cup {f \in OutputFiles : Saving(f)}
  /\ UNCHANGED <<file, stop, lock, outputs, recorded, overlapped>>

-----------------------------------------------------------------------------
\* A step an actor takes on its own once it can.
Step(a) == \/ ReadList(a) \/ WriteBegins(a) \/ WriteLands(a) \/ NothingToReset(a)
           \/ ReleaseProcessLock(a)

LoopStep(a) == \/ Poll(a) \/ Shift(a) \/ Extract(a) \/ SaveExtractionOutput(a)
               \/ ListMissing(a) \/ GiveUp(a)

CallStep(c) == \/ Offer(c) \/ AcquireProcessLock(c) \/ ClaimProcessLock(c)
               \/ ClearStopRequest(c) \/ ExtractWithWorkerPool(c) \/ WorkEnds(c)
               \/ Reassign(c) \/ Retry(c) \/ ReassignFails(c)

\* The event loop runs on while a callback is ready, and a model call ends, with its
\* answer or by its timeout.
Progress == \/ \E a \in Actors : Step(a)
            \/ \E a \in Calls \X Slots : LoopStep(a)
            \/ \E c \in Calls : CallStep(c)

Next == \/ Progress
        \/ \E c \in Calls : Execute(c) \/ Abort(c)
        \/ \E h \in Stops : RequestStop(h)
        \/ Crash

Spec == Init /\ [][Next]_vars /\ WF_vars(Progress)

-----------------------------------------------------------------------------
(* Properties.                                                             *)

TypeOK ==
  /\ \A i \in DOMAIN file : i = 1 /\ file[i] \in [Sources -> Entry]
  /\ stop \in BOOLEAN
  /\ lock \subseteq 0..pid /\ Cardinality(lock) <= 1
  /\ DOMAIN outputs = OutputFiles
  /\ \A f \in OutputFiles : outputs[f] # <<>> =>
       \E s \in Sources : outputs[f] = <<s>> /\ NameOf[s] = f[1]
  /\ broken \subseteq OutputFiles
  /\ pid \in Nat
  /\ DOMAIN call = Calls /\ DOMAIN task = Actors
  /\ \A a \in Actors : /\ task[a].step \in Steps /\ task[a].io \in {"read", "write", "land"}
                       /\ task[a].source \in Sources \cup {Main}
                       /\ task[a].io # "read" => task[a].copy[1] \in [Sources -> Entry]
  /\ faults \in Nat
  /\ recorded \subseteq Sources \X Workers
  /\ overlapped \in BOOLEAN

\* The file can be read, or it is just being written, or its writing was cut short by a
\* crash or overlapped another one.
Stands(f) == outputs[f] # <<>> \/ Saving(f) \/ f \in broken

\* Every output the list names was written and can be read, whatever overlapped or
\* crashed since, unless its file was rewritten and that is under way, died or overlapped:
\* a worker extracts a document again while another worker's output is wanting, and
\* documents of one name share the file.  The later phases read the file that
\* recordExtractionComplete named, and it is an output of a document of that name.
RecordedOutputsExist ==
  \A i \in DOMAIN file : \A s \in Sources : \A w \in file[i][s].files :
    LET f == OutputFile(s, w)
    IN  /\ Stands(f)
        /\ outputs[f] # <<>> => \E t \in Sources : NameOf[t] = NameOf[s] /\ outputs[f] = <<t>>

\* A source is extracted only with the outputs of all its workers, also after its
\* entry was rewritten from older copies and a worker was added by a reassignment.
ExtractedIsComplete ==
  \A i \in DOMAIN file : \A s \in Sources :
    file[i][s].status = "extracted" => ToSet(file[i][s].assigned) \subseteq file[i][s].files

\* Unless two changes of the list were made at the same time, a recorded extraction
\* stays recorded: through crashes, failures, retries, stops and later calls.
SerialRecordsStay ==
  ~ overlapped /\ file # <<>> => \A r \in recorded : r[2] \in file[1][r[1]].files

\* The process that runs never keeps a lock that nobody will remove: however a call
\* fails, and whichever calls and stops release each other's lock, the next command
\* is not refused for good.
LockNotOrphaned == lock = {pid} => \E c \in Calls : Live(c)

\* An extract call always ends, whatever fails, stops or overlaps.
CallsEnd == \A c \in Calls : Live(c) ~> ~ Live(c)

\* recordExtractionComplete is there "to avoid race conditions when multiple workers
\* finish concurrently on the same source": what it recorded stays recorded.
RecordsStay ==
  file # <<>> => \A r \in recorded : r[2] \in file[1][r[1]].files

=============================================================================
