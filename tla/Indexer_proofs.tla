--------------------------- MODULE Indexer_proofs ---------------------------
(***************************************************************************)
(* Proofs about the indexer.                                               *)
(*                                                                         *)
(* First IndexerState, for any documents, workers, loops, calls, stops and *)
(* scenarios, and any number of failures and crashes: its types; the       *)
(* outputs that the list names exist, and are complete where it says so;   *)
(* what was recorded stays, while changes do not overlap; the running      *)
(* process keeps no lock that nobody will remove.                          *)
(*                                                                         *)
(* Then CorrectionApplier, for any files, lists of corrections, commands   *)
(* and troubles: what corrections make of a file is in order, and what is  *)
(* approved was written.                                                   *)
(***************************************************************************)
EXTENDS IndexerState, CorrectionApplier, FiniteSetTheorems, SequenceTheorems, TLAPS

-----------------------------------------------------------------------------
(* The inductive invariant: types.                                         *)

\* Every document is assigned to somebody.
FullEntry == [status : Status, files : SUBSET Workers, assigned : Seq(Workers) \ {<<>>}]

List == [Sources -> FullEntry]

\* What a file or a copy may be.
Copy == {<<>>} \cup {<<l>> : l \in List}

FullTask == [step : Steps, io : {"read", "write", "land"}, source : Sources \cup {Main}, copy : Copy]

FullCall == [queue : [Workers -> Seq(Sources)], failed : Seq(Sources),
             assigned : [Sources -> Seq(Workers)], retry : BOOLEAN, aborted : BOOLEAN]

\* What an output's file may hold: the output of a document of its name.
Contents(f) == {<<>>} \cup {<<s>> : s \in {d \in Sources : NameOf[d] = f[1]}}

Filed == DOMAIN outputs = OutputFiles /\ \A f \in OutputFiles : outputs[f] \in Contents(f)

Typed ==
  /\ file \in Copy
  /\ stop \in BOOLEAN
  /\ pid \in Nat
  /\ lock = {} \/ \E p \in 0..pid : lock = {p}
  /\ Filed
  /\ broken \subseteq OutputFiles
  /\ call \in [Calls -> FullCall]
  /\ task \in [Actors -> FullTask]
  /\ faults \in Nat
  /\ recorded \subseteq Sources \X Workers
  /\ overlapped \in BOOLEAN

\* Steps of a loop that are about one document.
SourceSteps == {"extracting", "extract", "deduplicating", "save", "saving", "record", "error", "give up"}

LoopSteps == SourceSteps \cup {"idle", "poll", "shift", "done"}

CallSteps == {"later", "idle", "offer", "acquire", "claim", "clear", "reset", "list", "work",
              "reassign", "unlock", "done"}

StopSteps == {"later", "idle", "reset", "unlock", "done"}

\* Where an actor may be, and that it holds a copy while it changes the list.
Placed(a, t) ==
  /\ a[2] \in Slots => t.step \in LoopSteps
  /\ a[2] = Main /\ a[1] \in Calls => t.step \in CallSteps
  /\ a[1] \in Stops => t.step \in StopSteps
  /\ a[2] \in Slots /\ t.step \in SourceSteps => t.source \in Sources
  /\ t.io # "read" <=> t.copy # <<>>
  /\ t.io # "read" => t.step \in Changes

Staged == \A a \in Actors : Placed(a, task[a])

\* A call that reassigns documents knows to whom they were assigned.
Assigned ==
  \A c \in Calls : task[<<c, Main>>].step \in {"work", "reassign"} =>
    \A s \in Sources : call[c].assigned[s] # <<>>

TypeInv == Typed /\ Staged /\ Assigned

LEMMA ActorKinds ==
  ASSUME NEW a \in Actors
  PROVE  /\ a = <<a[1], a[2]>>
         /\ a[1] \in Calls \/ a[1] \in Stops
         /\ a[2] \in Slots \/ a[2] = Main
         /\ ~ (a[1] \in Calls /\ a[1] \in Stops)
         /\ ~ (a[2] \in Slots /\ a[2] = Main)
         /\ a[1] \in Stops => a[2] = Main
BY IndexerAssumption DEF Actors

LEMMA CallsAreActors ==
  /\ \A c \in Calls : <<c, Main>> \in Actors
  /\ \A h \in Stops : <<h, Main>> \in Actors
  /\ Calls \X Slots \subseteq Actors
BY DEF Actors

LEMMA AtIsTask ==
  ASSUME NEW step \in Steps, NEW s \in Sources \cup {Main}
  PROVE  At(step, s) \in FullTask
BY DEF At, FullTask, Copy

-----------------------------------------------------------------------------
(* Changes of the list.                                                    *)

\* What is true of a changed copy of a list.
Keeps(a, entries, new) ==
  /\ new \in List
  /\ \A s \in Sources : entries[s].files \subseteq new[s].files
  /\ \A s \in Sources :
       \/ new[s].files = entries[s].files
       \/ /\ task[a].step = "record" /\ s = task[a].source
          /\ new[s].files = entries[s].files \cup {WorkerOf[a[2]]}
  /\ task[a].step = "record" => WorkerOf[a[2]] \in new[task[a].source].files
  /\ \A s \in Sources : new[s].status = "extracted" =>
       new[s] = entries[s] \/ ToSet(new[s].assigned) \subseteq new[s].files

LEMMA RecordingLoop ==
  ASSUME TypeInv, NEW a \in Actors, task[a].step \in SourceSteps
  PROVE  a[2] \in Slots /\ task[a].source \in Sources /\ WorkerOf[a[2]] \in Workers
<1>1. a[2] \in Slots
  BY ActorKinds DEF TypeInv, Staged, Placed, SourceSteps, CallSteps, StopSteps
<1> QED
  BY <1>1, IndexerAssumption DEF TypeInv, Staged, Placed

LEMMA UpdateKeeps ==
  ASSUME TypeInv, NEW a \in Actors, task[a].step \in Changes, NEW entries \in List,
         task[a].step = "reassign" => task[a].source # Main
  PROVE  Keeps(a, entries, Update(a, task[a].source, entries))
<1> DEFINE s0 == task[a].source
<1> SUFFICES ASSUME NEW new, new = Update(a, s0, entries)
             PROVE  Keeps(a, entries, new)
  OBVIOUS
<1>a. \A s \in Sources : entries[s] \in FullEntry
  BY DEF List
<1>1. CASE task[a].step \in {"extracting", "deduplicating"}
  <2>1. new = [entries EXCEPT ![s0].status = task[a].step]
    BY <1>1 DEF Update, SetStatus
  <2>2. s0 \in Sources
    BY <1>1, RecordingLoop DEF SourceSteps
  <2>3. /\ \A s \in Sources \ {s0} : new[s] = entries[s]
        /\ new[s0] = [entries[s0] EXCEPT !.status = task[a].step]
        /\ new = [s \in Sources |-> new[s]]
    BY <2>1, <2>2 DEF List
  <2>4. new[s0] \in FullEntry /\ new[s0].files = entries[s0].files /\ new[s0].status # "extracted"
    BY <1>a, <1>1, <2>2, <2>3 DEF FullEntry, Status
  <2>5. new \in List
    BY <1>a, <2>3, <2>4 DEF List
  <2> QED
    BY <1>1, <2>3, <2>4, <2>5 DEF Keeps
<1>2. CASE task[a].step = "record"
  <2>1. s0 \in Sources /\ WorkerOf[a[2]] \in Workers
    BY <1>2, RecordingLoop DEF SourceSteps
  <2> DEFINE files == entries[s0].files \cup {WorkerOf[a[2]]}
             status == IF ToSet(entries[s0].assigned) \subseteq files THEN "extracted" ELSE "pending"
  <2>2. new = [entries EXCEPT ![s0].files = files, ![s0].status = status]
    BY <1>2 DEF Update, RecordExtractionComplete
  <2>3. files \subseteq Workers /\ status \in Status
    BY <1>a, <2>1 DEF FullEntry, Status
  <2>4. /\ \A s \in Sources \ {s0} : new[s] = entries[s]
        /\ new[s0] = [entries[s0] EXCEPT !.files = files, !.status = status]
        /\ new = [s \in Sources |-> new[s]]
    <3> HIDE DEF files, status
    <3> QED
      BY <2>1, <2>2 DEF List
  <2>5. /\ new[s0] \in FullEntry
        /\ new[s0].files = files /\ new[s0].status = status
        /\ new[s0].assigned = entries[s0].assigned
    <3> HIDE DEF files, status
    <3> QED
      BY <1>a, <2>1, <2>3, <2>4 DEF FullEntry
  <2>6. new \in List
    BY <1>a, <2>4, <2>5 DEF List
  <2> QED
    BY <1>2, <2>1, <2>4, <2>5, <2>6 DEF Keeps
<1>3. CASE task[a].step = "error"
  <2>1. CASE entries[s0].status = "extracted"
    BY <1>3, <2>1 DEF Update, RecordExtractionError, Keeps
  <2>2. CASE entries[s0].status # "extracted"
    <3>1. new = [entries EXCEPT ![s0].status = "pending"]
      BY <1>3, <2>2 DEF Update, RecordExtractionError, SetStatus
    <3>2. s0 \in Sources
      BY <1>3, RecordingLoop DEF SourceSteps
    <3>3. /\ \A s \in Sources \ {s0} : new[s] = entries[s]
          /\ new[s0] = [entries[s0] EXCEPT !.status = "pending"]
          /\ new = [s \in Sources |-> new[s]]
      BY <3>1, <3>2 DEF List
    <3>4. new[s0] \in FullEntry /\ new[s0].files = entries[s0].files /\ new[s0].status # "extracted"
      BY <1>a, <3>2, <3>3 DEF FullEntry, Status
    <3>5. new \in List
      BY <1>a, <3>3, <3>4 DEF List
    <3> QED
      BY <1>3, <3>3, <3>4, <3>5 DEF Keeps
  <2> QED
    BY <2>1, <2>2
<1>4. CASE task[a].step = "reset"
  <2>1. new = [s \in Sources |-> IF entries[s].status \in {"extracting", "deduplicating"}
                                 THEN [entries[s] EXCEPT !.status = "pending"] ELSE entries[s]]
    BY <1>4 DEF Update, ResetExtractingSources
  <2>2. ASSUME NEW s \in Sources
        PROVE  /\ new[s] \in FullEntry /\ new[s].files = entries[s].files
               /\ new[s].status = "extracted" => new[s] = entries[s]
    BY <1>a, <2>1 DEF FullEntry, Status
  <2>3. new \in List
    BY <2>1, <2>2 DEF List
  <2> QED
    BY <1>4, <2>2, <2>3 DEF Keeps
<1>5. CASE task[a].step = "reassign"
  <2>1. a[1] \in Calls /\ a = <<a[1], Main>>
    BY <1>5, ActorKinds DEF TypeInv, Staged, Placed, LoopSteps, SourceSteps, StopSteps
  <2>2. s0 \in Sources
    BY <1>5 DEF TypeInv, Typed, FullTask
  <2> DEFINE assigned == call[a[1]].assigned[s0]
  <2>3. assigned \in Seq(Workers) \ {<<>>}
    BY <1>5, <2>1, <2>2 DEF TypeInv, Typed, Assigned, FullCall
  <2>4. new = [entries EXCEPT ![s0].assigned = assigned, ![s0].status = "pending"]
    BY <1>5 DEF Update
  <2>5. /\ \A s \in Sources \ {s0} : new[s] = entries[s]
        /\ new[s0] = [entries[s0] EXCEPT !.assigned = assigned, !.status = "pending"]
        /\ new = [s \in Sources |-> new[s]]
    <3> HIDE DEF assigned
    <3> QED
      BY <2>2, <2>4 DEF List
  <2>6. new[s0] \in FullEntry /\ new[s0].files = entries[s0].files /\ new[s0].status # "extracted"
    <3> HIDE DEF assigned
    <3> QED
      BY <1>a, <2>2, <2>3, <2>5 DEF FullEntry, Status
  <2>7. new \in List
    BY <1>a, <2>5, <2>6 DEF List
  <2> QED
    BY <1>5, <2>5, <2>6, <2>7 DEF Keeps
<1> QED
  BY <1>1, <1>2, <1>3, <1>4, <1>5 DEF Changes

-----------------------------------------------------------------------------
(* Types are kept by every step.                                           *)

\* One actor goes to another step.
LEMMA Moves ==
  ASSUME TypeInv, NEW a \in Actors, NEW step \in Steps, NEW s \in Sources \cup {Main},
         task' = [task EXCEPT ![a] = At(step, s)], Placed(a, At(step, s)),
         step \in {"work", "reassign"} => task[a].step \in {"work", "reassign"},
         \A c \in Calls : call'[c].assigned = call[c].assigned
  PROVE  task' \in [Actors -> FullTask] /\ Staged' /\ Assigned'
<1>1. At(step, s) \in FullTask
  BY AtIsTask
<1>2. task' \in [Actors -> FullTask]
  BY <1>1 DEF TypeInv, Typed
<1>3. Staged'
  BY DEF TypeInv, Typed, Staged
<1>4. Assigned'
  BY CallsAreActors DEF TypeInv, Typed, Assigned, At
<1> QED
  BY <1>2, <1>3, <1>4

\* One actor changes something about the step it is at.
LEMMA Stays ==
  ASSUME TypeInv, NEW a \in Actors, NEW t \in FullTask, t.step = task[a].step,
         task' = [task EXCEPT ![a] = t], Placed(a, t),
         \A c \in Calls : call'[c].assigned = call[c].assigned
  PROVE  task' \in [Actors -> FullTask] /\ Staged' /\ Assigned'
<1>2. task' \in [Actors -> FullTask]
  BY DEF TypeInv, Typed
<1>3. Staged'
  BY DEF TypeInv, Typed, Staged
<1>4. Assigned'
  BY CallsAreActors DEF TypeInv, Typed, Assigned
<1> QED
  BY <1>2, <1>3, <1>4

\* A loop that throws ends its call's work.
LEMMA RejectsTyped ==
  ASSUME TypeInv, NEW a \in Calls \X Slots, Rejects(a),
         \A c \in Calls : call'[c].assigned = call[c].assigned
  PROVE  task' \in [Actors -> FullTask] /\ Staged' /\ Assigned'
<1>1. /\ At("done", Main) \in FullTask /\ At("unlock", Main) \in FullTask
      /\ a \in Actors /\ a[1] \in Calls /\ a[2] \in Slots
  BY AtIsTask, CallsAreActors DEF Steps
<1>2. task' \in [Actors -> FullTask]
  BY <1>1 DEF TypeInv, Typed, Rejects
<1>3. ASSUME NEW b \in Actors PROVE Placed(b, task'[b])
  <2>1. CASE b = a
    BY <1>1, <2>1, ActorKinds DEF Rejects, Placed, At, LoopSteps, SourceSteps
  <2>2. CASE b # a /\ b = <<a[1], Main>> /\ task[b].step = "work"
    BY <1>1, <2>2, ActorKinds DEF Rejects, Placed, At, CallSteps
  <2>3. CASE b # a /\ ~ (b = <<a[1], Main>> /\ task[b].step = "work")
    BY <2>3 DEF Rejects, TypeInv, Staged
  <2> QED
    BY <2>1, <2>2, <2>3
<1>4. Staged'
  BY <1>3 DEF Staged
<1>5. Assigned'
  BY CallsAreActors DEF TypeInv, Typed, Assigned, At, Rejects
<1> QED
  BY <1>2, <1>4, <1>5

\* Changes of the list, and the end of a command.
LEMMA TypeStep ==
  ASSUME TypeInv, NEW a \in Actors, Step(a)
  PROVE  TypeInv'
<1>t. task[a] \in FullTask /\ Placed(a, task[a])
  BY DEF TypeInv, Typed, Staged
<1>s. task[a].step \in Steps /\ task[a].source \in Sources \cup {Main} /\ task[a].copy \in Copy
  BY <1>t DEF FullTask
<1>1. CASE ReadList(a)
  <2> DEFINE new == Update(a, task[a].source, file[1])
             t == [task[a] EXCEPT !.io = "write", !.copy = <<new>>]
  <2>1. file[1] \in List /\ task[a].step \in Changes
    BY <1>1 DEF ReadList, TypeInv, Typed, Filed, Copy
  <2>2. new \in List
    BY <1>1, <2>1, UpdateKeeps DEF ReadList, Keeps
  <2> HIDE DEF new
  <2>3. t \in FullTask /\ t.step = task[a].step /\ t.source = task[a].source /\ t.copy # <<>> /\ t.io = "write"
    BY <1>t, <2>2 DEF FullTask, Copy
  <2>4. Placed(a, t)
    BY <1>t, <2>1, <2>3 DEF Placed
  <2>5. task' = [task EXCEPT ![a] = t]
    BY <1>1 DEF ReadList, new
  <2> HIDE DEF t
  <2>6. task' \in [Actors -> FullTask] /\ Staged' /\ Assigned'
    BY <1>1, <2>3, <2>4, <2>5, Stays DEF ReadList
  <2>7. overlapped' \in BOOLEAN
    BY <1>1 DEF ReadList, TypeInv, Typed, Filed
  <2> QED
    BY <1>1, <2>6, <2>7 DEF ReadList, TypeInv, Typed, Filed
<1>2. CASE WriteBegins(a)
  <2> DEFINE t == [task[a] EXCEPT !.io = "land"]
  <2>1. t \in FullTask /\ t.step = task[a].step /\ t.source = task[a].source /\ t.copy = task[a].copy /\ t.io = "land"
    BY <1>t DEF FullTask
  <2>2. Placed(a, t)
    BY <1>2, <1>t, <2>1 DEF Placed, WriteBegins
  <2>3. task' = [task EXCEPT ![a] = t]
    BY <1>2 DEF WriteBegins
  <2> HIDE DEF t
  <2>4. task' \in [Actors -> FullTask] /\ Staged' /\ Assigned'
    BY <1>2, <2>1, <2>2, <2>3, Stays DEF WriteBegins
  <2> QED
    BY <1>2, <2>4 DEF WriteBegins, TypeInv, Typed, Filed, Copy
<1>3. CASE WriteLands(a)
  <2>1. task[a].step \in Changes
    BY <1>3, <1>t DEF Placed, WriteLands
  <2>2. PICK next \in Steps, s \in Sources \cup {Main} :
          /\ task' = [task EXCEPT ![a] = At(next, s)]
          /\ Placed(a, At(next, s))
          /\ next \in {"work", "reassign"} => task[a].step \in {"work", "reassign"}
    <3>1. CASE task[a].step = "extracting"
      <4>1. task' = [task EXCEPT ![a] = At("extract", task[a].source)]
        BY <1>3, <3>1 DEF WriteLands
      <4> QED
        BY <3>1, <4>1, <1>t, <1>s, RecordingLoop, ActorKinds DEF Placed, At, Steps, LoopSteps, SourceSteps
    <3>2. CASE task[a].step = "deduplicating"
      <4>1. task' = [task EXCEPT ![a] = At("save", task[a].source)]
        BY <1>3, <3>2 DEF WriteLands
      <4> QED
        BY <3>2, <4>1, <1>t, <1>s, RecordingLoop, ActorKinds DEF Placed, At, Steps, LoopSteps, SourceSteps
    <3>3. CASE task[a].step = "record"
      <4>1. task' = [task EXCEPT ![a] = At("poll", Main)]
        BY <1>3, <3>3 DEF WriteLands
      <4> QED
        BY <3>3, <4>1, <1>t, <1>s, RecordingLoop, ActorKinds DEF Placed, At, Steps, LoopSteps, SourceSteps
    <3>4. CASE task[a].step = "error"
      <4>1. task' = [task EXCEPT ![a] = At("give up", task[a].source)]
        BY <1>3, <3>4 DEF WriteLands
      <4> QED
        BY <3>4, <4>1, <1>t, <1>s, RecordingLoop, ActorKinds DEF Placed, At, Steps, LoopSteps, SourceSteps
    <3>5. CASE task[a].step = "reset"
      <4>1. a[2] = Main
        BY <3>5, <1>t, ActorKinds DEF Placed, LoopSteps, SourceSteps
      <4>2. CASE a[1] \in Stops
        <5>1. task' = [task EXCEPT ![a] = At("unlock", task[a].source)]
          BY <1>3, <3>5, <4>2 DEF WriteLands
        <5> QED
          BY <4>1, <4>2, <5>1, <1>t, <1>s, ActorKinds DEF Placed, At, Steps, StopSteps
      <4>3. CASE a[1] \notin Stops
        <5>1. task' = [task EXCEPT ![a] = At("list", task[a].source)]
          BY <1>3, <3>5, <4>3 DEF WriteLands
        <5> QED
          BY <4>1, <4>3, <5>1, <1>t, <1>s, ActorKinds DEF Placed, At, Steps, CallSteps
      <4> QED
        BY <4>2, <4>3
    <3>6. CASE task[a].step = "reassign"
      <4>1. task' = [task EXCEPT ![a] = At("reassign", Main)]
        BY <1>3, <3>6 DEF WriteLands
      <4> QED
        BY <3>6, <4>1, <1>t, <1>s, ActorKinds DEF Placed, At, Steps, LoopSteps, SourceSteps, CallSteps, StopSteps
    <3> QED
      BY <2>1, <3>1, <3>2, <3>3, <3>4, <3>5, <3>6 DEF Changes
  <2>3. task' \in [Actors -> FullTask] /\ Staged' /\ Assigned'
    BY <1>3, <2>2, Moves DEF WriteLands
  <2>4. file' \in Copy
    BY <1>3, <1>s DEF WriteLands, Copy
  <2>5. recorded' \subseteq Sources \X Workers
    <3>1. CASE task[a].step = "record"
      <4>1. recorded' = recorded \cup {<<task[a].source, WorkerOf[a[2]]>>}
        BY <1>3, <3>1 DEF WriteLands
      <4>2. task[a].source \in Sources /\ WorkerOf[a[2]] \in Workers
        BY <3>1, RecordingLoop DEF SourceSteps
      <4> QED
        BY <4>1, <4>2 DEF TypeInv, Typed, Filed
    <3>2. CASE task[a].step # "record"
      BY <1>3, <3>2 DEF WriteLands, TypeInv, Typed, Filed
    <3> QED
      BY <3>1, <3>2
  <2> QED
    BY <1>3, <2>3, <2>4, <2>5 DEF WriteLands, TypeInv, Typed, Filed
<1>4. CASE NothingToReset(a)
  <2> DEFINE next == IF a[1] \in Stops THEN "unlock" ELSE "list"
  <2>1. a[2] = Main
    BY <1>4, <1>t, ActorKinds DEF NothingToReset, Placed, LoopSteps, SourceSteps
  <2>2. next \in Steps /\ Placed(a, At(next, task[a].source))
    BY <2>1, ActorKinds DEF Steps, Placed, At, CallSteps, StopSteps
  <2>3. task' = [task EXCEPT ![a] = At(next, task[a].source)] /\ next \notin {"work", "reassign"}
    BY <1>4 DEF NothingToReset, Goes
  <2> HIDE DEF next
  <2>4. task' \in [Actors -> FullTask] /\ Staged' /\ Assigned'
    BY <1>4, <1>s, <2>2, <2>3, Moves DEF NothingToReset
  <2> QED
    BY <1>4, <2>4 DEF NothingToReset, TypeInv, Typed, Filed
<1>5. CASE ReleaseProcessLock(a)
  <2>1. "done" \in Steps /\ Placed(a, At("done", task[a].source))
    BY ActorKinds DEF Steps, Placed, At, LoopSteps, SourceSteps, CallSteps, StopSteps
  <2>2. task' \in [Actors -> FullTask] /\ Staged' /\ Assigned'
    BY <1>5, <1>s, <2>1, Moves DEF ReleaseProcessLock, Goes
  <2> QED
    BY <1>5, <2>2 DEF ReleaseProcessLock, TypeInv, Typed, Filed
<1> QED
  BY <1>1, <1>2, <1>3, <1>4, <1>5 DEF Step

\* The loops of a call.
LEMMA TypeLoopStep ==
  ASSUME TypeInv, NEW a \in Calls \X Slots, LoopStep(a)
  PROVE  TypeInv'
<1>a. /\ a \in Actors /\ a[1] \in Calls /\ a[2] \in Slots /\ a[2] # Main /\ a[1] \notin Stops
      /\ WorkerOf[a[2]] \in Workers
  BY CallsAreActors, IndexerAssumption
<1>t. task[a] \in FullTask /\ Placed(a, task[a])
  BY <1>a DEF TypeInv, Typed, Filed, Staged
<1>s. task[a].source \in Sources \cup {Main}
  BY <1>t DEF FullTask
<1>c. /\ call[a[1]] \in FullCall /\ Queue(a) \in Seq(Sources)
      /\ call[a[1]].failed \in Seq(Sources)
  BY <1>a DEF TypeInv, Typed, Filed, FullCall, Queue
\* Where a loop may go.
<1>p. ASSUME NEW next \in LoopSteps, NEW s \in Sources \cup {Main},
             next \in SourceSteps => s \in Sources
      PROVE  next \in Steps /\ Placed(a, At(next, s)) /\ next \notin {"work", "reassign"}
  <2>1. next \in Steps /\ next \notin {"work", "reassign"}
    BY DEF LoopSteps, SourceSteps, Steps
  <2> QED
    BY <1>a, <1>p, <2>1 DEF Placed, At
<1>g. ASSUME NEW next \in LoopSteps, NEW s \in Sources \cup {Main},
             next \in SourceSteps => s \in Sources,
             task' = [task EXCEPT ![a] = At(next, s)],
             \A c \in Calls : call'[c].assigned = call[c].assigned
      PROVE  task' \in [Actors -> FullTask] /\ Staged' /\ Assigned'
  BY <1>a, <1>g, <1>p, Moves
\* Its queue, emptied or shortened.
<1>q. ASSUME NEW queue \in Seq(Sources), call' = [call EXCEPT ![a[1]].queue[WorkerOf[a[2]]] = queue]
      PROVE  call' \in [Calls -> FullCall] /\ \A c \in Calls : call'[c].assigned = call[c].assigned
  <2> DEFINE queues == [call[a[1]].queue EXCEPT ![WorkerOf[a[2]]] = queue]
  <2>1. queues \in [Workers -> Seq(Sources)]
    BY <1>a, <1>c DEF FullCall
  <2>2. call' = [call EXCEPT ![a[1]].queue = queues]
    BY <1>q
  <2> HIDE DEF queues
  <2> QED
    BY <1>a, <2>1, <2>2 DEF TypeInv, Typed, Filed, FullCall
<1>e. ASSUME EmptyQueue(a)
      PROVE  call' \in [Calls -> FullCall] /\ \A c \in Calls : call'[c].assigned = call[c].assigned
  <2>1. <<>> \in Seq(Sources)
    OBVIOUS
  <2>2. call' = [call EXCEPT ![a[1]].queue[WorkerOf[a[2]]] = <<>>]
    BY <1>e DEF EmptyQueue
  <2> QED
    BY <1>q, <2>1, <2>2
<1>1. CASE Poll(a)
  <2>1. call' \in [Calls -> FullCall] /\ \A c \in Calls : call'[c].assigned = call[c].assigned
    BY <1>1, <1>e DEF Poll, TypeInv, Typed, Filed
  <2>2. \E next \in {"done", "shift"} : task' = [task EXCEPT ![a] = At(next, task[a].source)]
    BY <1>1 DEF Poll, Goes
  <2>3. task' \in [Actors -> FullTask] /\ Staged' /\ Assigned'
    BY <1>s, <1>g, <2>1, <2>2 DEF LoopSteps, SourceSteps
  <2> QED
    BY <1>1, <2>1, <2>3 DEF Poll, TypeInv, Typed, Filed
<1>2. CASE Shift(a)
  <2>1. CASE stop /\ EmptyQueue(a) /\ Goes(a, "done")
    <3>1. task' \in [Actors -> FullTask] /\ Staged' /\ Assigned'
      BY <1>s, <1>g, <1>e, <2>1 DEF LoopSteps, SourceSteps, Goes
    <3> QED
      BY <1>2, <1>e, <2>1, <3>1 DEF Shift, TypeInv, Typed, Filed
  <2>2. CASE ~ stop /\ Queue(a) = <<>> /\ UNCHANGED call /\ Rejects(a)
    BY <1>2, <2>2, RejectsTyped DEF Shift, TypeInv, Typed, Filed
  <2>3. CASE /\ ~ stop /\ Queue(a) # <<>>
             /\ call' = [call EXCEPT ![a[1]].queue[WorkerOf[a[2]]] = Tail(@)]
             /\ task' = [task EXCEPT ![a] = At("extracting", Head(Queue(a)))]
    <3>1. Head(Queue(a)) \in Sources /\ Tail(Queue(a)) \in Seq(Sources)
      BY <1>c, <2>3
    <3>2. call' = [call EXCEPT ![a[1]].queue[WorkerOf[a[2]]] = Tail(Queue(a))]
      BY <2>3 DEF Queue
    <3>3. call' \in [Calls -> FullCall] /\ \A c \in Calls : call'[c].assigned = call[c].assigned
      BY <1>q, <3>1, <3>2
    <3>4. task' \in [Actors -> FullTask] /\ Staged' /\ Assigned'
      BY <1>g, <2>3, <3>1, <3>3 DEF LoopSteps, SourceSteps
    <3> QED
      BY <1>2, <3>3, <3>4 DEF Shift, TypeInv, Typed, Filed
  <2> QED
    BY <1>2, <2>1, <2>2, <2>3 DEF Shift
<1>3. CASE Extract(a)
  <2>1. \E next \in {"deduplicating", "error"} : task' = [task EXCEPT ![a] = At(next, task[a].source)]
    BY <1>3 DEF Extract, Goes
  <2>2. task[a].source \in Sources
    BY <1>3, <1>a, RecordingLoop DEF Extract, SourceSteps
  <2>3. task' \in [Actors -> FullTask] /\ Staged' /\ Assigned'
    BY <1>3, <1>g, <2>1, <2>2 DEF Extract, LoopSteps, SourceSteps
  <2> QED
    BY <1>3, <2>3 DEF Extract, TypeInv, Typed, Filed
<1>4. CASE SaveExtractionOutput(a)
  <2>1. task[a].source \in Sources
    BY <1>4, <1>a, RecordingLoop DEF SaveExtractionOutput, OutputBegins, OutputLands, SourceSteps
  <2>2. \E next \in {"saving", "record"} : task' = [task EXCEPT ![a] = At(next, task[a].source)]
    BY <1>4 DEF SaveExtractionOutput, OutputBegins, OutputLands, Goes
  <2>3. call' = call
    BY <1>4 DEF SaveExtractionOutput, OutputBegins, OutputLands
  <2>4. task' \in [Actors -> FullTask] /\ Staged' /\ Assigned'
    BY <1>g, <2>1, <2>2, <2>3 DEF LoopSteps, SourceSteps
  <2>5. SavesTo(a) \in OutputFiles /\ <<task[a].source>> \in Contents(SavesTo(a))
    BY <1>a, <2>1, IndexerAssumption DEF SavesTo, OutputFile, OutputFiles, Contents
  <2>6. Filed' /\ broken' \subseteq OutputFiles
    <3>1. PICK x \in Contents(SavesTo(a)) : outputs' = [outputs EXCEPT ![SavesTo(a)] = x]
      BY <1>4, <2>5 DEF SaveExtractionOutput, OutputBegins, OutputLands, Contents
    <3>2. Filed'
      BY <2>5, <3>1 DEF TypeInv, Typed, Filed
    <3>3. broken' \subseteq broken \cup {SavesTo(a)}
      BY <1>4 DEF SaveExtractionOutput, OutputBegins, OutputLands
    <3> QED
      BY <2>5, <3>2, <3>3 DEF TypeInv, Typed, Filed
  <2>7. UNCHANGED <<file, stop, lock, pid, faults, recorded, overlapped>>
    BY <1>4 DEF SaveExtractionOutput, OutputBegins, OutputLands
  <2> QED
    BY <2>3, <2>4, <2>6, <2>7 DEF TypeInv, Typed, Filed
<1>5. CASE ListMissing(a)
  <2>1. CASE task[a].step = "error"
    BY <1>5, <2>1, RejectsTyped DEF ListMissing, TypeInv, Typed, Filed
  <2>2. CASE task[a].step # "error"
    <3>1. task[a].step \in SourceSteps
      BY <1>5, <1>a, <1>t DEF ListMissing, Placed, Changes, LoopSteps, SourceSteps
    <3>2. task' = [task EXCEPT ![a] = At("error", task[a].source)] /\ task[a].source \in Sources
      BY <1>5, <1>a, <2>2, <3>1, RecordingLoop DEF ListMissing, Goes
    <3>3. task' \in [Actors -> FullTask] /\ Staged' /\ Assigned'
      BY <1>5, <1>g, <3>2 DEF ListMissing, LoopSteps, SourceSteps
    <3> QED
      BY <1>5, <3>3 DEF ListMissing, TypeInv, Typed, Filed
  <2> QED
    BY <2>1, <2>2
<1>6. CASE GiveUp(a)
  <2>1. task[a].source \in Sources
    BY <1>6, <1>a, RecordingLoop DEF GiveUp, SourceSteps
  <2>2. call' \in [Calls -> FullCall] /\ \A c \in Calls : call'[c].assigned = call[c].assigned
    <3>1. CASE UNCHANGED call
      BY <3>1 DEF TypeInv, Typed, Filed
    <3>2. CASE call' = [call EXCEPT ![a[1]].failed = Append(@, task[a].source)]
      <4>1. Append(call[a[1]].failed, task[a].source) \in Seq(Sources)
        BY <1>c, <2>1
      <4> QED
        BY <1>a, <3>2, <4>1 DEF TypeInv, Typed, Filed, FullCall
    <3> QED
      BY <1>6, <3>1, <3>2 DEF GiveUp
  <2>3. task' \in [Actors -> FullTask] /\ Staged' /\ Assigned'
    BY <1>6, <1>g, <2>2 DEF GiveUp, LoopSteps, SourceSteps
  <2> QED
    BY <1>6, <2>2, <2>3 DEF GiveUp, TypeInv, Typed, Filed
<1> QED
  BY <1>1, <1>2, <1>3, <1>4, <1>5, <1>6 DEF LoopStep

\* A finite set of documents, put in a row.
LEMMA RowOfSources ==
  ASSUME NEW S \in SUBSET Sources
  PROVE  SetToSeq(S) \in Seq(Sources)
<1>1. Cardinality(S) \in Nat /\ ExistsBijection(1..Cardinality(S), S)
  BY FS_Subset, FS_CardinalityType, IndexerAssumption
<1>2. \E f \in [1..Cardinality(S) -> S] : IsInjective(f)
  BY <1>1 DEF ExistsBijection, Bijection, Injection
<1>3. SetToSeq(S) \in [1..Cardinality(S) -> S]
  BY <1>2 DEF SetToSeq
<1>4. SetToSeq(S) \in [1..Cardinality(S) -> Sources]
  BY <1>3
<1> HIDE DEF SetToSeq
<1> QED
  BY <1>1, <1>4

LEMMA QueuesTyped ==
  ASSUME NEW assigned, NEW S \in SUBSET Sources
  PROVE  Queues(assigned, S) \in [Workers -> Seq(Sources)]
BY RowOfSources DEF Queues

\* A call starts its loops, when it knows to whom the documents are assigned.
LEMMA StartsTyped ==
  ASSUME TypeInv, NEW c \in Calls, NEW queue, StartLoops(c, queue),
         \A d \in Calls : d # c => call'[d].assigned = call[d].assigned,
         \A s \in Sources : call'[c].assigned[s] # <<>>
  PROVE  task' \in [Actors -> FullTask] /\ Staged' /\ Assigned'
<1>1. At("work", Main) \in FullTask /\ At("poll", Main) \in FullTask
  BY AtIsTask DEF Steps
<1>2. task' \in [Actors -> FullTask]
  BY <1>1 DEF TypeInv, Typed, Filed, StartLoops
<1>3. ASSUME NEW b \in Actors PROVE Placed(b, task'[b])
  <2>1. CASE b = <<c, Main>>
    BY <2>1, ActorKinds DEF StartLoops, Placed, At, CallSteps
  <2>2. CASE b # <<c, Main>> /\ b[1] = c /\ b[2] \in Started(queue)
    <3>1. b[2] \in Slots /\ b[1] \notin Stops /\ b[2] # Main
      BY <2>2, ActorKinds
    <3>2. task'[b] = At("poll", Main)
      BY <2>2 DEF StartLoops
    <3> QED
      BY <3>1, <3>2 DEF Placed, At, LoopSteps, SourceSteps
  <2>3. CASE b # <<c, Main>> /\ ~ (b[1] = c /\ b[2] \in Started(queue))
    BY <2>3 DEF StartLoops, TypeInv, Staged
  <2> QED
    BY <2>1, <2>2, <2>3
<1>4. Staged'
  BY <1>3 DEF Staged
<1>5. ASSUME NEW d \in Calls, task'[<<d, Main>>].step \in {"work", "reassign"}, NEW s \in Sources
      PROVE  call'[d].assigned[s] # <<>>
  <2>1. CASE d = c
    BY <2>1
  <2>2. CASE d # c
    <3>1. task'[<<d, Main>>] = task[<<d, Main>>]
      BY <2>2, CallsAreActors DEF StartLoops
    <3> QED
      BY <1>5, <2>2, <3>1 DEF TypeInv, Assigned
  <2> QED
    BY <2>1, <2>2
<1>6. Assigned'
  BY <1>5 DEF Assigned
<1> QED
  BY <1>2, <1>4, <1>6

\* An extract call.
LEMMA TypeCallStep ==
  ASSUME TypeInv, NEW c \in Calls, CallStep(c)
  PROVE  TypeInv'
<1> DEFINE a == <<c, Main>>
<1>a. /\ a \in Actors /\ a[1] = c /\ a[2] = Main /\ a[2] \notin Slots /\ a[1] \notin Stops
  BY CallsAreActors, IndexerAssumption
<1>t. task[a] \in FullTask /\ Placed(a, task[a])
  BY <1>a DEF TypeInv, Typed, Filed, Staged
<1>s. task[a].source \in Sources \cup {Main}
  BY <1>t DEF FullTask
<1>c. /\ call[c] \in FullCall
      /\ call[c].queue \in [Workers -> Seq(Sources)] /\ call[c].failed \in Seq(Sources)
      /\ call[c].assigned \in [Sources -> Seq(Workers)]
  BY DEF TypeInv, Typed, Filed, FullCall
<1> HIDE DEF a
\* Where a call may go.
<1>g. ASSUME NEW next \in CallSteps, NEW s \in Sources \cup {Main},
             task' = [task EXCEPT ![a] = At(next, s)],
             next \in {"work", "reassign"} => task[a].step \in {"work", "reassign"},
             \A d \in Calls : call'[d].assigned = call[d].assigned
      PROVE  task' \in [Actors -> FullTask] /\ Staged' /\ Assigned'
  <2>1. next \in Steps
    BY DEF CallSteps, Steps
  <2>2. Placed(a, At(next, s))
    BY <1>a DEF Placed, At
  <2> QED
    BY <1>a, <1>g, <2>1, <2>2, Moves
<1>h. ASSUME NEW next \in CallSteps \ {"work", "reassign"}, Goes(a, next), UNCHANGED call
      PROVE  task' \in [Actors -> FullTask] /\ Staged' /\ Assigned'
  BY <1>s, <1>g, <1>h DEF Goes
<1>1. CASE Offer(c)
  <2>1. \E next \in {"done", "acquire"} : Goes(a, next)
    BY <1>1 DEF Offer, a
  <2>2. task' \in [Actors -> FullTask] /\ Staged' /\ Assigned'
    BY <1>1, <1>h, <2>1 DEF Offer, CallSteps
  <2> QED
    BY <1>1, <2>2 DEF Offer, TypeInv, Typed, Filed
<1>2. CASE AcquireProcessLock(c)
  <2>1. \E next \in {"clear", "claim"} : Goes(a, next)
    BY <1>2 DEF AcquireProcessLock, a
  <2>2. task' \in [Actors -> FullTask] /\ Staged' /\ Assigned'
    BY <1>2, <1>h, <2>1 DEF AcquireProcessLock, CallSteps
  <2> QED
    BY <1>2, <2>2 DEF AcquireProcessLock, TypeInv, Typed, Filed
<1>3. CASE ClaimProcessLock(c)
  <2>1. task' \in [Actors -> FullTask] /\ Staged' /\ Assigned'
    BY <1>3, <1>h DEF ClaimProcessLock, CallSteps, a
  <2> QED
    BY <1>3, <2>1 DEF ClaimProcessLock, TypeInv, Typed, Filed
<1>4. CASE ClearStopRequest(c)
  <2>1. task' \in [Actors -> FullTask] /\ Staged' /\ Assigned'
    BY <1>4, <1>h DEF ClearStopRequest, CallSteps, a
  <2> QED
    BY <1>4, <2>1 DEF ClearStopRequest, TypeInv, Typed, Filed
<1>5. CASE ExtractWithWorkerPool(c)
  <2>1. CASE Pending = {}
    <3>1. task' \in [Actors -> FullTask] /\ Staged' /\ Assigned'
      BY <1>5, <1>h, <2>1 DEF ExtractWithWorkerPool, CallSteps, a
    <3> QED
      BY <1>5, <2>1, <3>1 DEF ExtractWithWorkerPool, TypeInv, Typed, Filed
  <2>2. CASE Pending # {}
    <3> DEFINE assigned == [s \in Sources |-> file[1][s].assigned]
               queue == Queues(assigned, Pending)
    <3>1. call' = [call EXCEPT ![c].queue = queue, ![c].assigned = assigned] /\ StartLoops(c, queue)
      BY <1>5, <2>2 DEF ExtractWithWorkerPool
    <3>2. file[1] \in List
      BY <2>2 DEF Pending, TypeInv, Typed, Filed, Copy
    <3>3. assigned \in [Sources -> Seq(Workers)] /\ \A s \in Sources : assigned[s] # <<>>
      BY <3>2 DEF List, FullEntry
    <3>4. queue \in [Workers -> Seq(Sources)]
      BY QueuesTyped DEF Pending
    <3> HIDE DEF assigned, queue
    <3>5. /\ call' \in [Calls -> FullCall]
          /\ call'[c].assigned = assigned
          /\ \A d \in Calls : d # c => call'[d] = call[d]
      BY <3>1, <3>3, <3>4 DEF TypeInv, Typed, Filed, FullCall
    <3>6. task' \in [Actors -> FullTask] /\ Staged' /\ Assigned'
      BY <3>1, <3>3, <3>5, StartsTyped
    <3> QED
      BY <1>5, <3>5, <3>6 DEF ExtractWithWorkerPool, TypeInv, Typed, Filed
  <2> QED
    BY <2>1, <2>2
<1>6. CASE WorkEnds(c)
  <2>1. CASE call[c].aborted \/ call[c].retry
    <3>1. task' \in [Actors -> FullTask] /\ Staged' /\ Assigned'
      BY <1>6, <1>h, <2>1 DEF WorkEnds, CallSteps, a
    <3> QED
      BY <1>6, <2>1, <3>1 DEF WorkEnds, TypeInv, Typed, Filed
  <2>2. CASE ~ (call[c].aborted \/ call[c].retry)
    <3>1. Goes(a, "reassign") /\ call' = [call EXCEPT ![c].retry = TRUE]
      BY <1>6, <2>2 DEF WorkEnds, a
    <3>2. call' \in [Calls -> FullCall] /\ \A d \in Calls : call'[d].assigned = call[d].assigned
      BY <3>1, <1>c DEF TypeInv, Typed, Filed, FullCall
    <3>3. task' \in [Actors -> FullTask] /\ Staged' /\ Assigned'
      BY <1>6, <1>g, <1>s, <3>1, <3>2 DEF WorkEnds, CallSteps, Goes, a
    <3> QED
      BY <1>6, <3>2, <3>3 DEF WorkEnds, TypeInv, Typed, Filed
  <2> QED
    BY <2>1, <2>2
<1>7. CASE Reassign(c)
  <2> DEFINE s0 == Head(call[c].failed)
             rest == [call[c] EXCEPT !.failed = Tail(@)]
  <2>1. s0 \in Sources /\ Tail(call[c].failed) \in Seq(Sources)
    <3>1. call[c].failed # <<>>
      BY <1>7 DEF Reassign
    <3> QED
      BY <1>c, <3>1
  <2>2. rest \in FullCall /\ rest.assigned = call[c].assigned /\ rest.queue = call[c].queue
    BY <1>c, <2>1 DEF FullCall
  <2>3. CASE call' = [call EXCEPT ![c] = rest] /\ UNCHANGED task
    <3> HIDE DEF rest
    <3>1. call' \in [Calls -> FullCall] /\ \A d \in Calls : call'[d].assigned = call[d].assigned
      BY <2>2, <2>3 DEF TypeInv, Typed, Filed
    <3>2. Staged' /\ Assigned'
      BY <2>3, <3>1 DEF TypeInv, Staged, Assigned
    <3> QED
      BY <1>7, <2>3, <3>1, <3>2 DEF Reassign, TypeInv, Typed, Filed
  <2>4. ASSUME NEW w \in Candidates(call[c].assigned[s0]),
               call' = [call EXCEPT ![c] = [rest EXCEPT
                         !.assigned[s0] = Append(@, w), !.queue[w] = Append(@, s0)]],
               task' = [task EXCEPT ![a].source = s0]
        PROVE  TypeInv'
    <3>1. task[a].step = "reassign" /\ call[c].assigned[s0] # <<>>
      BY <1>7, <2>1 DEF Reassign, TypeInv, Assigned, a
    <3>2. call[c].assigned[s0] \in Seq(Workers) /\ Last(call[c].assigned[s0]) \in Workers
      BY <1>c, <2>1, <3>1 DEF Last
    <3>3. w \in Workers
      BY <2>4, <3>2, IndexerAssumption DEF Candidates
    <3> DEFINE assigned == [call[c].assigned EXCEPT ![s0] = Append(@, w)]
               queue == [call[c].queue EXCEPT ![w] = Append(@, s0)]
    <3>4. /\ assigned \in [Sources -> Seq(Workers)]
          /\ \A s \in Sources : call[c].assigned[s] # <<>> => assigned[s] # <<>>
      <4>1. Append(call[c].assigned[s0], w) \in Seq(Workers) \ {<<>>}
        BY <3>2, <3>3
      <4> QED
        BY <1>c, <2>1, <4>1
    <3>5. queue \in [Workers -> Seq(Sources)]
      BY <1>c, <2>1, <3>3
    <3>6. call' = [call EXCEPT ![c] = [rest EXCEPT !.assigned = assigned, !.queue = queue]]
      BY <2>2, <2>4
    <3> HIDE DEF assigned, queue, rest, s0
    <3>7. /\ call' \in [Calls -> FullCall]
          /\ call'[c].assigned = assigned
          /\ \A d \in Calls : d # c => call'[d] = call[d]
      BY <2>2, <3>4, <3>5, <3>6 DEF TypeInv, Typed, Filed, FullCall
    <3> DEFINE t == [task[a] EXCEPT !.source = s0]
    <3>8. t \in FullTask /\ Placed(a, t) /\ t.step = task[a].step
      BY <1>a, <1>t, <2>1 DEF FullTask, Placed
    <3>9. task' = [task EXCEPT ![a] = t]
      BY <2>4
    <3> HIDE DEF t
    <3>10. task' \in [Actors -> FullTask] /\ Staged'
      BY <1>a, <3>8, <3>9 DEF TypeInv, Typed, Filed, Staged
    <3>11. ASSUME NEW d \in Calls PROVE task'[<<d, Main>>].step = task[<<d, Main>>].step
      BY <1>a, <3>8, <3>9, CallsAreActors DEF TypeInv, Typed, Filed
    <3>12. Assigned'
      BY <3>4, <3>7, <3>11 DEF TypeInv, Assigned
    <3> QED
      BY <1>7, <3>7, <3>10, <3>12 DEF Reassign, TypeInv, Typed, Filed
  <2> QED
    BY <1>7, <2>3, <2>4 DEF Reassign, a
<1>8. CASE Retry(c)
  <2>1. CASE Goes(a, "unlock")
    <3>1. task' \in [Actors -> FullTask] /\ Staged' /\ Assigned'
      BY <1>8, <1>h, <2>1 DEF Retry, CallSteps
    <3> QED
      BY <1>8, <3>1 DEF Retry, TypeInv, Typed, Filed
  <2>2. CASE StartLoops(c, call[c].queue)
    <3>1. \A s \in Sources : call[c].assigned[s] # <<>>
      BY <1>8 DEF Retry, TypeInv, Assigned
    <3>2. task' \in [Actors -> FullTask] /\ Staged' /\ Assigned'
      BY <1>8, <2>2, <3>1, StartsTyped DEF Retry
    <3> QED
      BY <1>8, <3>2 DEF Retry, TypeInv, Typed, Filed
  <2> QED
    BY <1>8, <2>1, <2>2 DEF Retry, a
<1>9. CASE ReassignFails(c)
  <2>1. task' \in [Actors -> FullTask] /\ Staged' /\ Assigned'
    BY <1>9, <1>g DEF ReassignFails, CallSteps, a
  <2> QED
    BY <1>9, <2>1 DEF ReassignFails, TypeInv, Typed, Filed
<1> QED
  BY <1>1, <1>2, <1>3, <1>4, <1>5, <1>6, <1>7, <1>8, <1>9 DEF CallStep

\* What begins from outside, and crashes.
LEMMA TypeEnvironment ==
  ASSUME TypeInv,
         \/ \E c \in Calls : Execute(c) \/ Abort(c)
         \/ \E h \in Stops : RequestStop(h)
         \/ Crash
  PROVE  TypeInv'
<1>s. \A b \in Actors : task[b].source \in Sources \cup {Main}
  BY DEF TypeInv, Typed, Filed, FullTask
<1>1. ASSUME NEW c \in Calls, Execute(c) PROVE TypeInv'
  <2>1. "offer" \in Steps /\ Placed(<<c, Main>>, At("offer", task[<<c, Main>>].source))
    BY IndexerAssumption DEF Steps, Placed, At, CallSteps
  <2>2. task' \in [Actors -> FullTask] /\ Staged' /\ Assigned'
    BY <1>1, <1>s, <2>1, Moves, CallsAreActors DEF Execute, Goes
  <2> QED
    BY <1>1, <2>2 DEF Execute, TypeInv, Typed, Filed
<1>2. ASSUME NEW c \in Calls, Abort(c) PROVE TypeInv'
  <2>1. call' \in [Calls -> FullCall] /\ \A d \in Calls : call'[d].assigned = call[d].assigned
    BY <1>2 DEF Abort, TypeInv, Typed, Filed, FullCall
  <2> QED
    BY <1>2, <2>1 DEF Abort, TypeInv, Typed, Filed, Staged, Assigned
<1>3. ASSUME NEW h \in Stops, RequestStop(h) PROVE TypeInv'
  <2>1. "reset" \in Steps /\ Placed(<<h, Main>>, At("reset", task[<<h, Main>>].source))
    BY IndexerAssumption DEF Steps, Placed, At, StopSteps
  <2>2. task' \in [Actors -> FullTask] /\ Staged' /\ Assigned'
    BY <1>3, <1>s, <2>1, Moves, CallsAreActors DEF RequestStop, Goes
  <2> QED
    BY <1>3, <2>2 DEF RequestStop, TypeInv, Typed, Filed
<1>4. CASE Crash
  <2>1. At("done", Main) \in FullTask
    BY AtIsTask DEF Steps
  <2>2. task' \in [Actors -> FullTask]
    BY <1>4, <2>1 DEF Crash, TypeInv, Typed, Filed
  <2>3. ASSUME NEW b \in Actors PROVE Placed(b, task'[b])
    <3>1. CASE Running(b)
      <4>1. task'[b] = At("done", Main)
        BY <1>4, <3>1 DEF Crash
      <4> QED
        BY <4>1 DEF Placed, At, LoopSteps, SourceSteps, CallSteps, StopSteps
    <3>2. CASE ~ Running(b)
      BY <1>4, <3>2 DEF Crash, TypeInv, Staged
    <3> QED
      BY <3>1, <3>2
  <2>4. Staged'
    BY <2>3 DEF Staged
  <2>5. \A c \in Calls : task'[<<c, Main>>].step \notin {"work", "reassign"}
    BY <1>4, CallsAreActors DEF Crash, Running, At
  <2>6. Assigned'
    BY <2>5 DEF Assigned
  <2>7. NoCall \in FullCall
    BY DEF NoCall, FullCall
  <2>8. call' \in [Calls -> FullCall]
    BY <1>4, <2>7 DEF Crash
  <2>9. /\ faults' \in Nat /\ pid' \in Nat
        /\ lock' = {} \/ \E p \in 0..pid' : lock' = {p}
    BY <1>4 DEF Crash, TypeInv, Typed, Filed
  <2> QED
    BY <1>4, <2>2, <2>4, <2>6, <2>8, <2>9 DEF Crash, TypeInv, Typed, Filed
<1> QED
  BY <1>1, <1>2, <1>3, <1>4

\* The scenario that a behaviour begins with.
Done(sc) == UNION {{s} \X ToSet(sc.assigned[s]) : s \in Sources \ sc.pending}

First(sc) == [s \in Sources |->
                [status |-> IF s \in sc.pending THEN "pending" ELSE "extracted",
                 files |-> IF s \in sc.pending THEN {} ELSE ToSet(sc.assigned[s]),
                 assigned |-> sc.assigned[s]]]

FirstStep(sc, a) == IF a[2] = Main /\ a[1] \notin sc.by THEN "done"
                    ELSE IF a[2] = Main /\ a[1] \in sc.later THEN "later" ELSE "idle"

Begins(sc) ==
  /\ file = <<First(sc)>>
  /\ Filed /\ broken = {}
  /\ \A d \in Done(sc) : outputs[OutputFile(d[1], d[2])] # <<>>
  /\ recorded = Done(sc)
  /\ faults = sc.faults
  /\ task = [a \in Actors |-> At(FirstStep(sc, a), Main)]

LEMMA BeginsSomehow == Init => \E sc \in Scenarios : Begins(sc)
<1> SUFFICES ASSUME Init PROVE \E sc \in Scenarios : Begins(sc)
  OBVIOUS
<1> DEFINE Saved(sc, f) == {d[1] : d \in {e \in Done(sc) : OutputFile(e[1], e[2]) = f}}
<1>1. PICK sc \in Scenarios :
        /\ file = <<First(sc)>>
        /\ outputs \in [OutputFiles -> {<<>>} \cup {<<s>> : s \in Sources}]
        /\ \A f \in OutputFiles : \/ Saved(sc, f) = {} /\ outputs[f] = <<>>
                                  \/ \E s \in Saved(sc, f) : outputs[f] = <<s>>
        /\ broken = {} /\ recorded = Done(sc)
        /\ faults = sc.faults
        /\ task = [a \in Actors |-> At(FirstStep(sc, a), Main)]
  BY DEF Init, First, Done, FirstStep
<1>2. sc.assigned \in [Sources -> Seq(Workers)]
  BY IndexerAssumption
<1>3. Done(sc) \subseteq Sources \X Workers
  BY <1>2 DEF Done, ToSet
<1>4. ASSUME NEW f \in OutputFiles PROVE outputs[f] \in Contents(f)
  <2>1. \A s \in Saved(sc, f) : s \in Sources /\ NameOf[s] = f[1]
    BY <1>3 DEF OutputFile
  <2> QED
    BY <1>1, <2>1 DEF Contents
<1>5. ASSUME NEW d \in Done(sc) PROVE outputs[OutputFile(d[1], d[2])] # <<>>
  <2>1. OutputFile(d[1], d[2]) \in OutputFiles
    BY <1>3 DEF OutputFile, OutputFiles
  <2>2. d[1] \in Saved(sc, OutputFile(d[1], d[2]))
    OBVIOUS
  <2>3. \A s : <<s>> # <<>>
    OBVIOUS
  <2> HIDE DEF Saved
  <2> QED
    BY <1>1, <2>1, <2>2, <2>3
<1> QED
  BY <1>1, <1>4, <1>5 DEF Begins, Filed

LEMMA TypeInit == Init => TypeInv
<1> SUFFICES ASSUME Init PROVE TypeInv
  OBVIOUS
<1>1. PICK sc \in Scenarios : Begins(sc)
  BY BeginsSomehow
<1>2. stop = FALSE /\ lock = {} /\ pid = 0 /\ call = [c \in Calls |-> NoCall] /\ overlapped = FALSE
  BY DEF Init
<1>3. sc.assigned \in [Sources -> Seq(Workers) \ {<<>>}] /\ sc.faults \in Nat
  BY IndexerAssumption
<1>4. \A s \in Sources : ToSet(sc.assigned[s]) \subseteq Workers
  BY <1>3 DEF ToSet
<1>5. First(sc) \in List
  BY <1>3, <1>4 DEF List, FullEntry, Status, First
<1>6. Done(sc) \subseteq Sources \X Workers
  BY <1>4 DEF Done
<1>7. \A a \in Actors : /\ FirstStep(sc, a) \in Steps
                        /\ FirstStep(sc, a) \in {"done", "later", "idle"}
                        /\ a[2] # Main => FirstStep(sc, a) = "idle"
  BY DEF Steps, FirstStep
<1>8. Typed
  <2>1. NoCall \in FullCall
    BY DEF NoCall, FullCall
  <2>2. task \in [Actors -> FullTask]
    BY <1>1, <1>7, AtIsTask DEF Begins
  <2>3. call \in [Calls -> FullCall]
    BY <1>2, <2>1
  <2> QED
    BY <1>1, <1>2, <1>3, <1>5, <1>6, <2>2, <2>3 DEF Typed, Copy, Begins
<1>9. Staged
  <2> SUFFICES ASSUME NEW a \in Actors PROVE Placed(a, task[a])
    BY DEF Staged
  <2>1. task[a] = At(FirstStep(sc, a), Main)
    BY <1>1 DEF Begins
  <2> QED
    <3>1. task[a].step = FirstStep(sc, a) /\ task[a].io = "read" /\ task[a].copy = <<>>
      BY <2>1 DEF At
    <3>2. FirstStep(sc, a) \in CallSteps /\ FirstStep(sc, a) \in StopSteps
      BY <1>7 DEF CallSteps, StopSteps
    <3>3. a[2] \in Slots => FirstStep(sc, a) \in LoopSteps /\ FirstStep(sc, a) \notin SourceSteps
      BY <1>7, ActorKinds DEF LoopSteps, SourceSteps
    <3> QED
      BY <3>1, <3>2, <3>3 DEF Placed
<1>10. Assigned
  BY <1>1, <1>7, CallsAreActors DEF Assigned, At, Begins
<1> QED
  BY <1>8, <1>9, <1>10 DEF TypeInv

LEMMA TypeNext ==
  ASSUME TypeInv, [Next]_vars
  PROVE  TypeInv'
<1>1. CASE Next
  BY <1>1, TypeStep, TypeLoopStep, TypeCallStep, TypeEnvironment DEF Next, Progress
<1>2. CASE UNCHANGED vars
  BY <1>2 DEF vars, TypeInv, Typed, Filed, Staged, Assigned
<1> QED
  BY <1>1, <1>2

LEMMA TypeInvHolds == Spec => []TypeInv
<1>1. Init => TypeInv
  BY TypeInit
<1>2. TypeInv /\ [Next]_vars => TypeInv'
  BY TypeNext
<1> QED
  BY <1>1, <1>2, PTL DEF Spec

\* The types of IndexerState: the source list is whole or does not parse, the lock
\* names at most one process, of now or before, and every actor is at a known step
\* about a known document.
THEOREM IndexerTypes == Spec => []TypeOK
<1>1. TypeInv => TypeOK
  <2> SUFFICES ASSUME TypeInv PROVE TypeOK
    OBVIOUS
  <2>1. \A i \in DOMAIN file : i = 1 /\ file[i] \in [Sources -> Entry]
    BY DEF TypeInv, Typed, Copy, List, FullEntry, Entry
  <2>2. lock \subseteq 0..pid /\ Cardinality(lock) <= 1
    <3>1. CASE lock = {}
      BY <3>1, FS_EmptySet
    <3>2. ASSUME NEW p \in 0..pid, lock = {p}
          PROVE  lock \subseteq 0..pid /\ Cardinality(lock) <= 1
      <4>1. Cardinality(lock) = 1
        BY <3>2, FS_Singleton
      <4> QED
        BY <3>2, <4>1
    <3> QED
      BY <3>1, <3>2 DEF TypeInv, Typed
  <2>3. ASSUME NEW a \in Actors
        PROVE  /\ task[a].step \in Steps /\ task[a].io \in {"read", "write", "land"}
               /\ task[a].source \in Sources \cup {Main}
               /\ task[a].io # "read" => task[a].copy[1] \in [Sources -> Entry]
    <3>1. task[a] \in FullTask /\ Placed(a, task[a])
      BY DEF TypeInv, Typed, Staged
    <3>2. List \subseteq [Sources -> Entry]
      BY DEF List, FullEntry, Entry
    <3> QED
      BY <3>1, <3>2 DEF FullTask, Placed, Copy
  <2>4. ASSUME NEW f \in OutputFiles, outputs[f] # <<>>
        PROVE  \E s \in Sources : outputs[f] = <<s>> /\ NameOf[s] = f[1]
    BY <2>4 DEF TypeInv, Typed, Filed, Contents
  <2> QED
    BY <2>1, <2>2, <2>3, <2>4 DEF TypeInv, Typed, Filed, TypeOK
<1> QED
  BY <1>1, TypeInvHolds, PTL

-----------------------------------------------------------------------------
(* A call's loops rest while it prepares its work.                         *)

AtWork == {"work", "unlock", "done"}

Rested ==
  \A c \in Calls : task[<<c, Main>>].step \notin AtWork => \A k \in Slots : ~ Running(<<c, k>>)

\* A step of a loop; when it throws, its call goes on to its end.
LEMMA RestedLoop ==
  ASSUME Rested, NEW a \in Calls \X Slots, Running(a),
         \A b \in Actors : b # a /\ task'[b] # task[b] =>
           b = <<a[1], Main>> /\ task'[b].step = "unlock"
  PROVE  Rested'
<1> SUFFICES ASSUME NEW c \in Calls, task'[<<c, Main>>].step \notin AtWork, NEW k \in Slots
             PROVE  ~ Running(<<c, k>>)'
  BY DEF Rested
<1>1. a = <<a[1], a[2]>> /\ a[1] \in Calls /\ a[2] \in Slots /\ a[2] # Main
  BY IndexerAssumption
<1>2. <<c, Main>> \in Actors /\ <<c, k>> \in Actors /\ k # Main /\ <<c, Main>> # a
  BY <1>1, CallsAreActors, IndexerAssumption
<1>3. CASE c = a[1]
  <2>1. task[<<c, Main>>].step \in AtWork
    BY <1>1, <1>3 DEF Rested
  <2> QED
    BY <1>2, <2>1 DEF AtWork
<1>4. CASE c # a[1]
  <2>1. <<c, Main>> # <<a[1], Main>> /\ <<c, k>> # a /\ <<c, k>> # <<a[1], Main>>
    BY <1>1, <1>4
  <2>2. task'[<<c, Main>>] = task[<<c, Main>>] /\ task'[<<c, k>>] = task[<<c, k>>]
    BY <1>2, <2>1
  <2> QED
    BY <2>2 DEF Rested, Running
<1> QED
  BY <1>3, <1>4

\* A step of a call or a stop command itself.
LEMMA RestedMain ==
  ASSUME TypeInv, Rested, NEW x \in Calls \cup Stops, <<x, Main>> \in Actors, NEW t,
         task' = [task EXCEPT ![<<x, Main>>] = t],
         \/ x \in Stops \/ task[<<x, Main>>].step \notin AtWork \/ t.step \in AtWork
         \/ \A k \in Slots : ~ Running(<<x, k>>)
  PROVE  Rested'
<1> SUFFICES ASSUME NEW c \in Calls, task'[<<c, Main>>].step \notin AtWork, NEW k \in Slots
             PROVE  ~ Running(<<c, k>>)'
  BY DEF Rested
<1>1. k # Main /\ <<c, k>> # <<x, Main>> /\ <<c, k>> \in Actors /\ <<c, Main>> \in Actors
  BY CallsAreActors, IndexerAssumption
<1>2. task'[<<c, k>>] = task[<<c, k>>] /\ task'[<<x, Main>>] = t
      /\ (c # x => task'[<<c, Main>>] = task[<<c, Main>>])
  BY <1>1 DEF TypeInv, Typed
<1>3. ~ Running(<<c, k>>)
  BY <1>2, IndexerAssumption DEF Rested
<1> QED
  BY <1>2, <1>3 DEF Running

LEMMA RestedStep ==
  ASSUME TypeInv, Rested, NEW a \in Actors, Step(a)
  PROVE  Rested'
<1>s. ASSUME NEW step, NEW s, task' = [task EXCEPT ![a] = At(step, s)],
             Running(a), a[2] = Main /\ a[1] \in Calls => task[a].step \notin AtWork \/ step \in AtWork
      PROVE  Rested'
  <2>1. CASE a[2] \in Slots
    <3>1. a \in Calls \X Slots
      BY <2>1, ActorKinds, IndexerAssumption
    <3>2. \A b \in Actors : b # a => task'[b] = task[b]
      BY <1>s
    <3> QED
      BY <1>s, <3>1, <3>2, RestedLoop
  <2>2. CASE a[2] = Main
    <3>1. a = <<a[1], Main>> /\ a[1] \in Calls \cup Stops
      BY <2>2, ActorKinds
    <3>2. PICK x \in Calls \cup Stops : a = <<x, Main>>
      BY <3>1
    <3>3. x \in Stops \/ task[<<x, Main>>].step \notin AtWork \/ At(step, s).step \in AtWork
      BY <1>s, <3>2 DEF At
    <3> QED
      BY <1>s, <3>2, <3>3, RestedMain
  <2> QED
    BY <2>1, <2>2, ActorKinds
<1>1. ASSUME \A b \in Actors : task'[b].step = task[b].step PROVE Rested'
  BY <1>1, CallsAreActors DEF Rested, Running
<1>2. CASE ReadList(a) \/ WriteBegins(a)
  BY <1>1, <1>2 DEF ReadList, WriteBegins, TypeInv, Typed, FullTask
<1>3. CASE WriteLands(a)
  <2>1. task[a].step \in Changes
    BY <1>3 DEF WriteLands, TypeInv, Staged, Placed
  <2>2. PICK step, s : task' = [task EXCEPT ![a] = At(step, s)]
    BY <1>3 DEF WriteLands
  <2> QED
    BY <1>s, <2>1, <2>2 DEF Changes, Running, AtWork
<1>4. CASE NothingToReset(a)
  <2>1. PICK step : task' = [task EXCEPT ![a] = At(step, task[a].source)]
    BY <1>4 DEF NothingToReset, Goes
  <2> QED
    BY <1>s, <1>4, <2>1 DEF NothingToReset, Running, AtWork
<1>5. CASE ReleaseProcessLock(a)
  BY <1>s, <1>5 DEF ReleaseProcessLock, Goes, Running, AtWork
<1> QED
  BY <1>2, <1>3, <1>4, <1>5 DEF Step

LEMMA RestedLoopStep ==
  ASSUME TypeInv, Rested, NEW a \in Calls \X Slots, LoopStep(a)
  PROVE  Rested'
<1>1. Running(a)
  BY DEF LoopStep, Poll, Shift, Extract, SaveExtractionOutput, OutputBegins, OutputLands,
         ListMissing, GiveUp, Running, Changes
<1>2. ASSUME NEW t, task' = [task EXCEPT ![a] = t] PROVE Rested'
  <2>1. \A b \in Actors : b # a => task'[b] = task[b]
    BY <1>2
  <2> QED
    BY <1>1, <2>1, RestedLoop
<1>3. ASSUME Rejects(a) PROVE Rested'
  <2>1. ASSUME NEW b \in Actors, b # a, task'[b] # task[b]
        PROVE  b = <<a[1], Main>> /\ task'[b].step = "unlock"
    BY <1>3, <2>1 DEF Rejects, At
  <2> QED
    BY <1>1, <2>1, RestedLoop
<1> QED
  BY <1>2, <1>3
  DEF LoopStep, Poll, Shift, Extract, SaveExtractionOutput, OutputBegins, OutputLands,
      ListMissing, GiveUp, Goes

LEMMA RestedCallStep ==
  ASSUME TypeInv, Rested, NEW c \in Calls, CallStep(c)
  PROVE  Rested'
<1>a. <<c, Main>> \in Actors /\ c \in Calls \cup Stops
  BY CallsAreActors
<1>1. ASSUME NEW t, task' = [task EXCEPT ![<<c, Main>>] = t],
             \/ task[<<c, Main>>].step \notin AtWork \/ t.step \in AtWork
             \/ \A k \in Slots : ~ Running(<<c, k>>)
      PROVE  Rested'
  BY <1>1, <1>a, RestedMain
<1>2. ASSUME NEW queue, StartLoops(c, queue) PROVE Rested'
  <2> SUFFICES ASSUME NEW d \in Calls, task'[<<d, Main>>].step \notin AtWork, NEW k \in Slots
               PROVE  ~ Running(<<d, k>>)'
    BY DEF Rested
  <2>1. /\ <<d, k>> \in Actors /\ <<d, Main>> \in Actors
        /\ <<d, k>> # <<c, Main>> /\ <<d, k>>[1] = d /\ <<d, Main>>[1] = d /\ <<d, Main>>[2] = Main
    BY CallsAreActors, IndexerAssumption
  <2>2. d # c
    BY <1>2, <2>1 DEF StartLoops, At, AtWork
  <2>3. task'[<<d, Main>>] = task[<<d, Main>>] /\ task'[<<d, k>>] = task[<<d, k>>]
    BY <1>2, <2>1, <2>2 DEF StartLoops
  <2> QED
    BY <2>3 DEF Rested, Running
<1>3. CASE Offer(c) \/ AcquireProcessLock(c) \/ ClaimProcessLock(c) \/ ClearStopRequest(c)
  <2>1. task[<<c, Main>>].step \notin AtWork
    BY <1>3 DEF Offer, AcquireProcessLock, ClaimProcessLock, ClearStopRequest, AtWork
  <2> QED
    BY <1>1, <1>3, <2>1
    DEF Offer, AcquireProcessLock, ClaimProcessLock, ClearStopRequest, Goes
<1>4. CASE ExtractWithWorkerPool(c)
  <2>1. task[<<c, Main>>].step \notin AtWork
    BY <1>4 DEF ExtractWithWorkerPool, AtWork
  <2> QED
    BY <1>1, <1>2, <1>4, <2>1 DEF ExtractWithWorkerPool, Goes
<1>5. CASE WorkEnds(c)
  <2>1. \A k \in Slots : ~ Running(<<c, k>>)
    BY <1>5 DEF WorkEnds, SlotsOf
  <2> QED
    BY <1>1, <1>5, <2>1 DEF WorkEnds, Goes
<1>6. CASE Reassign(c)
  <2>1. task[<<c, Main>>].step \notin AtWork
    BY <1>6 DEF Reassign, AtWork
  <2>2. CASE UNCHANGED task
    BY <2>2 DEF Rested, Running
  <2>3. ASSUME NEW s, task' = [task EXCEPT ![<<c, Main>>].source = s] PROVE Rested'
    BY <1>1, <2>1, <2>3
  <2> QED
    BY <1>6, <2>2, <2>3 DEF Reassign
<1>7. CASE Retry(c)
  <2>1. task[<<c, Main>>].step \notin AtWork
    BY <1>7 DEF Retry, AtWork
  <2> QED
    BY <1>1, <1>2, <1>7, <2>1 DEF Retry, Goes
<1>8. CASE ReassignFails(c)
  <2>1. task[<<c, Main>>].step \notin AtWork
    BY <1>8 DEF ReassignFails, AtWork
  <2> QED
    BY <1>1, <1>8, <2>1 DEF ReassignFails
<1> QED
  BY <1>3, <1>4, <1>5, <1>6, <1>7, <1>8 DEF CallStep

LEMMA RestedNext ==
  ASSUME TypeInv, Rested, [Next]_vars
  PROVE  Rested'
<1>1. ASSUME NEW c \in Calls, Execute(c) PROVE Rested'
  <2>1. task[<<c, Main>>].step \notin AtWork
    BY <1>1 DEF Execute, AtWork
  <2> QED
    BY <1>1, <2>1, RestedMain, CallsAreActors DEF Execute, Goes
<1>2. ASSUME NEW c \in Calls, Abort(c) PROVE Rested'
  BY <1>2 DEF Abort, Rested, Running
<1>3. ASSUME NEW h \in Stops, RequestStop(h) PROVE Rested'
  BY <1>3, RestedMain, CallsAreActors DEF RequestStop, Goes
<1>4. CASE Crash
  <2>1. \A b \in Actors : Running(b) => task'[b].step = "done"
    BY <1>4 DEF Crash, At
  <2>2. \A b \in Actors : ~ Running(b) => task'[b] = task[b]
    BY <1>4 DEF Crash
  <2> QED
    BY <2>1, <2>2, CallsAreActors DEF Rested, Running, AtWork
<1>5. CASE UNCHANGED vars
  BY <1>5 DEF vars, Rested, Running
<1> QED
  BY <1>1, <1>2, <1>3, <1>4, <1>5, RestedStep, RestedLoopStep, RestedCallStep DEF Next, Progress

LEMMA RestedHolds == Spec => []Rested
<1>1. Init => Rested
  <2> SUFFICES ASSUME Init PROVE Rested
    OBVIOUS
  <2>1. PICK sc \in Scenarios : Begins(sc)
    BY BeginsSomehow
  <2>2. ASSUME NEW c \in Calls, NEW k \in Slots PROVE ~ Running(<<c, k>>)
    <3>1. <<c, k>> \in Actors /\ <<c, k>>[2] # Main
      BY CallsAreActors, IndexerAssumption
    <3> QED
      BY <2>1, <3>1 DEF Begins, FirstStep, At, Running
  <2> QED
    BY <2>2 DEF Rested
<1>2. TypeInv /\ Rested /\ [Next]_vars => Rested'
  BY RestedNext
<1> QED
  BY <1>1, <1>2, TypeInvHolds, PTL DEF Spec

-----------------------------------------------------------------------------
(* The copies of the list that are about: the file, and those being        *)
(* written.                                                                *)

Held(l) == file = <<l>> \/ \E a \in Actors : task[a].copy = <<l>>

\* A step that neither reads nor writes the list for a change.
Quiet ==
  /\ UNCHANGED <<file, recorded, overlapped>>
  /\ \A f \in OutputFiles : Stands(f) => Stands(f)'
  /\ \A b \in Actors :
       \/ task'[b] = task[b]
       \/ /\ task'[b].copy = <<>> /\ task'[b].io = "read"
          /\ (task[b].step = "record" => Stands(SavesTo(b)))'
       \/ /\ task'[b].copy = task[b].copy /\ task'[b].io = task[b].io
          /\ task'[b].step = "reassign" /\ task[b].step = "reassign"

\* An output's file stands while it is left alone and its savers go on.
LEMMA SaversStay ==
  ASSUME UNCHANGED <<outputs, broken>>,
         \A b \in Calls \X Slots : task[b].step = "saving" => task'[b] = task[b]
  PROVE  \A f \in OutputFiles : Stands(f) => Stands(f)'
BY DEF Stands, Saving, SavesTo

LEMMA QuietMove ==
  ASSUME TypeInv, NEW a \in Actors, NEW step, NEW s, task' = [task EXCEPT ![a] = At(step, s)],
         task[a].step # "saving", step # "record",
         UNCHANGED <<file, outputs, broken, recorded, overlapped>>
  PROVE  Quiet
<1>1. \A b \in Actors : b # a => task'[b] = task[b]
  OBVIOUS
<1>2. task'[a] = At(step, s)
  BY DEF TypeInv, Typed
<1>3. \A b \in Calls \X Slots : task[b].step = "saving" => task'[b] = task[b]
  BY <1>1, CallsAreActors
<1>4. \A f \in OutputFiles : Stands(f) => Stands(f)'
  BY <1>3, SaversStay
<1> QED
  BY <1>1, <1>2, <1>4 DEF Quiet, At

LEMMA QuietGoes ==
  ASSUME TypeInv, NEW a \in Actors, NEW step, Goes(a, step), step # "record",
         task[a].step # "saving", UNCHANGED <<file, outputs, broken, recorded, overlapped>>
  PROVE  Quiet
BY QuietMove DEF Goes

LEMMA QuietRejects ==
  ASSUME NEW a \in Actors, Rejects(a), task[a].step # "saving",
         UNCHANGED <<file, outputs, broken, recorded, overlapped>>
  PROVE  Quiet
<1>1. \A b \in Calls \X Slots : task[b].step = "saving" => task'[b] = task[b]
  BY CallsAreActors DEF Rejects
<1>2. \A f \in OutputFiles : Stands(f) => Stands(f)'
  BY <1>1, SaversStay
<1> QED
  BY <1>2 DEF Quiet, At, Rejects

LEMMA QuietStart ==
  ASSUME NEW c \in Calls, NEW queue, StartLoops(c, queue),
         \A k \in Slots : ~ Running(<<c, k>>),
         UNCHANGED <<file, outputs, broken, recorded, overlapped>>
  PROVE  Quiet
<1>1. ASSUME NEW b \in Calls \X Slots, task[b].step = "saving" PROVE task'[b] = task[b]
  <2>1. b = <<b[1], b[2]>> /\ b[1] \in Calls /\ b[2] \in Slots /\ b \in Actors
    BY CallsAreActors
  <2>2. Running(b)
    BY <1>1 DEF Running
  <2>3. b[1] # c /\ b # <<c, Main>>
    BY <2>1, <2>2, IndexerAssumption
  <2> QED
    BY <2>1, <2>3 DEF StartLoops
<1>2. \A f \in OutputFiles : Stands(f) => Stands(f)'
  BY <1>1, SaversStay
<1> QED
  BY <1>2 DEF Quiet, At, StartLoops

\* An output that is begun or lands: its file stands on, and the others are not touched.
LEMMA QuietSave ==
  ASSUME TypeInv, NEW a \in Calls \X Slots, SaveExtractionOutput(a)
  PROVE  Quiet
<1> SUFFICES ASSUME NEW g, g = SavesTo(a) PROVE Quiet
  OBVIOUS
<1>a. a \in Actors /\ task[a].source \in Sources /\ WorkerOf[a[2]] \in Workers
  BY CallsAreActors, RecordingLoop
  DEF SaveExtractionOutput, OutputBegins, OutputLands, SourceSteps
<1>g. g \in OutputFiles
  BY <1>a DEF SavesTo, OutputFile, OutputFiles
<1>1. PICK step \in {"saving", "record"} : task' = [task EXCEPT ![a] = At(step, task[a].source)]
  BY DEF SaveExtractionOutput, OutputBegins, OutputLands, Goes
<1>2. /\ task'[a] = At(step, task[a].source)
      /\ \A b \in Actors : b # a => task'[b] = task[b]
  BY <1>1, <1>a DEF TypeInv, Typed
<1>3. UNCHANGED <<file, recorded, overlapped>>
  BY DEF SaveExtractionOutput, OutputBegins, OutputLands
<1>4. SavesTo(a)' = g
  BY <1>2 DEF SavesTo, At
<1>5. Stands(g)'
  <2>1. CASE OutputBegins(a)
    <3>1. task'[a].step = "saving"
      BY <1>a, <2>1 DEF OutputBegins, Goes, At, TypeInv, Typed
    <3> QED
      BY <1>4, <3>1 DEF Stands, Saving
  <2>2. CASE OutputLands(a)
    <3>1. CASE outputs' = [outputs EXCEPT ![g] = <<task[a].source>>]
      <4>1. outputs'[g] = <<task[a].source>>
        BY <1>g, <3>1 DEF TypeInv, Typed, Filed
      <4>2. <<task[a].source>> # <<>>
        OBVIOUS
      <4> QED
        BY <4>1, <4>2 DEF Stands
    <3>2. CASE broken' = broken \cup {g}
      BY <3>2 DEF Stands
    <3> QED
      BY <2>2, <3>1, <3>2 DEF OutputLands
  <2> QED
    BY <2>1, <2>2 DEF SaveExtractionOutput
<1>6. ASSUME NEW f \in OutputFiles, Stands(f) PROVE Stands(f)'
  <2>1. CASE f = g
    BY <1>5, <2>1
  <2>2. CASE f # g
    <3>1. outputs'[f] = outputs[f] /\ (f \in broken => f \in broken')
      BY <2>2 DEF SaveExtractionOutput, OutputBegins, OutputLands, TypeInv, Typed, Filed
    <3>2. Saving(f) => Saving(f)'
      <4>1. SUFFICES ASSUME NEW b \in Calls \X Slots, task[b].step = "saving", SavesTo(b) = f
                     PROVE  task'[b] = task[b]
        BY DEF Saving, SavesTo
      <4> QED
        BY <1>2, <2>2, <4>1, CallsAreActors
    <3> QED
      BY <1>6, <3>1, <3>2 DEF Stands
  <2> QED
    BY <2>1, <2>2
<1>7. Stands(SavesTo(a))'
  BY <1>4, <1>5
<1> QED
  BY <1>2, <1>3, <1>6, <1>7 DEF Quiet, At

LEMMA QuietLoopStep ==
  ASSUME TypeInv, NEW a \in Calls \X Slots, LoopStep(a)
  PROVE  Quiet
<1>a. a \in Actors
  BY CallsAreActors
<1>1. CASE Poll(a)
  <2>1. PICK next \in {"done", "shift"} : Goes(a, next)
    BY <1>1 DEF Poll
  <2> QED
    BY <1>1, <1>a, <2>1, QuietGoes DEF Poll
<1>2. CASE Shift(a)
  <2>1. CASE Goes(a, "done")
    BY <1>2, <1>a, <2>1, QuietGoes DEF Shift
  <2>2. CASE Rejects(a)
    BY <1>2, <1>a, <2>2, QuietRejects DEF Shift
  <2>3. CASE task' = [task EXCEPT ![a] = At("extracting", Head(Queue(a)))]
    BY <1>2, <1>a, <2>3, QuietMove DEF Shift
  <2> QED
    BY <1>2, <2>1, <2>2, <2>3 DEF Shift
<1>3. CASE Extract(a)
  <2>1. PICK next \in {"deduplicating", "error"} : Goes(a, next)
    BY <1>3 DEF Extract
  <2> QED
    BY <1>3, <1>a, <2>1, QuietGoes DEF Extract
<1>4. CASE SaveExtractionOutput(a)
  BY <1>4, QuietSave
<1>5. CASE ListMissing(a)
  <2>1. CASE Goes(a, "error")
    BY <1>5, <1>a, <2>1, QuietGoes DEF ListMissing, Changes
  <2>2. CASE Rejects(a)
    BY <1>5, <1>a, <2>2, QuietRejects DEF ListMissing, Changes
  <2> QED
    BY <1>5, <2>1, <2>2 DEF ListMissing
<1>6. CASE GiveUp(a)
  BY <1>6, <1>a, QuietMove DEF GiveUp
<1> QED
  BY <1>1, <1>2, <1>3, <1>4, <1>5, <1>6 DEF LoopStep

LEMMA QuietCallStep ==
  ASSUME TypeInv, Rested, NEW c \in Calls, CallStep(c)
  PROVE  Quiet
<1> DEFINE a == <<c, Main>>
<1>a. a \in Actors
  BY CallsAreActors
<1> HIDE DEF a
<1>1. CASE Offer(c)
  <2>1. PICK next \in {"done", "acquire"} : Goes(a, next)
    BY <1>1 DEF Offer, a
  <2> QED
    BY <1>1, <1>a, <2>1, QuietGoes DEF Offer, a
<1>2. CASE AcquireProcessLock(c)
  <2>1. PICK next \in {"clear", "claim"} : Goes(a, next)
    BY <1>2 DEF AcquireProcessLock, a
  <2> QED
    BY <1>2, <1>a, <2>1, QuietGoes DEF AcquireProcessLock, a
<1>3. CASE ClaimProcessLock(c)
  BY <1>3, <1>a, QuietMove DEF ClaimProcessLock, Goes, a
<1>4. CASE ClearStopRequest(c)
  BY <1>4, <1>a, QuietMove DEF ClearStopRequest, Goes, a
<1>5. CASE ExtractWithWorkerPool(c)
  <2>1. CASE Goes(a, "unlock")
    BY <1>5, <1>a, <2>1, QuietGoes DEF ExtractWithWorkerPool, a
  <2>2. ASSUME NEW queue, StartLoops(c, queue) PROVE Quiet
    BY <1>5, <2>2, QuietStart DEF ExtractWithWorkerPool, Rested, AtWork
  <2> QED
    BY <1>5, <2>1, <2>2 DEF ExtractWithWorkerPool, a
<1>6. CASE WorkEnds(c)
  <2>1. PICK next \in {"unlock", "reassign"} : Goes(a, next)
    BY <1>6 DEF WorkEnds, a
  <2> QED
    BY <1>6, <1>a, <2>1, QuietGoes DEF WorkEnds, a
<1>7. CASE Reassign(c)
  <2>1. CASE UNCHANGED task
    BY <1>7, <2>1, SaversStay DEF Reassign, Quiet
  <2>2. ASSUME NEW s, task' = [task EXCEPT ![a].source = s] PROVE Quiet
    <3>1. task[a].step = "reassign"
      BY <1>7 DEF Reassign, a
    <3>2. task[a] \in FullTask
      BY <1>a DEF TypeInv, Typed
    <3>3. /\ task'[a].copy = task[a].copy /\ task'[a].io = task[a].io /\ task'[a].step = task[a].step
          /\ \A b \in Actors : b # a => task'[b] = task[b]
      BY <1>a, <2>2, <3>2 DEF TypeInv, Typed, FullTask
    <3>4. \A b \in Calls \X Slots : task[b].step = "saving" => task'[b] = task[b]
      BY <3>1, <3>3, CallsAreActors
    <3>5. \A f \in OutputFiles : Stands(f) => Stands(f)'
      BY <1>7, <3>4, SaversStay DEF Reassign
    <3> QED
      BY <1>7, <3>1, <3>3, <3>5 DEF Reassign, Quiet
  <2> QED
    BY <1>7, <2>1, <2>2 DEF Reassign, a
<1>8. CASE Retry(c)
  <2>1. CASE Goes(a, "unlock")
    BY <1>8, <1>a, <2>1, QuietGoes DEF Retry, a
  <2>2. CASE StartLoops(c, call[c].queue)
    BY <1>8, <2>2, QuietStart DEF Retry, Rested, AtWork
  <2> QED
    BY <1>8, <2>1, <2>2 DEF Retry, a
<1>9. CASE ReassignFails(c)
  BY <1>9, <1>a, QuietMove DEF ReassignFails, a
<1> QED
  BY <1>1, <1>2, <1>3, <1>4, <1>5, <1>6, <1>7, <1>8, <1>9 DEF CallStep

\* Every step is a change of the list at work, or quiet.
LEMMA StepsOfTheList ==
  ASSUME TypeInv, Rested, [Next]_vars
  PROVE  \/ \E a \in Actors : ReadList(a) \/ WriteBegins(a) \/ WriteLands(a)
         \/ Quiet
<1>1. ASSUME NEW a \in Actors, NothingToReset(a) PROVE Quiet
  <2>1. PICK next \in {"unlock", "list"} : Goes(a, next)
    BY <1>1 DEF NothingToReset
  <2> QED
    BY <1>1, <2>1, QuietGoes DEF NothingToReset
<1>2. ASSUME NEW a \in Actors, ReleaseProcessLock(a) PROVE Quiet
  BY <1>2, QuietMove DEF ReleaseProcessLock, Goes
<1>3. ASSUME NEW c \in Calls, Execute(c) PROVE Quiet
  BY <1>3, QuietMove, CallsAreActors DEF Execute, Goes
<1>4. ASSUME NEW c \in Calls, Abort(c) PROVE Quiet
  BY <1>4, SaversStay DEF Abort, Quiet
<1>5. ASSUME NEW h \in Stops, RequestStop(h) PROVE Quiet
  BY <1>5, QuietMove, CallsAreActors DEF RequestStop, Goes
<1>6. CASE Crash
  <2>1. \A f \in OutputFiles : Stands(f) => Stands(f)'
    BY <1>6 DEF Crash, Stands
  <2> QED
    BY <1>6, <2>1 DEF Crash, Quiet, At
<1>7. CASE UNCHANGED vars
  BY <1>7, SaversStay DEF vars, Quiet
<1> QED
  BY <1>1, <1>2, <1>3, <1>4, <1>5, <1>6, <1>7, QuietLoopStep, QuietCallStep DEF Next, Progress, Step

\* A copy that is about after a step was about before, or a change has just made it.
LEMMA HeldNext ==
  ASSUME TypeInv, Rested, [Next]_vars, NEW l \in List,
         file' = <<l>> \/ \E a \in Actors : task'[a].copy = <<l>>
  PROVE  \/ Held(l)
         \/ \E a \in Actors : ReadList(a) /\ Held(file[1]) /\ Keeps(a, file[1], l) /\ file[1] \in List
<1>c. <<l>> # <<>> /\ \A x, y : <<x>> = <<y>> => x = y
  OBVIOUS
<1>1. ASSUME NEW a \in Actors, ReadList(a)
      PROVE  \/ Held(l)
             \/ ReadList(a) /\ Held(file[1]) /\ Keeps(a, file[1], l) /\ file[1] \in List
  <2> DEFINE new == Update(a, task[a].source, file[1])
  <2>1. file = <<file[1]>> /\ file[1] \in List
    BY <1>1 DEF ReadList, TypeInv, Typed, Copy
  <2>2. task[a] \in FullTask /\ file' = file
    BY <1>1 DEF ReadList, TypeInv, Typed
  <2> HIDE DEF new
  <2>3. task'[a].copy = <<new>> /\ \A b \in Actors : b # a => task'[b] = task[b]
    BY <1>1, <2>2 DEF ReadList, TypeInv, Typed, FullTask, new
  <2>4. CASE Held(l)
    BY <2>4
  <2>5. CASE ~ Held(l)
    <3>1. l = new
      BY <1>c, <2>2, <2>3, <2>5 DEF Held
    <3>2. Keeps(a, file[1], new)
      BY <1>1, <2>1, UpdateKeeps DEF ReadList, new
    <3> QED
      BY <1>1, <2>1, <3>1, <3>2 DEF Held
  <2> QED
    BY <2>4, <2>5
<1>2. ASSUME NEW a \in Actors, WriteBegins(a) PROVE Held(l)
  <2>1. task[a] \in FullTask /\ file' = <<>>
    BY <1>2 DEF WriteBegins, TypeInv, Typed
  <2>2. \A b \in Actors : task'[b].copy = task[b].copy
    BY <1>2, <2>1 DEF WriteBegins, TypeInv, Typed, FullTask
  <2> QED
    BY <2>1, <2>2 DEF Held
<1>3. ASSUME NEW a \in Actors, WriteLands(a) PROVE Held(l)
  <2>1. file' = task[a].copy \/ file' = <<>>
    BY <1>3 DEF WriteLands
  <2>2. PICK next, s : task' = [task EXCEPT ![a] = At(next, s)]
    BY <1>3 DEF WriteLands
  <2>3. task'[a].copy = <<>> /\ \A b \in Actors : b # a => task'[b] = task[b]
    BY <2>2 DEF TypeInv, Typed, At
  <2> QED
    BY <1>c, <2>1, <2>3 DEF Held
<1>4. CASE Quiet
  BY <1>c, <1>4 DEF Quiet, Held
<1> QED
  BY <1>1, <1>2, <1>3, <1>4, StepsOfTheList

\* A change of the list at work: it writes no output, and a loop that records does so
\* for the source it was at.
LEMMA ListStepRecords ==
  ASSUME TypeInv, NEW a \in Actors, ReadList(a) \/ WriteBegins(a) \/ WriteLands(a)
  PROVE  /\ outputs' = outputs /\ broken' = broken
         /\ \A b \in Actors : task[b].step = "saving" => task'[b] = task[b]
         /\ \A b \in Actors : task'[b].step = "record" =>
              task[b].step = "record" /\ task'[b].source = task[b].source
<1>t. task[a] \in FullTask
  BY DEF TypeInv, Typed
<1>c. task[a].step \in Changes /\ task[a].step # "saving"
  <2>1. task[a].step \in Changes
    BY DEF ReadList, WriteBegins, WriteLands, TypeInv, Staged, Placed
  <2> QED
    BY <2>1 DEF Changes
<1>1. CASE ReadList(a)
  BY <1>t, <1>c, <1>1 DEF ReadList, TypeInv, Typed, FullTask
<1>2. CASE WriteBegins(a)
  BY <1>t, <1>c, <1>2 DEF WriteBegins, TypeInv, Typed, FullTask
<1>3. CASE WriteLands(a)
  <2>2. PICK next, s : task' = [task EXCEPT ![a] = At(next, s)] /\ next # "record"
    <3> DEFINE step == task[a].step
               next == CASE step = "extracting" -> "extract"
                         [] step = "deduplicating" -> "save"
                         [] step = "record" -> "poll"
                         [] step = "error" -> "give up"
                         [] step = "reset" -> IF a[1] \in Stops THEN "unlock" ELSE "list"
                         [] step = "reassign" -> "reassign"
    <3>1. next # "record"
      BY <1>c DEF Changes
    <3>2. \E s : task' = [task EXCEPT ![a] = At(next, s)]
      BY <1>3 DEF WriteLands
    <3> QED
      BY <3>1, <3>2
  <2>3. outputs' = outputs /\ broken' = broken
    BY <1>3 DEF WriteLands
  <2>4. task'[a].step = next /\ \A b \in Actors : b # a => task'[b] = task[b]
    BY <2>2 DEF TypeInv, Typed, At
  <2> QED
    BY <1>c, <2>2, <2>3, <2>4
<1> QED
  BY <1>1, <1>2, <1>3

-----------------------------------------------------------------------------
(* What the list names exists and is complete.                             *)

\* The outputs that any copy of the list names are on disk, and so is the one that a
\* loop is about to record: stale copies are written over newer ones and back.
Backed ==
  /\ \A l \in List : Held(l) =>
       \A s \in Sources : \A w \in l[s].files : Stands(OutputFile(s, w))
  /\ \A a \in Actors : task[a].step = "record" => Stands(SavesTo(a))

LEMMA BackedNext ==
  ASSUME TypeInv, Rested, Backed, [Next]_vars
  PROVE  Backed'
<1>1. ASSUME NEW f \in OutputFiles, Stands(f) PROVE Stands(f)'
  <2>1. CASE Quiet
    BY <1>1, <2>1 DEF Quiet
  <2>2. ASSUME NEW a \in Actors, ReadList(a) \/ WriteBegins(a) \/ WriteLands(a)
        PROVE  Stands(f)'
    <3>1. /\ UNCHANGED <<outputs, broken>>
          /\ \A b \in Calls \X Slots : task[b].step = "saving" => task'[b] = task[b]
      BY <2>2, ListStepRecords, CallsAreActors
    <3> QED
      BY <1>1, <3>1, SaversStay
  <2> QED
    BY <2>1, <2>2, StepsOfTheList
<1>f. ASSUME NEW s \in Sources, NEW w \in Workers PROVE OutputFile(s, w) \in OutputFiles
  BY DEF OutputFile, OutputFiles
<1>2. ASSUME NEW a \in Actors, task'[a].step = "record"
      PROVE  Stands(SavesTo(a))'
  <2>1. ASSUME task[a].step = "record", task'[a].source = task[a].source
        PROVE  Stands(SavesTo(a))'
    <3>1. SavesTo(a) \in OutputFiles
      BY <1>f, <2>1, RecordingLoop DEF SavesTo, SourceSteps
    <3>2. SavesTo(a)' = SavesTo(a)
      BY <2>1 DEF SavesTo
    <3>3. Stands(SavesTo(a))
      BY <2>1 DEF Backed
    <3>4. PICK g \in OutputFiles : g = SavesTo(a)
      BY <3>1
    <3>5. Stands(g)'
      BY <1>1, <3>3, <3>4
    <3> QED
      BY <3>2, <3>4, <3>5
  <2>2. CASE Quiet
    BY <1>2, <2>1, <2>2 DEF Quiet
  <2>3. ASSUME NEW b \in Actors, ReadList(b) \/ WriteBegins(b) \/ WriteLands(b)
        PROVE  task[a].step = "record" /\ task'[a].source = task[a].source
    BY <1>2, <2>3, ListStepRecords
  <2> QED
    BY <2>1, <2>2, <2>3, StepsOfTheList
<1>3. ASSUME NEW l \in List, file' = <<l>> \/ \E a \in Actors : task'[a].copy = <<l>>,
             NEW s \in Sources, NEW w \in l[s].files
      PROVE  Stands(OutputFile(s, w))'
  <2>w. w \in Workers
    BY DEF List, FullEntry
  <2>1. SUFFICES Stands(OutputFile(s, w))
    BY <1>1, <1>f, <2>w
  <2>2. CASE Held(l)
    BY <2>2 DEF Backed
  <2>3. ASSUME NEW a \in Actors, ReadList(a), Held(file[1]), Keeps(a, file[1], l), file[1] \in List
        PROVE  Stands(OutputFile(s, w))
    <3>1. CASE w \in file[1][s].files
      BY <2>3, <3>1 DEF Backed
    <3>2. CASE task[a].step = "record" /\ s = task[a].source /\ w = WorkerOf[a[2]]
      BY <3>2 DEF Backed, SavesTo
    <3> QED
      BY <2>3, <3>1, <3>2 DEF Keeps
  <2> QED
    BY <1>3, <2>2, <2>3, HeldNext
<1> QED
  BY <1>2, <1>3 DEF Backed, Held

\* Where any copy of the list says extracted, every assigned worker has an output.
Complete ==
  \A l \in List : Held(l) => \A s \in Sources :
    l[s].status = "extracted" => ToSet(l[s].assigned) \subseteq l[s].files

LEMMA CompleteNext ==
  ASSUME TypeInv, Rested, Complete, [Next]_vars
  PROVE  Complete'
<1>1. ASSUME NEW l \in List, file' = <<l>> \/ \E a \in Actors : task'[a].copy = <<l>>,
             NEW s \in Sources, l[s].status = "extracted"
      PROVE  ToSet(l[s].assigned) \subseteq l[s].files
  <2>1. CASE Held(l)
    BY <1>1, <2>1 DEF Complete
  <2>2. ASSUME NEW a \in Actors, Held(file[1]), Keeps(a, file[1], l), file[1] \in List
        PROVE  ToSet(l[s].assigned) \subseteq l[s].files
    BY <1>1, <2>2 DEF Complete, Keeps
  <2> QED
    BY <1>1, <2>1, <2>2, HeldNext
<1> QED
  BY <1>1 DEF Complete, Held

LEMMA InitBackedComplete == Init => Backed /\ Complete
<1> SUFFICES ASSUME Init PROVE Backed /\ Complete
  OBVIOUS
<1>1. PICK sc \in Scenarios : Begins(sc)
  BY BeginsSomehow
<1>2. \A a \in Actors : task[a].copy = <<>> /\ task[a].step # "record"
  BY <1>1 DEF At, Begins, FirstStep
<1>3. \A x, y : <<x>> = <<y>> => x = y
  OBVIOUS
<1>4. ASSUME NEW l \in List, Held(l) PROVE l = First(sc)
  BY <1>1, <1>2, <1>3, <1>4 DEF Held, Begins
<1>5. ASSUME NEW s \in Sources
      PROVE  /\ \A w \in First(sc)[s].files : Stands(OutputFile(s, w))
             /\ First(sc)[s].status = "extracted" =>
                  ToSet(First(sc)[s].assigned) \subseteq First(sc)[s].files
  <2>1. CASE s \in sc.pending
    BY <2>1 DEF First
  <2>2. CASE s \notin sc.pending
    <3>1. First(sc)[s].files = ToSet(sc.assigned[s]) /\ First(sc)[s].assigned = sc.assigned[s]
      BY <2>2 DEF First
    <3>2. \A w \in ToSet(sc.assigned[s]) : <<s, w>> \in Done(sc)
      BY <2>2 DEF Done
    <3>3. \A w \in ToSet(sc.assigned[s]) : outputs[OutputFile(s, w)] # <<>>
      BY <1>1, <3>2 DEF Begins
    <3> QED
      BY <3>1, <3>3 DEF Stands
  <2> QED
    BY <2>1, <2>2
<1> QED
  BY <1>2, <1>4, <1>5 DEF Backed, Complete

\* Every output that the source list names was written to its file and can be read, for
\* any number of documents, workers, calls and crashes and whichever documents have a
\* file in common, unless the file was written again since and that is under way, died
\* or overlapped: an output is saved before it is recorded, and the lists that are
\* written over each other name only outputs that were saved.
THEOREM OutputsExist == Spec => []RecordedOutputsExist
<1>1. Init => Backed
  BY InitBackedComplete
<1>2. TypeInv /\ Rested /\ Backed /\ [Next]_vars => Backed'
  BY BackedNext
<1>3. TypeInv /\ Backed => RecordedOutputsExist
  <2> SUFFICES ASSUME TypeInv, Backed, NEW i \in DOMAIN file, NEW s \in Sources,
                      NEW w \in file[i][s].files
               PROVE  /\ Stands(OutputFile(s, w))
                      /\ outputs[OutputFile(s, w)] # <<>> =>
                           \E t \in Sources : NameOf[t] = NameOf[s] /\ outputs[OutputFile(s, w)] = <<t>>
    BY DEF RecordedOutputsExist
  <2>1. Held(file[i]) /\ file[i] \in List
    BY DEF TypeInv, Typed, Copy, Held
  <2>2. Stands(OutputFile(s, w))
    BY <2>1 DEF Backed
  <2>3. w \in Workers
    BY <2>1 DEF List, FullEntry
  <2>4. OutputFile(s, w) \in OutputFiles /\ OutputFile(s, w)[1] = NameOf[s]
    BY <2>3 DEF OutputFile, OutputFiles
  <2>5. outputs[OutputFile(s, w)] \in Contents(OutputFile(s, w))
    BY <2>4 DEF TypeInv, Typed, Filed
  <2> QED
    BY <2>2, <2>4, <2>5 DEF Contents
<1> QED
  BY <1>1, <1>2, <1>3, TypeInvHolds, RestedHolds, PTL DEF Spec

\* A document is extracted only with the outputs of all workers it is assigned to, also
\* when stale copies come back and a reassignment added a worker meanwhile.
THEOREM CompleteWhenExtracted == Spec => []ExtractedIsComplete
<1>1. Init => Complete
  BY InitBackedComplete
<1>2. TypeInv /\ Rested /\ Complete /\ [Next]_vars => Complete'
  BY CompleteNext
<1>3. TypeInv /\ Complete => ExtractedIsComplete
  BY DEF TypeInv, Typed, Copy, Complete, Held, ExtractedIsComplete
<1> QED
  BY <1>1, <1>2, <1>3, TypeInvHolds, RestedHolds, PTL DEF Spec

-----------------------------------------------------------------------------
(* What was recorded stays, while changes do not overlap.                  *)

\* Up to the first overlap one change is under way at most, every copy names what was
\* recorded, and the copy of a loop that records names what it is about to record.
Serial ==
  ~ overlapped =>
    /\ \A a, b \in Actors : task[a].io # "read" /\ task[b].io # "read" => a = b
    /\ \A l \in List : Held(l) => \A r \in recorded : r[2] \in l[r[1]].files
    /\ \A a \in Actors, l \in List :
         task[a].copy = <<l>> /\ task[a].step = "record" =>
           WorkerOf[a[2]] \in l[task[a].source].files

LEMMA SerialRead ==
  ASSUME TypeInv, Serial, NEW a \in Actors, ReadList(a)
  PROVE  Serial'
<1> SUFFICES ASSUME ~ overlapped' PROVE Serial'
  BY DEF Serial
<1> DEFINE new == Update(a, task[a].source, file[1])
<1>1. /\ file = <<file[1]>> /\ file[1] \in List /\ Held(file[1]) /\ file' = file
      /\ task[a] \in FullTask /\ recorded' = recorded
  BY DEF ReadList, TypeInv, Typed, Copy, Held
<1>2. Keeps(a, file[1], new)
  BY <1>1, UpdateKeeps DEF ReadList
<1>3. ~ overlapped /\ \A b \in Actors : b # a => task[b].io = "read"
  BY DEF ReadList
<1> HIDE DEF new
<1>4. /\ task'[a].copy = <<new>> /\ task'[a].step = task[a].step /\ task'[a].source = task[a].source
      /\ \A b \in Actors : b # a => task'[b] = task[b]
  BY <1>1 DEF ReadList, TypeInv, Typed, FullTask, new
<1>5. ASSUME NEW r \in recorded PROVE r[2] \in file[1][r[1]].files /\ r[2] \in new[r[1]].files
  <2>1. r[1] \in Sources /\ r[2] \in file[1][r[1]].files
    BY <1>1, <1>3 DEF Serial, TypeInv, Typed
  <2> QED
    BY <1>2, <2>1 DEF Keeps
<1>6. ASSUME NEW b \in Actors, b # a PROVE task'[b].copy = <<>> /\ task'[b].io = "read"
  BY <1>3, <1>4, <1>6 DEF TypeInv, Staged, Placed
<1>7. ASSUME NEW l \in List, file' = <<l>> \/ \E b \in Actors : task'[b].copy = <<l>>
      PROVE  l = file[1] \/ l = new
  <2>1. <<l>> # <<>> /\ \A x, y : <<x>> = <<y>> => x = y
    OBVIOUS
  <2> QED
    BY <1>1, <1>4, <1>6, <1>7, <2>1
<1>8. ASSUME NEW b \in Actors, NEW l \in List, task'[b].copy = <<l>>, task'[b].step = "record"
      PROVE  WorkerOf[b[2]] \in l[task'[b].source].files
  <2>1. <<l>> # <<>> /\ \A x, y : <<x>> = <<y>> => x = y
    OBVIOUS
  <2>2. b = a /\ l = new
    BY <1>4, <1>6, <1>8, <2>1
  <2> QED
    BY <1>2, <1>4, <1>8, <2>2 DEF Keeps
<1> QED
  BY <1>1, <1>5, <1>6, <1>7, <1>8 DEF Serial, Held

LEMMA SerialLands ==
  ASSUME TypeInv, Serial, NEW a \in Actors, WriteLands(a)
  PROVE  Serial'
<1> SUFFICES ASSUME ~ overlapped, ~ overlapped' PROVE Serial'
  BY DEF Serial, WriteLands
<1>1. task[a] \in FullTask /\ task[a].io = "land" /\ task[a].copy # <<>>
  BY DEF WriteLands, TypeInv, Typed, Staged, Placed
<1>2. PICK l0 \in List : task[a].copy = <<l0>>
  BY <1>1 DEF FullTask, Copy
<1>3. PICK next, s : task' = [task EXCEPT ![a] = At(next, s)]
  BY DEF WriteLands
<1>4. /\ task'[a].copy = <<>> /\ task'[a].io = "read"
      /\ \A b \in Actors : b # a => task'[b] = task[b]
  BY <1>3 DEF TypeInv, Typed, At
<1>5. ASSUME NEW b \in Actors, b # a PROVE task[b].io = "read" /\ task[b].copy = <<>>
  BY <1>1, <1>5 DEF Serial, TypeInv, Staged, Placed
<1>6. ASSUME NEW b \in Actors PROVE task'[b].io = "read" /\ task'[b].copy = <<>>
  BY <1>4, <1>5
<1>7. file' = <<l0>> \/ file' = <<>>
  BY <1>2 DEF WriteLands
<1>8. ASSUME NEW r \in recorded' PROVE r[2] \in l0[r[1]].files
  <2>1. CASE r \in recorded
    BY <1>2, <2>1 DEF Serial, Held
  <2>2. CASE r \notin recorded
    <3>1. task[a].step = "record" /\ r = <<task[a].source, WorkerOf[a[2]]>>
      BY <1>8, <2>2 DEF WriteLands
    <3> QED
      BY <1>2, <3>1 DEF Serial
  <2> QED
    BY <2>1, <2>2
<1>9. \A l : <<l>> # <<>> /\ (<<l>> = <<l0>> => l = l0)
  OBVIOUS
<1> QED
  BY <1>6, <1>7, <1>8, <1>9 DEF Serial, Held

LEMMA SerialNext ==
  ASSUME TypeInv, Rested, Serial, [Next]_vars
  PROVE  Serial'
<1>1. ASSUME NEW a \in Actors, WriteBegins(a) PROVE Serial'
  <2>1. task[a] \in FullTask /\ task[a].io # "read" /\ file' = <<>>
    BY <1>1 DEF WriteBegins, TypeInv, Typed
  <2>2. ASSUME NEW b \in Actors
        PROVE  /\ task'[b].copy = task[b].copy /\ task'[b].step = task[b].step
               /\ task'[b].source = task[b].source
               /\ task'[b].io # "read" <=> task[b].io # "read"
    BY <1>1, <2>1 DEF WriteBegins, TypeInv, Typed, FullTask
  <2>3. \A l : <<l>> # <<>>
    OBVIOUS
  <2>4. recorded' = recorded /\ overlapped' = overlapped
    BY <1>1 DEF WriteBegins
  <2> QED
    BY <2>1, <2>2, <2>3, <2>4 DEF Serial, Held
<1>2. CASE Quiet
  <2>1. \A l : <<l>> # <<>>
    OBVIOUS
  <2>2. ASSUME NEW b \in Actors
        PROVE  /\ task'[b].io # "read" => task[b].io # "read"
               /\ task'[b].copy # <<>> => task'[b].copy = task[b].copy
               /\ task'[b].copy # <<>> /\ task'[b].step = "record" => task'[b] = task[b]
    BY <1>2 DEF Quiet
  <2>3. recorded' = recorded /\ overlapped' = overlapped /\ file' = file
    BY <1>2 DEF Quiet
  <2> SUFFICES ASSUME ~ overlapped PROVE Serial'
    BY <2>3 DEF Serial
  <2>4. \A a, b \in Actors : task'[a].io # "read" /\ task'[b].io # "read" => a = b
    BY <2>2 DEF Serial
  <2>5. ASSUME NEW l \in List, file' = <<l>> \/ \E b \in Actors : task'[b].copy = <<l>>
        PROVE  \A r \in recorded' : r[2] \in l[r[1]].files
    <3>1. Held(l)
      BY <2>1, <2>2, <2>3, <2>5 DEF Held
    <3> QED
      BY <2>3, <3>1 DEF Serial
  <2>6. ASSUME NEW b \in Actors, NEW l \in List, task'[b].copy = <<l>>, task'[b].step = "record"
        PROVE  WorkerOf[b[2]] \in l[task'[b].source].files
    <3>1. task'[b] = task[b]
      BY <2>1, <2>2, <2>6
    <3> QED
      BY <2>6, <3>1 DEF Serial
  <2> QED
    BY <2>4, <2>5, <2>6 DEF Serial, Held
<1> QED
  BY <1>1, <1>2, SerialRead, SerialLands, StepsOfTheList

\* Unless two changes of the source list were made at the same time, what
\* recordExtractionComplete recorded stays recorded, whatever fails, stops or crashes.
THEOREM SerialChangesKeepRecords == Spec => []SerialRecordsStay
<1>1. Init => Serial
  <2> SUFFICES ASSUME Init PROVE Serial
    OBVIOUS
  <2>1. PICK sc \in Scenarios : Begins(sc)
    BY BeginsSomehow
  <2>2. \A a \in Actors : task[a].copy = <<>> /\ task[a].io = "read"
    BY <2>1 DEF At, Begins
  <2>3. \A x, y : <<x>> # <<>> /\ (<<x>> = <<y>> => x = y)
    OBVIOUS
  <2>4. ASSUME NEW r \in recorded PROVE r[2] \in First(sc)[r[1]].files
    <3>1. PICK s \in Sources \ sc.pending : r \in {s} \X ToSet(sc.assigned[s])
      BY <2>1, <2>4 DEF Begins, Done
    <3> QED
      BY <3>1 DEF First
  <2> QED
    BY <2>1, <2>2, <2>3, <2>4 DEF Serial, Held, Begins
<1>2. TypeInv /\ Rested /\ Serial /\ [Next]_vars => Serial'
  BY SerialNext
<1>3. TypeInv /\ Serial => SerialRecordsStay
  BY DEF TypeInv, Typed, Copy, Serial, Held, SerialRecordsStay
<1> QED
  BY <1>1, <1>2, <1>3, TypeInvHolds, RestedHolds, PTL DEF Spec

-----------------------------------------------------------------------------
(* The process lock.                                                       *)

\* Steps at which a call has the removal of the lock still ahead of it.
Holding == {"clear", "reset", "list", "work", "reassign", "unlock"}

\* A lock of the running process is held by a call that will remove it, and any other
\* lock was left by a process that is dead.
LockHeld == lock = {pid} => \E c \in Calls : task[<<c, Main>>].step \in Holding

\* No call stops holding the lock.
KeepsHolding ==
  /\ lock' = lock /\ pid' = pid
  /\ \A c \in Calls : task[<<c, Main>>].step \in Holding => task'[<<c, Main>>].step \in Holding

LEMMA HoldingMove ==
  ASSUME TypeInv, NEW a \in Actors, NEW step, NEW s, task' = [task EXCEPT ![a] = At(step, s)],
         task[a].step \in Holding /\ a[2] = Main => step \in Holding,
         UNCHANGED <<lock, pid>>
  PROVE  KeepsHolding
BY CallsAreActors DEF KeepsHolding, At, TypeInv, Typed

LEMMA HoldingGoes ==
  ASSUME TypeInv, NEW a \in Actors, NEW step, Goes(a, step),
         task[a].step \in Holding /\ a[2] = Main => step \in Holding,
         UNCHANGED <<lock, pid>>
  PROVE  KeepsHolding
BY HoldingMove DEF Goes

LEMMA HoldingStart ==
  ASSUME NEW c \in Calls, NEW queue, StartLoops(c, queue), UNCHANGED <<lock, pid>>
  PROVE  KeepsHolding
BY CallsAreActors DEF KeepsHolding, At, StartLoops, Holding

LEMMA HoldingLoopStep ==
  ASSUME TypeInv, NEW a \in Calls \X Slots, LoopStep(a)
  PROVE  KeepsHolding
<1>a. a \in Actors /\ a[2] # Main
  BY CallsAreActors, IndexerAssumption
<1>r. ASSUME Rejects(a), UNCHANGED <<lock, pid>> PROVE KeepsHolding
  BY <1>a, <1>r, CallsAreActors DEF Rejects, KeepsHolding, At, Holding
<1>1. CASE Poll(a)
  <2>1. PICK next \in {"done", "shift"} : Goes(a, next)
    BY <1>1 DEF Poll
  <2> QED
    BY <1>1, <1>a, <2>1, HoldingGoes DEF Poll
<1>2. CASE Shift(a)
  <2>1. CASE Goes(a, "done")
    BY <1>2, <1>a, <2>1, HoldingGoes DEF Shift
  <2>2. CASE Rejects(a)
    BY <1>2, <1>r, <2>2 DEF Shift
  <2>3. CASE task' = [task EXCEPT ![a] = At("extracting", Head(Queue(a)))]
    BY <1>2, <1>a, <2>3, HoldingMove DEF Shift
  <2> QED
    BY <1>2, <2>1, <2>2, <2>3 DEF Shift
<1>3. CASE Extract(a)
  <2>1. PICK next \in {"deduplicating", "error"} : Goes(a, next)
    BY <1>3 DEF Extract
  <2> QED
    BY <1>3, <1>a, <2>1, HoldingGoes DEF Extract
<1>4. CASE SaveExtractionOutput(a)
  <2>1. PICK next \in {"saving", "record"} : Goes(a, next)
    BY <1>4 DEF SaveExtractionOutput, OutputBegins, OutputLands
  <2> QED
    BY <1>4, <1>a, <2>1, HoldingGoes DEF SaveExtractionOutput, OutputBegins, OutputLands
<1>5. CASE ListMissing(a)
  <2>1. CASE Goes(a, "error")
    BY <1>5, <1>a, <2>1, HoldingGoes DEF ListMissing
  <2>2. CASE Rejects(a)
    BY <1>5, <1>r, <2>2 DEF ListMissing
  <2> QED
    BY <1>5, <2>1, <2>2 DEF ListMissing
<1>6. CASE GiveUp(a)
  BY <1>6, <1>a, HoldingMove DEF GiveUp
<1> QED
  BY <1>1, <1>2, <1>3, <1>4, <1>5, <1>6 DEF LoopStep

\* A call that runs keeps holding the lock, or takes it.
LEMMA HoldingCallStep ==
  ASSUME TypeInv, NEW c \in Calls, CallStep(c)
  PROVE  KeepsHolding \/ LockHeld'
<1> DEFINE a == <<c, Main>>
<1>a. a \in Actors
  BY CallsAreActors
<1> HIDE DEF a
<1>1. CASE Offer(c)
  <2>1. PICK next \in {"done", "acquire"} : Goes(a, next)
    BY <1>1 DEF Offer, a
  <2> QED
    BY <1>1, <1>a, <2>1, HoldingGoes DEF Offer, Holding, a
<1>2. CASE AcquireProcessLock(c)
  <2>1. PICK next \in {"clear", "claim"} : Goes(a, next)
    BY <1>2 DEF AcquireProcessLock, a
  <2> QED
    BY <1>2, <1>a, <2>1, HoldingGoes DEF AcquireProcessLock, Holding, a
<1>3. CASE ClaimProcessLock(c)
  <2>1. task'[<<c, Main>>].step = "clear"
    BY <1>3, CallsAreActors DEF ClaimProcessLock, Goes, At, TypeInv, Typed
  <2> QED
    BY <2>1 DEF LockHeld, Holding
<1>4. CASE ClearStopRequest(c)
  BY <1>4, <1>a, HoldingGoes DEF ClearStopRequest, Holding, a
<1>5. CASE ExtractWithWorkerPool(c)
  <2>1. CASE Goes(a, "unlock")
    BY <1>5, <1>a, <2>1, HoldingGoes DEF ExtractWithWorkerPool, Holding
  <2>2. ASSUME NEW queue, StartLoops(c, queue) PROVE KeepsHolding
    BY <1>5, <2>2, HoldingStart DEF ExtractWithWorkerPool
  <2> QED
    BY <1>5, <2>1, <2>2 DEF ExtractWithWorkerPool, a
<1>6. CASE WorkEnds(c)
  <2>1. PICK next \in {"unlock", "reassign"} : Goes(a, next)
    BY <1>6 DEF WorkEnds, a
  <2> QED
    BY <1>6, <1>a, <2>1, HoldingGoes DEF WorkEnds, Holding
<1>7. CASE Reassign(c)
  <2>1. CASE UNCHANGED task
    BY <1>7, <2>1 DEF Reassign, KeepsHolding
  <2>2. ASSUME NEW s, task' = [task EXCEPT ![a].source = s] PROVE KeepsHolding
    <3>1. task[a] \in FullTask
      BY <1>a DEF TypeInv, Typed
    <3>2. \A b \in Actors : task'[b].step = task[b].step
      BY <1>a, <2>2, <3>1 DEF TypeInv, Typed, FullTask
    <3> QED
      BY <1>7, <3>2, CallsAreActors DEF Reassign, KeepsHolding
  <2> QED
    BY <1>7, <2>1, <2>2 DEF Reassign, a
<1>8. CASE Retry(c)
  <2>1. CASE Goes(a, "unlock")
    BY <1>8, <1>a, <2>1, HoldingGoes DEF Retry, Holding
  <2>2. CASE StartLoops(c, call[c].queue)
    BY <1>8, <2>2, HoldingStart DEF Retry
  <2> QED
    BY <1>8, <2>1, <2>2 DEF Retry, a
<1>9. CASE ReassignFails(c)
  BY <1>9, <1>a, HoldingMove DEF ReassignFails, Holding, a
<1> QED
  BY <1>1, <1>2, <1>3, <1>4, <1>5, <1>6, <1>7, <1>8, <1>9 DEF CallStep

\* Changes of the list, and the end of a command, which removes the lock.
LEMMA HoldingStep ==
  ASSUME TypeInv, NEW a \in Actors, Step(a)
  PROVE  KeepsHolding \/ LockHeld'
<1>t. task[a] \in FullTask
  BY DEF TypeInv, Typed
<1>1. CASE ReadList(a)
  <2>1. \A b \in Actors : task'[b].step = task[b].step
    BY <1>t, <1>1 DEF ReadList, TypeInv, Typed, FullTask
  <2> QED
    BY <1>1, <2>1, CallsAreActors DEF ReadList, KeepsHolding
<1>2. CASE WriteBegins(a)
  <2>1. \A b \in Actors : task'[b].step = task[b].step
    BY <1>t, <1>2 DEF WriteBegins, TypeInv, Typed, FullTask
  <2> QED
    BY <1>2, <2>1, CallsAreActors DEF WriteBegins, KeepsHolding
<1>3. CASE WriteLands(a)
  <2> DEFINE step == task[a].step
             next == CASE step = "extracting" -> "extract"
                       [] step = "deduplicating" -> "save"
                       [] step = "record" -> "poll"
                       [] step = "error" -> "give up"
                       [] step = "reset" -> IF a[1] \in Stops THEN "unlock" ELSE "list"
                       [] step = "reassign" -> "reassign"
  <2>1. step \in Changes
    BY <1>3 DEF WriteLands, TypeInv, Staged, Placed
  <2>2. step \in Holding => next \in Holding
    BY <2>1 DEF Changes, Holding
  <2>3. PICK s : task' = [task EXCEPT ![a] = At(next, s)]
    BY <1>3 DEF WriteLands
  <2>4. UNCHANGED <<lock, pid>>
    BY <1>3 DEF WriteLands
  <2> HIDE DEF next
  <2> QED
    BY <2>2, <2>3, <2>4, HoldingMove
<1>4. CASE NothingToReset(a)
  <2>1. PICK next \in {"unlock", "list"} : Goes(a, next)
    BY <1>4 DEF NothingToReset
  <2> QED
    BY <1>4, <2>1, HoldingGoes DEF NothingToReset, Holding
<1>5. CASE ReleaseProcessLock(a)
  BY <1>5 DEF ReleaseProcessLock, LockHeld
<1> QED
  BY <1>1, <1>2, <1>3, <1>4, <1>5 DEF Step

LEMMA LockHeldNext ==
  ASSUME TypeInv, LockHeld, [Next]_vars
  PROVE  LockHeld'
<1>1. ASSUME KeepsHolding PROVE LockHeld'
  BY <1>1 DEF KeepsHolding, LockHeld
<1>2. ASSUME NEW c \in Calls, Execute(c) PROVE LockHeld'
  BY <1>1, <1>2, HoldingGoes, CallsAreActors DEF Execute, Holding
<1>3. ASSUME NEW c \in Calls, Abort(c) PROVE LockHeld'
  BY <1>1, <1>3 DEF Abort, KeepsHolding
<1>4. ASSUME NEW h \in Stops, RequestStop(h) PROVE LockHeld'
  BY <1>1, <1>4, HoldingGoes, CallsAreActors DEF RequestStop, Holding
<1>5. CASE Crash
  <2>1. lock # {pid'}
    BY <1>5 DEF Crash, TypeInv, Typed
  <2> QED
    BY <1>5, <2>1 DEF Crash, LockHeld
<1>6. CASE UNCHANGED vars
  BY <1>6 DEF vars, LockHeld
<1> QED
  BY <1>1, <1>2, <1>3, <1>4, <1>5, <1>6, HoldingStep, HoldingLoopStep, HoldingCallStep
  DEF Next, Progress

\* The running process never keeps a lock that none of its calls will remove, whichever
\* calls and stops release each other's lock and however often the process dies.
THEOREM LockIsReleased == Spec => []LockNotOrphaned
<1>1. Init => LockHeld
  BY DEF Init, LockHeld
<1>2. TypeInv /\ LockHeld /\ [Next]_vars => LockHeld'
  BY LockHeldNext
<1>3. LockHeld => LockNotOrphaned
  BY DEF LockHeld, LockNotOrphaned, Live, Running, Holding
<1> QED
  BY <1>1, <1>2, <1>3, TypeInvHolds, PTL DEF Spec

-----------------------------------------------------------------------------
(***************************************************************************)
(* Corrections.  A pass over a list of corrections is a fold; what holds   *)
(* of one correction holds of a pass by induction over the list.           *)
(***************************************************************************)
\* The result of a pass over corrections: a file in order, and what was done was asked for.
PassHolds(x, n, pass) ==
  IsFile(pass.file) /\ NoWorse(pass.file, x.file) /\ pass.done \subseteq {x.list[i].id : i \in DOMAIN x.list}

SingleStep(x, pass, c) == Single(pass, c)

Singles == INSTANCE DataInduction WITH Holds <- PassHolds, Op <- SingleStep

\* A group is dealt with at the place of its first member (applyToSource's loop over units).
FirstOf(cs, i) == cs[i].group = {} \/ \A j \in 1..(i - 1) : cs[j].group # cs[i].group
MembersOf(cs, i) == Kept(cs, {j \in DOMAIN cs : cs[j].group = cs[i].group})

UnitStep(x, pass, i) ==
  IF ~ FirstOf(x.list, i) THEN pass
  ELSE IF x.list[i].group = {} THEN Single(pass, x.list[i])
  ELSE Group(pass, MembersOf(x.list, i))

Units == INSTANCE DataInduction WITH Holds <- PassHolds, Op <- UnitStep

-----------------------------------------------------------------------------
(* Lists.                                                                  *)

LEMMA ListIs ==
  ASSUME NEW s, IsList(s)
  PROVE  Len(s) \in Nat /\ DOMAIN s = 1..Len(s) /\ s = [i \in 1..Len(s) |-> s[i]]
<1> DEFINE S == ToSet(s)
<1>1. s \in Seq(S) BY DEF IsList
<1> HIDE DEF S
<1> QED BY <1>1

LEMMA ListOf ==
  ASSUME NEW S, NEW s \in Seq(S)
  PROVE  IsList(s)
<1>1. Len(s) \in Nat /\ s \in [1..Len(s) -> S] /\ DOMAIN s = 1..Len(s) OBVIOUS
<1>2. s \in [1..Len(s) -> ToSet(s)] BY <1>1 DEF ToSet
<1>3. s \in Seq(ToSet(s)) BY <1>1, <1>2, SeqDef
<1> QED BY <1>3 DEF IsList

\* A function on 1..n is a list of n members.
LEMMA FunctionIsList ==
  ASSUME NEW n \in Nat, NEW s, DOMAIN s = 1..n, s = [i \in 1..n |-> s[i]]
  PROVE  IsList(s) /\ Len(s) = n
<1>1. s \in [1..n -> ToSet(s)] BY DEF ToSet
<1>2. s \in Seq(ToSet(s)) BY <1>1, SeqDef
<1>3. Len(s) \in Nat /\ DOMAIN s = 1..Len(s) BY <1>2, LenProperties
<1>4. Len(s) = n
  <2>1. 1..Len(s) = 1..n BY <1>3
  <2>2. \A i \in Nat : i \in 1..Len(s) <=> i \in 1..n BY <2>1
  <2>3. n >= 1 => n <= Len(s) BY <2>2
  <2>4. Len(s) >= 1 => Len(s) <= n BY <2>2, <1>3
  <2> QED BY <2>3, <2>4, <1>3
<1> QED BY <1>2, <1>4 DEF IsList

LEMMA AppendIs ==
  ASSUME NEW s, IsList(s), NEW x
  PROVE  /\ IsList(Append(s, x)) /\ Len(Append(s, x)) = Len(s) + 1
         /\ \A i \in 1..(Len(s) + 1) : Append(s, x)[i] = IF i <= Len(s) THEN s[i] ELSE x
<1> DEFINE S == ToSet(s) \cup {x}
<1>1. s \in Seq(S)
  <2>1. s \in Seq(ToSet(s)) BY DEF IsList
  <2> QED BY <2>1, SeqMonotonic
<1> HIDE DEF S
<1>2. x \in S BY DEF S
<1>3. Append(s, x) \in Seq(S) BY <1>1, <1>2
<1>4. Len(Append(s, x)) = Len(s) + 1 /\ Len(s) \in Nat BY <1>1, <1>2
<1>5. \A i \in 1..(Len(s) + 1) : Append(s, x)[i] = IF i <= Len(s) THEN s[i] ELSE x BY <1>1, <1>2
<1> QED BY <1>3, <1>4, <1>5, ListOf

LEMMA ExceptIs ==
  ASSUME NEW s, IsList(s), NEW i \in DOMAIN s, NEW x
  PROVE  LET t == [s EXCEPT ![i] = x]
         IN  /\ IsList(t) /\ Len(t) = Len(s)
             /\ \A j \in DOMAIN s : t[j] = IF j = i THEN x ELSE s[j]
<1> DEFINE t == [s EXCEPT ![i] = x]
<1>1. Len(s) \in Nat /\ DOMAIN s = 1..Len(s) /\ s = [j \in 1..Len(s) |-> s[j]] BY ListIs
<1>2. DOMAIN t = 1..Len(s) /\ \A j \in 1..Len(s) : t[j] = IF j = i THEN x ELSE s[j] BY <1>1
<1>3. t = [j \in 1..Len(s) |-> t[j]] BY <1>1
<1> HIDE DEF t
<1>4. IsList(t) /\ Len(t) = Len(s) BY <1>1, <1>2, <1>3, FunctionIsList
<1> QED BY <1>1, <1>2, <1>4 DEF t

LEMMA RemoveAtIs ==
  ASSUME NEW s, IsList(s), NEW i \in DOMAIN s
  PROVE  LET t == RemoveAt(s, i)
         IN  /\ IsList(t) /\ Len(t) = Len(s) - 1
             /\ \A j \in 1..(Len(s) - 1) : t[j] = IF j < i THEN s[j] ELSE s[j + 1]
<1> DEFINE S == ToSet(s)
           t == RemoveAt(s, i)
<1>1. s \in Seq(S) BY DEF IsList
<1> HIDE DEF S
<1>2. Len(s) \in Nat /\ DOMAIN s = 1..Len(s) /\ i \in 1..Len(s) BY <1>1
<1>3. SubSeq(s, 1, i - 1) \in Seq(S) /\ SubSeq(s, i + 1, Len(s)) \in Seq(S) BY <1>1, <1>2
<1>4. Len(SubSeq(s, 1, i - 1)) = i - 1 /\ \A j \in 1..(i - 1) : SubSeq(s, 1, i - 1)[j] = s[j]
  BY <1>1, <1>2
<1>5. /\ Len(SubSeq(s, i + 1, Len(s))) = Len(s) - i
      /\ \A j \in 1..(Len(s) - i) : SubSeq(s, i + 1, Len(s))[j] = s[j + i]
  BY <1>1, <1>2
<1> DEFINE a == SubSeq(s, 1, i - 1)
           b == SubSeq(s, i + 1, Len(s))
<1>6. t \in Seq(S) BY <1>3 DEF RemoveAt
<1>7. Len(t) = Len(s) - 1 BY <1>2, <1>3, <1>4, <1>5 DEF RemoveAt
<1>8. ASSUME NEW j \in 1..(Len(s) - 1) PROVE t[j] = IF j < i THEN s[j] ELSE s[j + 1]
  <2>1. t[j] = IF j <= i - 1 THEN a[j] ELSE b[j - (i - 1)]
    <3>1. t = a \o b BY DEF RemoveAt
    <3>2. a \in Seq(S) /\ b \in Seq(S) /\ Len(a) = i - 1 /\ Len(b) = Len(s) - i BY <1>3, <1>4, <1>5
    <3>3. j \in 1..(Len(a) + Len(b)) /\ i \in Nat BY <3>2, <1>2
    <3> HIDE DEF a, b, t
    <3>4. (a \o b)[j] = IF j <= Len(a) THEN a[j] ELSE b[j - Len(a)] BY <3>2, <3>3, ConcatProperties
    <3> QED BY <3>1, <3>2, <3>4
  <2>2. CASE j < i BY <2>1, <2>2, <1>2, <1>4
  <2>3. CASE ~ j < i
    <3>1. j - (i - 1) \in 1..(Len(s) - i) BY <2>3, <1>2
    <3> QED BY <2>1, <2>3, <3>1, <1>2, <1>5
  <2> QED BY <2>2, <2>3
<1> QED BY <1>6, <1>7, <1>8, ListOf

-----------------------------------------------------------------------------
(* The members of a list at some places.                                   *)

LEMMA NthIs ==
  ASSUME NEW n \in Nat, NEW I \in SUBSET (1..n)
  PROVE  /\ Cardinality(I) \in Nat
         /\ \A k \in 1..Cardinality(I) : Nth(I, k) \in I
         /\ \A j, k \in 1..Cardinality(I) : Nth(I, j) = Nth(I, k) => j = k
         /\ \A i \in I : \E k \in 1..Cardinality(I) : Nth(I, k) = i
<1> DEFINE Upto(i) == {j \in I : j <= i}
           rank == [i \in I |-> Cardinality(Upto(i))]
           N == 1..Cardinality(I)
<1>1. IsFiniteSet(1..n) BY FS_Interval
<1>2. IsFiniteSet(I) /\ Cardinality(I) \in Nat BY <1>1, FS_Subset, FS_CardinalityType
<1>3. ASSUME NEW i \in I
      PROVE IsFiniteSet(Upto(i)) /\ Cardinality(Upto(i)) \in N
  <2>1. Upto(i) \in SUBSET I /\ i \in Upto(i) OBVIOUS
  <2>2. IsFiniteSet(Upto(i)) /\ Cardinality(Upto(i)) <= Cardinality(I)
    <3> HIDE DEF Upto
    <3> QED BY <2>1, <1>2, FS_Subset
  <2>3. Cardinality(Upto(i)) \in Nat /\ Cardinality(Upto(i)) # 0
    BY <2>1, <2>2, FS_CardinalityType, FS_EmptySet
  <2> QED BY <2>2, <2>3, <1>2
<1>4. ASSUME NEW i \in I, NEW j \in I, i < j PROVE Cardinality(Upto(i)) # Cardinality(Upto(j))
  <2>0. \A k \in I : k \in Nat OBVIOUS
  <2>1. \A k \in I : k <= i => k <= j BY <2>0, <1>4
  <2>4. Upto(i) \in SUBSET Upto(j) BY <2>1
  <2>5. j \in Upto(j) /\ j \notin Upto(i) BY <2>0, <1>4
  <2>2. Upto(i) # Upto(j) BY <2>5
  <2> HIDE DEF Upto
  <2> QED BY <2>4, <2>2, <1>3, FS_Subset
<1>5. \A i, j \in I : rank[i] = rank[j] => i = j
  <2> SUFFICES ASSUME NEW i \in I, NEW j \in I, rank[i] = rank[j], i # j PROVE FALSE OBVIOUS
  <2>1. i < j \/ j < i OBVIOUS
  <2>2. rank[i] = Cardinality(Upto(i)) /\ rank[j] = Cardinality(Upto(j)) OBVIOUS
  <2> HIDE DEF Upto, rank
  <2> QED BY <2>1, <2>2, <1>4
<1>6. rank \in [I -> N] BY <1>3
<1>7. rank \in Injection(I, N) BY <1>5, <1>6 DEF Injection, IsInjective
<1>8. IsFiniteSet(N) /\ Cardinality(N) = Cardinality(I) BY <1>2, FS_Interval
<1>9. rank \in Surjection(I, N)
  <2> HIDE DEF rank, N
  <2> QED BY <1>7, <1>8, FS_Injection
<1>10. \A k \in N : \E i \in I : rank[i] = k BY <1>9 DEF Surjection
<1>11. \A i \in I : \A k : Cardinality({j \in I : j <= i}) = k <=> rank[i] = k OBVIOUS
<1> HIDE DEF rank, N
<1>12. \A k \in N : Nth(I, k) \in I /\ rank[Nth(I, k)] = k BY <1>10, <1>11 DEF Nth
<1>13. \A i \in I : Nth(I, rank[i]) = i /\ rank[i] \in N BY <1>12, <1>5, <1>6
<1> QED BY <1>2, <1>12, <1>13 DEF N

\* What is kept of a list: its members at the places I, each once.
LEMMA KeptIs ==
  ASSUME NEW s, IsList(s), NEW I \in SUBSET DOMAIN s
  PROVE  LET t == Kept(s, I)
         IN  /\ IsList(t)
             /\ \E g \in [DOMAIN t -> I] :
                  /\ \A k \in DOMAIN t : t[k] = s[g[k]]
                  /\ \A j, k \in DOMAIN t : g[j] = g[k] => j = k
                  /\ \A i \in I : \E k \in DOMAIN t : g[k] = i
<1> DEFINE t == Kept(s, I)
           n == Cardinality(I)
           g == [k \in 1..n |-> Nth(I, k)]
<1>1. I \in SUBSET (1..Len(s)) /\ Len(s) \in Nat BY ListIs
<1>2. /\ n \in Nat
      /\ \A k \in 1..n : Nth(I, k) \in I
      /\ \A j, k \in 1..n : Nth(I, j) = Nth(I, k) => j = k
      /\ \A i \in I : \E k \in 1..n : Nth(I, k) = i
  BY <1>1, NthIs
<1>3. t = [k \in 1..n |-> s[Nth(I, k)]] BY DEF Kept
<1> HIDE DEF n, t
<1>4. DOMAIN t = 1..n /\ t = [k \in 1..n |-> t[k]] BY <1>3
<1>5. IsList(t) BY <1>2, <1>4, FunctionIsList
<1>6. g \in [DOMAIN t -> I] /\ \A k \in DOMAIN t : t[k] = s[g[k]] BY <1>2, <1>3, <1>4
<1>7. /\ \A j, k \in DOMAIN t : g[j] = g[k] => j = k
      /\ \A i \in I : \E k \in DOMAIN t : g[k] = i
  BY <1>2, <1>4
<1> HIDE DEF g
<1>8. \E h \in [DOMAIN t -> I] :
         /\ \A k \in DOMAIN t : t[k] = s[h[k]]
         /\ \A j, k \in DOMAIN t : h[j] = h[k] => j = k
         /\ \A i \in I : \E k \in DOMAIN t : h[k] = i
  BY <1>6, <1>7
<1> QED BY <1>5, <1>8 DEF t

\* SelectInSeq: the first place of a kind, or 0.
LEMMA FirstIs ==
  ASSUME NEW n \in Nat, NEW I \in SUBSET (1..n)
  PROVE  LET i == IF I # {} THEN Min(I) ELSE 0
         IN  (i = 0 <=> I = {}) /\ (i # 0 => i \in I)
<1>1. CASE I # {}
  <2>0. I \in SUBSET Nat OBVIOUS
  <2>1. PICK i \in I : \A j \in I : i <= j BY <2>0, <1>1, Singles!Least
  <2>2. Min(I) \in I BY <2>1 DEF Min
  <2> QED BY <1>1, <2>2
<1>2. CASE I = {} BY <1>2
<1> QED BY <1>1, <1>2

LEMMA LastIs ==
  ASSUME NEW n \in Nat, NEW I \in SUBSET (1..n), I # {}
  PROVE  Max(I) \in I
BY Singles!MaxOf DEF Singles!Max, Max

-----------------------------------------------------------------------------
(* Extraction files.                                                       *)

\* What a file names: as an entity, and as the end of a relationship.
HasLabel(f, l) == \E i \in DOMAIN f.entities : f.entities[i].label = l
Names(f, l) == \E i \in DOMAIN f.relationships : l \in {f.relationships[i].source, f.relationships[i].target}

LEMMA FindEntityIs ==
  ASSUME NEW f, IsFile(f), NEW l
  PROVE  LET i == FindEntity(f, l)
         IN  /\ i = 0 <=> ~ HasLabel(f, l)
             /\ i # 0 => i \in DOMAIN f.entities /\ f.entities[i].label = l
<1> DEFINE n == Len(f.entities)
           I == {i \in 1..n : f.entities[i].label = l}
<1>1. n \in Nat /\ DOMAIN f.entities = 1..n BY ListIs DEF IsFile
<1>2. I \in SUBSET (1..n) OBVIOUS
<1>3. FindEntity(f, l) = IF I # {} THEN Min(I) ELSE 0 BY DEF FindEntity, SelectInSeq
<1> HIDE DEF n
<1>4. (FindEntity(f, l) = 0 <=> I = {}) /\ (FindEntity(f, l) # 0 => FindEntity(f, l) \in I)
  <2> HIDE DEF I
  <2> QED BY <1>1, <1>2, <1>3, FirstIs
<1> QED BY <1>1, <1>4 DEF HasLabel

LEMMA FindRelationshipIs ==
  ASSUME NEW f, IsFile(f), NEW key
  PROVE  LET i == FindRelationship(f, key)
         IN  /\ i = 0 => \A j \in DOMAIN f.relationships : Key(f.relationships[j]) # key
             /\ i # 0 => i \in DOMAIN f.relationships /\ Key(f.relationships[i]) = key
<1> DEFINE n == Len(f.relationships)
           I == {i \in 1..n : Key(f.relationships[i]) = key}
<1>1. n \in Nat /\ DOMAIN f.relationships = 1..n BY ListIs DEF IsFile
<1>2. I \in SUBSET (1..n) OBVIOUS
<1>3. FindRelationship(f, key) = IF I # {} THEN Min(I) ELSE 0 BY DEF FindRelationship, SelectInSeq
<1> HIDE DEF n
<1>4. (FindRelationship(f, key) = 0 <=> I = {}) /\ (FindRelationship(f, key) # 0 => FindRelationship(f, key) \in I)
  <2> HIDE DEF I
  <2> QED BY <1>1, <1>2, <1>3, FirstIs
<1> QED BY <1>1, <1>4

LEMMA ResolveIs ==
  ASSUME NEW f, IsFile(f), NEW l, Resolve(f, l) # 0
  PROVE  Resolve(f, l) \in DOMAIN f.entities
<1> DEFINE n == Len(f.entities)
           I == {i \in 1..n : Fold[f.entities[i].label] = Fold[l]}
           J == {i \in 1..n : \E a \in f.entities[i].aliases : Fold[a] = Fold[l]}
<1>1. n \in Nat /\ DOMAIN f.entities = 1..n BY ListIs DEF IsFile
<1>2. I \in SUBSET (1..n) /\ J \in SUBSET (1..n) OBVIOUS
<1>3. Resolve(f, l) = IF I # {} THEN Max(I) ELSE IF J # {} THEN Min(J) ELSE 0
  <2>1. (\E i \in DOMAIN f.entities : Fold[f.entities[i].label] = Fold[l]) <=> I # {} BY <1>1
  <2> QED BY <2>1 DEF Resolve, SelectInSeq, SelectLastInSeq
<1> HIDE DEF n, I, J
<1>4. I # {} => Max(I) \in I BY <1>1, <1>2, LastIs
<1>5. J # {} => Min(J) \in J \/ Min(J) = 0 BY <1>1, <1>2, FirstIs
<1> QED BY <1>1, <1>2, <1>3, <1>4, <1>5

LEMMA MissingIs ==
  ASSUME NEW f, IsFile(f)
  PROVE  \A l : l \in Missing(f) <=> Names(f, l) /\ ~ HasLabel(f, l)
<1> SUFFICES ASSUME NEW l PROVE l \in Missing(f) <=> Names(f, l) /\ ~ HasLabel(f, l) OBVIOUS
<1>1. FindEntity(f, l) = 0 <=> ~ HasLabel(f, l) BY FindEntityIs
<1>2. l \in UNION {{r.source, r.target} : r \in Relationships(f)} <=> Names(f, l)
  BY DEF Names, Relationships, ToSet
<1> QED BY <1>1, <1>2 DEF Missing

LEMMA DoubledIs ==
  ASSUME NEW s
  PROVE  \A x : x \in Doubled(s) <=> \E i, j \in DOMAIN s : i # j /\ s[i] = x /\ s[j] = x
BY DEF Doubled

\* Nothing is there twice in a list whose members are those of another, each at most once.
LEMMA PartsAreNotDoubled ==
  ASSUME NEW s, NEW t, NEW g \in [DOMAIN t -> DOMAIN s],
         \A k \in DOMAIN t : t[k] = s[g[k]],
         \A j, k \in DOMAIN t : g[j] = g[k] => j = k
  PROVE  Doubled(t) \subseteq Doubled(s)
<1> SUFFICES ASSUME NEW x \in Doubled(t) PROVE x \in Doubled(s) OBVIOUS
<1>1. PICK i, j \in DOMAIN t : i # j /\ t[i] = x /\ t[j] = x BY DoubledIs
<1>2. g[i] # g[j] /\ s[g[i]] = x /\ s[g[j]] = x /\ g[i] \in DOMAIN s /\ g[j] \in DOMAIN s BY <1>1
<1> QED BY <1>2, DoubledIs

-----------------------------------------------------------------------------
(* One correction.                                                         *)

\* A file in order that has none of the faults that f has not.
Better(h, f) == IsFile(h) /\ NoWorse(h, f)

LEMMA NothingChanges ==
  ASSUME NEW f, IsFile(f)
  PROVE  Better(f, f)
BY DEF Better, NoWorse

\* So a file may be compared with the original after any number of corrections.
LEMMA BetterIsTransitive ==
  ASSUME NEW f, NEW h, NEW k, Better(h, f), Better(k, h)
  PROVE  Better(k, f)
BY DEF Better, NoWorse

\* What a change to the entities has to show.
LEMMA EntitiesChange ==
  ASSUME NEW f, IsFile(f), NEW es, IsList(es), \A i \in DOMAIN es : IsEntity(es[i]),
         NEW h, h = [entities |-> es, relationships |-> f.relationships],
         \A l : HasLabel(f, l) => HasLabel(h, l),
         Doubled(Labels(h)) \subseteq Doubled(Labels(f))
  PROVE  Better(h, f)
<1>1. IsFile(h) BY DEF IsFile
<1>2. Keys(h) = Keys(f) BY DEF Keys
<1>3. \A l : Names(h, l) <=> Names(f, l) BY DEF Names
<1>4. Missing(h) \subseteq Missing(f) BY <1>1, <1>3, MissingIs
<1> QED BY <1>1, <1>2, <1>4 DEF Better, NoWorse

\* What a change to the relationships has to show.
LEMMA RelationshipsChange ==
  ASSUME NEW f, IsFile(f), NEW rs, IsList(rs), \A i \in DOMAIN rs : IsRelationship(rs[i]),
         NEW h, h = [entities |-> f.entities, relationships |-> rs],
         \A i \in DOMAIN rs : \A l \in {rs[i].source, rs[i].target} : Names(f, l) \/ HasLabel(f, l),
         Doubled(Keys(h)) \subseteq Doubled(Keys(f))
  PROVE  Better(h, f)
<1>1. IsFile(h) BY DEF IsFile
<1>2. Labels(h) = Labels(f) BY DEF Labels
<1>3. \A l : HasLabel(h, l) <=> HasLabel(f, l) BY DEF HasLabel
<1>4. \A l : Names(h, l) => Names(f, l) \/ HasLabel(f, l) BY DEF Names
<1>5. Missing(h) \subseteq Missing(f) BY <1>1, <1>3, <1>4, MissingIs
<1> QED BY <1>1, <1>2, <1>5 DEF Better, NoWorse

\* The ends of a relationship of the file.
LEMMA EndsAreNamed ==
  ASSUME NEW f, NEW i \in DOMAIN f.relationships
  PROVE  Names(f, f.relationships[i].source) /\ Names(f, f.relationships[i].target)
BY DEF Names

\* A property update changes the label of nothing (applyProperty).
LEMMA UpdateIsBetter ==
  ASSUME NEW f, IsFile(f), NEW c
  PROVE  Better(UpdateProperty(f, c).file, f)
<1>1. CASE c.item = "entity"
  <2> DEFINE i == FindEntity(f, c.at)
             h == [f EXCEPT !.entities[i].value = c.value]
  <2>1. CASE i = 0 BY <1>1, <2>1, NothingChanges DEF UpdateProperty, Outcome
  <2>2. CASE i # 0
    <3> DEFINE e == [f.entities[i] EXCEPT !.value = c.value]
               es == [f.entities EXCEPT ![i] = e]
    <3>1. i \in DOMAIN f.entities BY <2>2, FindEntityIs
    <3> HIDE DEF i
    <3>2. h = [entities |-> es, relationships |-> f.relationships] BY DEF IsFile
    <3>3. IsEntity(f.entities[i]) BY <3>1 DEF IsFile
    <3>4. IsEntity(e) /\ e.label = f.entities[i].label BY <3>3 DEF IsEntity
    <3> HIDE DEF e
    <3>5. /\ IsList(es) /\ Len(es) = Len(f.entities)
          /\ \A j \in DOMAIN f.entities : es[j] = IF j = i THEN e ELSE f.entities[j]
      BY <3>1, ExceptIs DEF IsFile
    <3>6. DOMAIN es = DOMAIN f.entities BY <3>5, ListIs DEF IsFile
    <3> HIDE DEF es, h
    <3>7. \A j \in DOMAIN es : IsEntity(es[j]) /\ es[j].label = f.entities[j].label
      BY <3>4, <3>5, <3>6 DEF IsFile
    <3>8. h.entities = es BY <3>2
    <3>9. Labels(h) = Labels(f) BY <3>6, <3>7, <3>8 DEF Labels
    <3>10. \A l : HasLabel(f, l) => HasLabel(h, l) BY <3>6, <3>7, <3>8 DEF HasLabel
    <3>11. Better(h, f) BY <3>2, <3>5, <3>7, <3>9, <3>10, EntitiesChange
    <3> QED BY <1>1, <2>2, <3>11 DEF UpdateProperty, Outcome, h, i
  <2> QED BY <2>1, <2>2
<1>2. CASE c.item # "entity"
  <2> DEFINE i == FindRelationship(f, c.at)
             h == [f EXCEPT !.relationships[i].value = c.value]
  <2>1. CASE i = 0 BY <1>2, <2>1, NothingChanges DEF UpdateProperty, Outcome
  <2>2. CASE i # 0
    <3> DEFINE r == [f.relationships[i] EXCEPT !.value = c.value]
               rs == [f.relationships EXCEPT ![i] = r]
    <3>1. i \in DOMAIN f.relationships BY <2>2, FindRelationshipIs
    <3> HIDE DEF i
    <3>2. h = [entities |-> f.entities, relationships |-> rs] BY DEF IsFile
    <3>3. IsRelationship(f.relationships[i]) BY <3>1 DEF IsFile
    <3>4. /\ IsRelationship(r) /\ Key(r) = Key(f.relationships[i])
          /\ r.source = f.relationships[i].source /\ r.target = f.relationships[i].target
      BY <3>3 DEF IsRelationship, Key
    <3> HIDE DEF r
    <3>5. /\ IsList(rs) /\ Len(rs) = Len(f.relationships)
          /\ \A j \in DOMAIN f.relationships : rs[j] = IF j = i THEN r ELSE f.relationships[j]
      BY <3>1, ExceptIs DEF IsFile
    <3>6. DOMAIN rs = DOMAIN f.relationships BY <3>5, ListIs DEF IsFile
    <3> HIDE DEF rs, h
    <3>7. \A j \in DOMAIN rs : /\ IsRelationship(rs[j]) /\ Key(rs[j]) = Key(f.relationships[j])
                               /\ {rs[j].source, rs[j].target} = {f.relationships[j].source, f.relationships[j].target}
      BY <3>4, <3>5, <3>6 DEF IsFile
    <3>8. h.relationships = rs BY <3>2
    <3>9. Keys(h) = Keys(f) BY <3>6, <3>7, <3>8 DEF Keys
    <3>10. \A j \in DOMAIN rs : \A l \in {rs[j].source, rs[j].target} : Names(f, l) \/ HasLabel(f, l)
      BY <3>6, <3>7, EndsAreNamed
    <3>11. Better(h, f) BY <3>2, <3>5, <3>7, <3>9, <3>10, RelationshipsChange
    <3> QED BY <1>2, <2>2, <3>11 DEF UpdateProperty, Outcome, h, i
  <2> QED BY <2>1, <2>2
<1> QED BY <1>1, <1>2

\* A part of the relationships, and of the entities with the relationships that name them.
LEMMA FewerRelationships ==
  ASSUME NEW f, IsFile(f), NEW I \in SUBSET DOMAIN f.relationships,
         NEW h, h = [entities |-> f.entities, relationships |-> Kept(f.relationships, I)]
  PROVE  /\ Better(h, f)
         /\ \A l : Names(h, l) => \E i \in I : l \in {f.relationships[i].source, f.relationships[i].target}
<1> DEFINE rs == Kept(f.relationships, I)
<1>1. PICK g \in [DOMAIN rs -> I] : /\ \A k \in DOMAIN rs : rs[k] = f.relationships[g[k]]
                                    /\ \A j, k \in DOMAIN rs : g[j] = g[k] => j = k
  BY KeptIs DEF IsFile
<1>2. IsList(rs) BY KeptIs DEF IsFile
<1> HIDE DEF rs
<1>3. h.relationships = rs BY DEF rs
<1>4. \A k \in DOMAIN rs : g[k] \in I /\ g[k] \in DOMAIN f.relationships /\ IsRelationship(rs[k])
  BY <1>1 DEF IsFile
<1>5. \A k \in DOMAIN rs : \A l \in {rs[k].source, rs[k].target} : Names(f, l)
  BY <1>1, <1>4, EndsAreNamed
<1>6. Doubled(Keys(h)) \subseteq Doubled(Keys(f))
  <2>1. /\ DOMAIN Keys(h) = DOMAIN rs /\ \A k \in DOMAIN rs : Keys(h)[k] = Key(rs[k])
        /\ DOMAIN Keys(f) = DOMAIN f.relationships
        /\ \A k \in DOMAIN f.relationships : Keys(f)[k] = Key(f.relationships[k])
    BY <1>3 DEF Keys
  <2>2. g \in [DOMAIN Keys(h) -> DOMAIN Keys(f)] BY <2>1, <1>4
  <2>3. \A k \in DOMAIN Keys(h) : Keys(h)[k] = Keys(f)[g[k]] BY <2>1, <1>1, <1>4
  <2> QED BY <2>1, <2>2, <2>3, <1>1, PartsAreNotDoubled
<1>7. Better(h, f)
  <2>1. h = [entities |-> f.entities, relationships |-> rs] BY DEF rs
  <2> QED BY <2>1, <1>2, <1>4, <1>5, <1>6, RelationshipsChange
<1>8. \A l : Names(h, l) => \E i \in I : l \in {f.relationships[i].source, f.relationships[i].target}
  BY <1>1, <1>3, <1>4 DEF Names
<1> QED BY <1>7, <1>8

\* An entity goes with the relationships at its label; others with the label's spelling
\* are still named by their own (applyDelete).
LEMMA DeleteEntityIsBetter ==
  ASSUME NEW f, IsFile(f), NEW l
  PROVE  Better(DeleteEntity(f, l), f)
<1> DEFINE I == {i \in DOMAIN f.entities : f.entities[i].label # l}
           J == {i \in DOMAIN f.relationships : l \notin {f.relationships[i].source, f.relationships[i].target}}
           es == Kept(f.entities, I)
           m == [entities |-> f.entities, relationships |-> Kept(f.relationships, J)]
           h == [entities |-> es, relationships |-> m.relationships]
<1>1. DeleteEntity(f, l) = h BY DEF DeleteEntity
<1>2. J \in SUBSET DOMAIN f.relationships /\ I \in SUBSET DOMAIN f.entities OBVIOUS
<1>3. Better(m, f) /\ ~ Names(m, l)
  <2>1. \A k : Names(m, k) => \E i \in J : k \in {f.relationships[i].source, f.relationships[i].target}
    BY <1>2, FewerRelationships
  <2>2. Better(m, f) BY <1>2, FewerRelationships
  <2> HIDE DEF m
  <2> QED BY <2>1, <2>2
<1>4. PICK g \in [DOMAIN es -> I] : /\ \A k \in DOMAIN es : es[k] = f.entities[g[k]]
                                    /\ \A j, k \in DOMAIN es : g[j] = g[k] => j = k
                                    /\ \A i \in I : \E k \in DOMAIN es : g[k] = i
  <2>1. IsList(f.entities) BY DEF IsFile
  <2> HIDE DEF I, m
  <2> QED BY <2>1, <1>2, KeptIs
<1>5. IsList(es) BY <1>2, KeptIs DEF IsFile
<1>6. m.entities = f.entities OBVIOUS
<1>6a. h.entities = es /\ h.relationships = m.relationships OBVIOUS
<1> HIDE DEF es, m, h
<1>7. \A k \in DOMAIN es : g[k] \in I /\ g[k] \in DOMAIN f.entities /\ IsEntity(es[k])
  BY <1>4, <1>2 DEF IsFile
<1>8. IsFile(h)
  <2>1. h = [entities |-> h.entities, relationships |-> h.relationships] BY DEF h
  <2>2. /\ IsList(m.relationships) /\ \A i \in DOMAIN m.relationships : IsRelationship(m.relationships[i])
    BY <1>3 DEF Better, IsFile
  <2> QED BY <2>1, <2>2, <1>5, <1>6a, <1>7 DEF IsFile
<1>9. Keys(h) = Keys(m) BY <1>6a DEF Keys
<1>10. Doubled(Labels(h)) \subseteq Doubled(Labels(f))
  <2>1. /\ DOMAIN Labels(h) = DOMAIN es /\ \A k \in DOMAIN es : Labels(h)[k] = Fold[es[k].label]
        /\ DOMAIN Labels(f) = DOMAIN f.entities
        /\ \A k \in DOMAIN f.entities : Labels(f)[k] = Fold[f.entities[k].label]
    BY <1>6a DEF Labels
  <2>2. g \in [DOMAIN Labels(h) -> DOMAIN Labels(f)] BY <2>1, <1>7
  <2>3. \A k \in DOMAIN Labels(h) : Labels(h)[k] = Labels(f)[g[k]] BY <2>1, <1>4, <1>7
  <2> QED BY <2>1, <2>2, <2>3, <1>4, PartsAreNotDoubled
<1>11. \A k : HasLabel(f, k) /\ k # l => HasLabel(h, k)
  <2> SUFFICES ASSUME NEW i \in DOMAIN f.entities, f.entities[i].label # l
               PROVE  HasLabel(h, f.entities[i].label)
    BY DEF HasLabel
  <2>1. PICK k \in DOMAIN es : g[k] = i BY <1>4
  <2>2. es[k].label = f.entities[i].label BY <2>1, <1>4
  <2> QED BY <2>2, <1>6a DEF HasLabel
<1>12. Missing(h) \subseteq Missing(f)
  <2> SUFFICES ASSUME NEW k \in Missing(h) PROVE k \in Missing(f) OBVIOUS
  <2>1. Names(h, k) /\ ~ HasLabel(h, k) BY <1>8, MissingIs
  <2>2. Names(m, k) BY <2>1, <1>6a DEF Names
  <2>3. ~ HasLabel(f, k) BY <2>1, <2>2, <1>3, <1>11
  <2>4. ~ HasLabel(m, k) BY <2>3, <1>6 DEF HasLabel
  <2>5. k \in Missing(m) BY <2>2, <2>4, <1>3, MissingIs DEF Better
  <2> QED BY <2>5, <1>3 DEF Better, NoWorse
<1>13. Doubled(Keys(h)) \subseteq Doubled(Keys(f)) BY <1>9, <1>3 DEF Better, NoWorse
<1> QED BY <1>1, <1>8, <1>10, <1>12, <1>13 DEF Better, NoWorse

\* applyDelete, for a relationship as well.
LEMMA DeleteIsBetter ==
  ASSUME NEW f, IsFile(f), NEW c
  PROVE  Better(Delete(f, c).file, f)
<1>1. CASE c.item = "entity"
  BY <1>1, DeleteEntityIsBetter, NothingChanges DEF Delete, Outcome
<1>2. CASE c.item # "entity"
  <2> DEFINE I == {i \in DOMAIN f.relationships : Key(f.relationships[i]) # c.at}
             h == [entities |-> f.entities, relationships |-> Kept(f.relationships, I)]
  <2>1. [f EXCEPT !.relationships = Kept(@, {i \in DOMAIN @ : Key(@[i]) # c.at})] = h BY DEF IsFile
  <2>2. I \in SUBSET DOMAIN f.relationships OBVIOUS
  <2>3. Better(h, f) BY <2>2, FewerRelationships
  <2> HIDE DEF h
  <2> QED BY <1>2, <2>1, <2>3, NothingChanges DEF Delete, Outcome
<1> QED BY <1>1, <1>2

\* What is added to a list without being in it is not there twice.
LEMMA AddedOnce ==
  ASSUME NEW s, NEW t, NEW n, n \notin DOMAIN s, DOMAIN t = DOMAIN s \cup {n},
         \A k \in DOMAIN s : t[k] = s[k], \A k \in DOMAIN s : s[k] # t[n]
  PROVE  Doubled(t) \subseteq Doubled(s)
<1> SUFFICES ASSUME NEW x \in Doubled(t) PROVE x \in Doubled(s) OBVIOUS
<1>1. PICK i, j \in DOMAIN t : i # j /\ t[i] = x /\ t[j] = x BY DoubledIs
<1>2. i # n /\ j # n BY <1>1
<1>3. i \in DOMAIN s /\ j \in DOMAIN s /\ s[i] = x /\ s[j] = x BY <1>1, <1>2
<1> QED BY <1>1, <1>3, DoubledIs

\* A creation looks for its label and type first (applyCreateEntity).
LEMMA CreateEntityIsBetter ==
  ASSUME NEW f, IsFile(f), NEW c, IsEntity(c.new)
  PROVE  Better(CreateEntity(f, c).file, f)
<1> DEFINE es == f.entities
           n == Len(es)
           I == {i \in 1..n : Fold[es[i].label] = Fold[c.new.label]}
           i == SelectInSeq(f.entities, LAMBDA e : Fold[e.label] = Fold[c.new.label])
           h == [f EXCEPT !.entities = Append(@, c.new)]
<1>1. n \in Nat /\ DOMAIN es = 1..n BY ListIs DEF IsFile
<1>2. i = 0 => \A j \in DOMAIN es : Fold[es[j].label] # Fold[c.new.label]
  <2>1. i = IF I # {} THEN Min(I) ELSE 0 BY DEF SelectInSeq
  <2>2. I \in SUBSET (1..n) OBVIOUS
  <2> HIDE DEF i
  <2>3. i = 0 => I = {}
    <3> HIDE DEF I, n
    <3> QED BY <2>1, <2>2, <1>1, FirstIs
  <2> QED BY <2>3, <1>1
<1>3. CreateEntity(f, c).file = f \/ (i = 0 /\ CreateEntity(f, c).file = h)
  BY DEF CreateEntity, Outcome
<1>4. ASSUME i = 0 PROVE Better(h, f)
  <2> HIDE DEF i
  <2> DEFINE fs == Append(es, c.new)
  <2>1. /\ IsList(fs) /\ Len(fs) = n + 1
        /\ \A j \in 1..(n + 1) : fs[j] = IF j <= n THEN es[j] ELSE c.new
    BY AppendIs DEF IsFile
  <2>2. h = [entities |-> fs, relationships |-> f.relationships] BY DEF IsFile
  <2>3. DOMAIN fs = 1..(n + 1) BY <2>1, ListIs
  <2> HIDE DEF fs, h
  <2>4. \A j \in DOMAIN fs : IsEntity(fs[j]) BY <2>1, <2>3, <1>1 DEF IsFile
  <2>5. h.entities = fs BY <2>2
  <2>6. \A l : HasLabel(f, l) => HasLabel(h, l)
    <3> SUFFICES ASSUME NEW j \in DOMAIN f.entities PROVE HasLabel(h, f.entities[j].label)
      BY DEF HasLabel
    <3>1. j \in DOMAIN fs /\ fs[j] = es[j] BY <1>1, <2>1, <2>3
    <3> QED BY <3>1, <2>5 DEF HasLabel
  <2>7. Doubled(Labels(h)) \subseteq Doubled(Labels(f))
    <3>1. DOMAIN Labels(f) = 1..n /\ \A j \in 1..n : Labels(f)[j] = Fold[es[j].label]
      BY <1>1 DEF Labels
    <3>2. DOMAIN Labels(h) = 1..(n + 1) /\ \A j \in 1..(n + 1) : Labels(h)[j] = Fold[fs[j].label]
      BY <2>3, <2>5 DEF Labels
    <3>3. n + 1 \notin 1..n /\ 1..(n + 1) = 1..n \cup {n + 1} /\ n + 1 \in 1..(n + 1) BY <1>1
    <3>4. \A j \in 1..n : Labels(h)[j] = Labels(f)[j] BY <3>1, <3>2, <3>3, <2>1, <1>1
    <3>5. fs[n + 1] = c.new BY <2>1, <3>3, <1>1
    <3>6. \A j \in 1..n : Labels(f)[j] # Labels(h)[n + 1] BY <3>1, <3>2, <3>3, <3>5, <1>1, <1>2, <1>4
    <3> HIDE DEF n
    <3> QED BY <3>1, <3>2, <3>3, <3>4, <3>6, AddedOnce
  <2> QED BY <2>1, <2>2, <2>4, <2>6, <2>7, EntitiesChange
<1> QED BY <1>3, <1>4, NothingChanges

\* Its ends are the labels of entities found, and its key is looked for (applyCreateRelationship).
LEMMA CreateRelationshipIsBetter ==
  ASSUME NEW f, IsFile(f), NEW c, IsRelationship(c.new)
  PROVE  Better(CreateRelationship(f, c).file, f)
<1> DEFINE rs == f.relationships
           n == Len(rs)
           s == Resolve(f, c.new.source)
           t == Resolve(f, c.new.target)
           new == [c.new EXCEPT !.source = f.entities[s].label, !.target = f.entities[t].label]
           h == [f EXCEPT !.relationships = Append(@, new)]
<1>1. n \in Nat /\ DOMAIN rs = 1..n BY ListIs DEF IsFile
<1>2. \/ CreateRelationship(f, c).file = f
      \/ /\ s # 0 /\ t # 0 /\ FindRelationship(f, Key(new)) = 0
         /\ CreateRelationship(f, c).file = h
  BY DEF CreateRelationship, Outcome
<1>3. ASSUME s # 0, t # 0, FindRelationship(f, Key(new)) = 0 PROVE Better(h, f)
  <2>1. s \in DOMAIN f.entities /\ t \in DOMAIN f.entities BY <1>3, ResolveIs
  <2>2. HasLabel(f, f.entities[s].label) /\ HasLabel(f, f.entities[t].label) BY <2>1 DEF HasLabel
  <2>3. IsRelationship(new) /\ new.source = f.entities[s].label /\ new.target = f.entities[t].label
    <3> DEFINE a == f.entities[s].label
               b == f.entities[t].label
               r == [source |-> a, kind |-> c.new.kind, target |-> b, value |-> c.new.value]
    <3>1. c.new = [source |-> c.new.source, kind |-> c.new.kind, target |-> c.new.target, value |-> c.new.value]
      BY DEF IsRelationship
    <3> HIDE DEF a, b
    <3>2. [c.new EXCEPT !.source = a, !.target = b] = r
      <4> DEFINE m == [c.new EXCEPT !.source = a]
                 o == [source |-> a, kind |-> c.new.kind, target |-> c.new.target, value |-> c.new.value]
      <4>1. m = o BY <3>1
      <4>2. [o EXCEPT !.target = b] = r OBVIOUS
      <4>3. [m EXCEPT !.target = b] = r BY <4>1, <4>2
      <4> QED BY <4>3
    <3>3. IsRelationship(r) /\ r.source = a /\ r.target = b BY DEF IsRelationship
    <3> HIDE DEF r
    <3> QED BY <3>2, <3>3 DEF a, b
  <2>4. \A j \in DOMAIN rs : Key(rs[j]) # Key(new) BY <1>3, FindRelationshipIs
  <2> DEFINE qs == Append(rs, new)
  <2>5. h = [entities |-> f.entities, relationships |-> qs] BY DEF IsFile
  <2> HIDE DEF new, h
  <2>6. /\ IsList(qs) /\ Len(qs) = n + 1
        /\ \A j \in 1..(n + 1) : qs[j] = IF j <= n THEN rs[j] ELSE new
    BY AppendIs DEF IsFile
  <2>7. DOMAIN qs = 1..(n + 1) BY <2>6, ListIs
  <2> HIDE DEF qs
  <2>8. \A j \in DOMAIN qs : IsRelationship(qs[j]) BY <2>3, <2>6, <2>7, <1>1 DEF IsFile
  <2>9. h.relationships = qs BY <2>5
  <2>10. \A j \in DOMAIN qs : \A l \in {qs[j].source, qs[j].target} : Names(f, l) \/ HasLabel(f, l)
    <3> SUFFICES ASSUME NEW j \in DOMAIN qs, NEW l \in {qs[j].source, qs[j].target}
                 PROVE  Names(f, l) \/ HasLabel(f, l)
      OBVIOUS
    <3>1. CASE j <= n
      <4>1. j \in DOMAIN f.relationships /\ qs[j] = f.relationships[j] BY <3>1, <1>1, <2>6, <2>7
      <4> QED BY <4>1, EndsAreNamed
    <3>2. CASE ~ j <= n
      <4>1. qs[j] = new BY <3>2, <2>6, <2>7
      <4> QED BY <4>1, <2>2, <2>3
    <3> QED BY <3>1, <3>2
  <2>11. Doubled(Keys(h)) \subseteq Doubled(Keys(f))
    <3>1. DOMAIN Keys(f) = 1..n /\ \A j \in 1..n : Keys(f)[j] = Key(rs[j])
      BY <1>1 DEF Keys
    <3>2. DOMAIN Keys(h) = 1..(n + 1) /\ \A j \in 1..(n + 1) : Keys(h)[j] = Key(qs[j])
      BY <2>7, <2>9 DEF Keys
    <3>3. n + 1 \notin 1..n /\ 1..(n + 1) = 1..n \cup {n + 1} /\ n + 1 \in 1..(n + 1) BY <1>1
    <3>4. \A j \in 1..n : Keys(h)[j] = Keys(f)[j] BY <3>1, <3>2, <3>3, <2>6, <1>1
    <3>5. qs[n + 1] = new BY <2>6, <3>3, <1>1
    <3>6. \A j \in 1..n : Keys(f)[j] # Keys(h)[n + 1] BY <3>1, <3>2, <3>3, <3>5, <1>1, <2>4
    <3> HIDE DEF n
    <3> QED BY <3>1, <3>2, <3>3, <3>4, <3>6, AddedOnce
  <2> QED BY <2>5, <2>6, <2>8, <2>10, <2>11, RelationshipsChange
<1> QED BY <1>2, <1>3, NothingChanges

\* Its new end is the label of an entity found; a relationship that the move would double
\* goes instead (applyRetarget).
LEMMA RetargetIsBetter ==
  ASSUME NEW f, IsFile(f), NEW c, c.end \in {"source", "target"}
  PROVE  Better(Retarget(f, c).file, f)
<1> DEFINE rs == f.relationships
           n == Len(rs)
           i == FindRelationship(f, c.at)
           to == Resolve(f, c.to)
           moved == [rs[i] EXCEPT ![c.end] = f.entities[to].label]
           h == [f EXCEPT !.relationships[i] = moved]
           k == [f EXCEPT !.relationships = RemoveAt(@, i)]
           There == \E j \in DOMAIN f.relationships \ {i} : Key(f.relationships[j]) = Key(moved)
<1>1. n \in Nat /\ DOMAIN rs = 1..n BY ListIs DEF IsFile
<1>2. \/ Retarget(f, c).file = f
      \/ i # 0 /\ to # 0 /\ Retarget(f, c).file = IF There THEN k ELSE h
  BY DEF Retarget, Outcome
<1>3. ASSUME i # 0 PROVE Better(k, f)
  <2> DEFINE qs == RemoveAt(rs, i)
  <2>1. i \in 1..n BY <1>1, <1>3, FindRelationshipIs
  <2>2. k = [entities |-> f.entities, relationships |-> qs] BY DEF IsFile
  <2> HIDE DEF i, k
  <2>3. /\ IsList(qs) /\ Len(qs) = n - 1
        /\ \A j \in 1..(n - 1) : qs[j] = IF j < i THEN rs[j] ELSE rs[j + 1]
    BY <1>1, <2>1, RemoveAtIs DEF IsFile
  <2>4. DOMAIN qs = 1..(n - 1) BY <2>3, ListIs
  <2> HIDE DEF qs
  <2>5. k.relationships = qs BY <2>2
  <2> DEFINE g == [j \in 1..(n - 1) |-> IF j < i THEN j ELSE j + 1]
  <2>6. \A j \in 1..(n - 1) : g[j] \in 1..n /\ qs[j] = rs[g[j]] BY <2>1, <2>3, <1>1
  <2>7. \A j, l \in 1..(n - 1) : g[j] = g[l] => j = l BY <2>1, <1>1
  <2>8. g \in [1..(n - 1) -> 1..n] BY <2>6
  <2> HIDE DEF g
  <2>9. \A j \in DOMAIN qs : IsRelationship(qs[j]) BY <2>4, <2>6, <1>1 DEF IsFile
  <2>10. \A j \in DOMAIN qs : \A l \in {qs[j].source, qs[j].target} : Names(f, l) \/ HasLabel(f, l)
    BY <2>4, <2>6, <1>1, EndsAreNamed
  <2>11. Doubled(Keys(k)) \subseteq Doubled(Keys(f))
    <3>1. DOMAIN Keys(f) = 1..n /\ \A j \in 1..n : Keys(f)[j] = Key(rs[j])
      BY <1>1 DEF Keys
    <3>2. DOMAIN Keys(k) = 1..(n - 1) /\ \A j \in 1..(n - 1) : Keys(k)[j] = Key(qs[j])
      BY <2>4, <2>5 DEF Keys
    <3>3. \A j \in 1..(n - 1) : Keys(k)[j] = Keys(f)[g[j]] BY <3>1, <3>2, <2>6
    <3>4. g \in [DOMAIN Keys(k) -> DOMAIN Keys(f)] BY <3>1, <3>2, <2>8
    <3>5. \A j, l \in DOMAIN Keys(k) : g[j] = g[l] => j = l BY <3>2, <2>7
    <3>6. \A j \in DOMAIN Keys(k) : Keys(k)[j] = Keys(f)[g[j]] BY <3>2, <3>3
    <3> QED BY <3>4, <3>5, <3>6, PartsAreNotDoubled
  <2> QED BY <2>2, <2>3, <2>9, <2>10, <2>11, RelationshipsChange
<1>4. ASSUME i # 0, to # 0, ~ There PROVE Better(h, f)
  <2> DEFINE qs == [rs EXCEPT ![i] = moved]
  <2>1. i \in 1..n BY <1>1, <1>4, FindRelationshipIs
  <2>2. h = [entities |-> f.entities, relationships |-> qs] BY DEF IsFile
  <2>3. to \in DOMAIN f.entities BY <1>4, ResolveIs
  <2> HIDE DEF i, h, to
  <2>4. HasLabel(f, f.entities[to].label) BY <2>3 DEF HasLabel
  <2>5. IsRelationship(rs[i]) BY <2>1, <1>1 DEF IsFile
  <2>6. IsRelationship(moved) /\ {moved.source, moved.target} \subseteq {rs[i].source, rs[i].target, f.entities[to].label}
    BY <2>5 DEF IsRelationship
  <2>7. \A j \in DOMAIN rs \ {i} : Key(rs[j]) # Key(moved) BY <1>4
  <2> HIDE DEF moved
  <2>8. /\ IsList(qs) /\ Len(qs) = n
        /\ \A j \in 1..n : qs[j] = IF j = i THEN moved ELSE rs[j]
    BY <1>1, <2>1, ExceptIs DEF IsFile
  <2>9. DOMAIN qs = 1..n BY <2>8, ListIs
  <2> HIDE DEF qs
  <2>10. h.relationships = qs BY <2>2
  <2>11. \A j \in DOMAIN qs : IsRelationship(qs[j]) BY <2>6, <2>8, <2>9, <1>1 DEF IsFile
  <2>12. \A j \in DOMAIN qs : \A l \in {qs[j].source, qs[j].target} : Names(f, l) \/ HasLabel(f, l)
    <3> SUFFICES ASSUME NEW j \in DOMAIN qs, NEW l \in {qs[j].source, qs[j].target}
                 PROVE  Names(f, l) \/ HasLabel(f, l)
      OBVIOUS
    <3>1. j \in DOMAIN f.relationships /\ i \in DOMAIN f.relationships BY <2>1, <2>9, <1>1
    <3>2. l \in {rs[j].source, rs[j].target} \/ l \in {rs[i].source, rs[i].target} \/ l = f.entities[to].label
      BY <2>6, <2>8, <2>9
    <3> QED BY <3>1, <3>2, <2>4, EndsAreNamed
  <2>13. Doubled(Keys(h)) \subseteq Doubled(Keys(f))
    <3>1. DOMAIN Keys(f) = 1..n /\ \A j \in 1..n : Keys(f)[j] = Key(rs[j])
      BY <1>1 DEF Keys
    <3>2. DOMAIN Keys(h) = 1..n /\ \A j \in 1..n : Keys(h)[j] = Key(qs[j])
      BY <2>9, <2>10 DEF Keys
    <3>3. \A j \in 1..n : j # i => Keys(h)[j] = Keys(f)[j] /\ Keys(h)[j] # Keys(h)[i]
      BY <3>1, <3>2, <2>1, <2>7, <2>8, <1>1
    <3> SUFFICES ASSUME NEW x \in Doubled(Keys(h)) PROVE x \in Doubled(Keys(f)) OBVIOUS
    <3>4. PICK j, l \in 1..n : j # l /\ Keys(h)[j] = x /\ Keys(h)[l] = x BY <3>2, DoubledIs
    <3>5. j # i /\ l # i BY <3>3, <3>4
    <3> QED BY <3>1, <3>3, <3>4, <3>5, DoubledIs
  <2> QED BY <2>2, <2>8, <2>11, <2>12, <2>13, RelationshipsChange
<1> QED BY <1>2, <1>3, <1>4, NothingChanges

\* Every correction leaves a file in order and no worse (applyOne).
LEMMA ApplyOneIsBetter ==
  ASSUME NEW f, IsFile(f), NEW c, IsCorrection(c)
  PROVE  Better(ApplyOne(f, c).file, f)
<1>1. CASE c.op = "update" BY <1>1, UpdateIsBetter DEF ApplyOne
<1>2. CASE c.op = "delete" BY <1>2, DeleteIsBetter DEF ApplyOne
<1>3. CASE c.op = "create"
  BY <1>3, CreateEntityIsBetter, CreateRelationshipIsBetter DEF ApplyOne, IsCorrection
<1>4. CASE c.op = "retarget" BY <1>4, RetargetIsBetter DEF ApplyOne, IsCorrection
<1> QED BY <1>1, <1>2, <1>3, <1>4 DEF IsCorrection


-----------------------------------------------------------------------------
(* A pass.                                                                 *)

LEMMA KeptOf ==
  ASSUME NEW s, IsList(s), NEW I \in SUBSET DOMAIN s
  PROVE  Kept(s, I) \in Seq(ToSet(s))
<1> DEFINE t == Kept(s, I)
<1>1. IsList(t) /\ \E g \in [DOMAIN t -> I] : \A k \in DOMAIN t : t[k] = s[g[k]] BY KeptIs
<1> HIDE DEF t
<1>2. PICK g \in [DOMAIN t -> I] : \A k \in DOMAIN t : t[k] = s[g[k]] BY <1>1
<1>3. \A k \in DOMAIN t : t[k] \in ToSet(s) BY <1>2 DEF ToSet
<1>4. Len(t) \in Nat /\ DOMAIN t = 1..Len(t) /\ t = [i \in 1..Len(t) |-> t[i]] BY <1>1, ListIs
<1>5. t \in [1..Len(t) -> ToSet(s)] BY <1>3, <1>4
<1>6. t \in Seq(ToSet(s)) BY <1>4, <1>5, SeqDef
<1> QED BY <1>6 DEF t

\* The order of precedence keeps to the members.
LEMMA PrecedenceIs ==
  ASSUME NEW s, IsList(s)
  PROVE  InPrecedence(s) \in Seq(ToSet(s))
<1> DEFINE Of(op) == Kept(s, {i \in DOMAIN s : s[i].op = op})
           C == ToSet(s)
<1>1. Of("create") \in Seq(C) /\ Of("retarget") \in Seq(C) /\ Of("update") \in Seq(C) /\ Of("delete") \in Seq(C)
  BY KeptOf
<1>2. InPrecedence(s) = Of("create") \o Of("retarget") \o Of("update") \o Of("delete") BY DEF InPrecedence
<1> HIDE DEF Of, C
<1> QED BY <1>1, <1>2 DEF C

\* One round of a pass: a correction by itself, the members of a group, a unit of either.
LEMMA SingleKeeps ==
  ASSUME NEW x, NEW pass, NEW c, IsCorrection(c), PassHolds(x, 0, pass),
         c.id \in {x.list[i].id : i \in DOMAIN x.list}
  PROVE  PassHolds(x, 0, Single(pass, c))
<1> DEFINE outcome == ApplyOne(pass.file, c)
<1>1. Better(outcome.file, pass.file) BY ApplyOneIsBetter DEF PassHolds
<1>2. IsFile(outcome.file) /\ NoWorse(outcome.file, x.file)
  BY <1>1 DEF Better, PassHolds, NoWorse
<1>3. Single(pass, c).file = outcome.file /\ Single(pass, c).done \subseteq pass.done \cup {c.id} BY DEF Single
<1> QED BY <1>2, <1>3 DEF PassHolds

LEMMA MembersKeep ==
  ASSUME NEW x, NEW pass, PassHolds(x, 0, pass), NEW s, AreCorrections(s),
         \A i \in DOMAIN s : s[i].id \in {x.list[j].id : j \in DOMAIN x.list}
  PROVE  PassHolds(x, 0, FoldLeft(Single, pass, InPrecedence(s)))
<1> DEFINE C == ToSet(s)
           t == InPrecedence(s)
<1>1. t \in Seq(C) BY PrecedenceIs DEF AreCorrections
<1>2. \A c \in C : IsCorrection(c) /\ c.id \in {x.list[j].id : j \in DOMAIN x.list}
  BY DEF AreCorrections, ToSet
<1> HIDE DEF C, t
<1>3. ASSUME NEW n \in 1..Len(t), NEW a, PassHolds(x, n - 1, a)
      PROVE  PassHolds(x, n, SingleStep(x, a, t[n]))
  <2>1. t[n] \in C BY <1>1
  <2>2. PassHolds(x, 0, a) BY <1>3 DEF PassHolds
  <2>3. PassHolds(x, 0, Single(a, t[n])) BY <2>1, <2>2, <1>2, SingleKeeps
  <2> QED BY <2>3 DEF PassHolds, SingleStep
<1>4. PassHolds(x, Len(t), Singles!Fold(x, pass, t)) BY <1>1, <1>3, Singles!FoldLeftKeeps
<1>5. Singles!Fold(x, pass, t) = FoldLeft(Single, pass, t)
  BY DEF Singles!Fold, Singles!FoldLeft, Singles!MapThenFoldSet, Singles!Max, Max, FoldLeft,
         MapThenFoldSet, SingleStep
<1> QED BY <1>4, <1>5 DEF PassHolds, t

LEMMA UnitKeeps ==
  ASSUME NEW x, AreCorrections(x.list), NEW pass, PassHolds(x, 0, pass), NEW i \in DOMAIN x.list
  PROVE  PassHolds(x, 0, UnitStep(x, pass, i))
<1> DEFINE s == MembersOf(x.list, i)
<1>1. CASE ~ FirstOf(x.list, i) BY <1>1 DEF UnitStep
<1>2. CASE FirstOf(x.list, i) /\ x.list[i].group = {}
  BY <1>2, SingleKeeps DEF UnitStep, AreCorrections
<1>3. CASE FirstOf(x.list, i) /\ x.list[i].group # {}
  <2>1. s \in Seq(ToSet(x.list)) BY KeptOf DEF MembersOf, AreCorrections
  <2>2. \A c \in ToSet(x.list) : IsCorrection(c) /\ c.id \in {x.list[j].id : j \in DOMAIN x.list}
    BY DEF AreCorrections, ToSet
  <2> DEFINE copy == FoldLeft(Single, pass, InPrecedence(s))
  <2>3. UnitStep(x, pass, i) \in {pass, copy} BY <1>3 DEF UnitStep, Group
  <2> HIDE DEF s
  <2>4. AreCorrections(s) /\ \A k \in DOMAIN s : s[k].id \in {x.list[j].id : j \in DOMAIN x.list}
    BY <2>1, <2>2, ListOf DEF AreCorrections
  <2>5. PassHolds(x, 0, copy) BY <2>4, MembersKeep
  <2> QED BY <2>3, <2>5
<1> QED BY <1>1, <1>2, <1>3

\* The loops of a pass: its result is no worse a file, and it did what it was given.
LEMMA PassIs ==
  ASSUME NEW f, IsFile(f), NEW cs, AreCorrections(cs)
  PROVE  Better(Pass(f, cs).file, f) /\ Pass(f, cs).done \subseteq {cs[i].id : i \in DOMAIN cs}
<1> DEFINE x == [file |-> f, list |-> cs]
           base == [file |-> f, done |-> {}]
           places == [i \in DOMAIN cs |-> i]
<1>1. Len(cs) \in Nat /\ DOMAIN cs = 1..Len(cs) BY ListIs DEF AreCorrections
<1>2. places \in Seq(DOMAIN cs) /\ Len(places) = Len(cs)
  <2>1. places \in [1..Len(cs) -> DOMAIN cs] BY <1>1
  <2>2. places \in Seq(DOMAIN cs) BY <2>1, <1>1, SeqDef
  <2> QED BY <2>1, <2>2, <1>1
<1>3. x.file = f /\ x.list = cs /\ PassHolds(x, 0, base)
  BY NothingChanges DEF PassHolds, Better
<1>4. ASSUME NEW n \in 1..Len(places), NEW a, PassHolds(x, n - 1, a)
      PROVE  PassHolds(x, n, UnitStep(x, a, places[n]))
  <2>1. places[n] \in DOMAIN x.list BY <1>1, <1>2, <1>3
  <2>2. PassHolds(x, 0, a) BY <1>4 DEF PassHolds
  <2> HIDE DEF places, x
  <2>3. PassHolds(x, 0, UnitStep(x, a, places[n])) BY <2>1, <2>2, <1>3, UnitKeeps
  <2> QED BY <2>3 DEF PassHolds
<1>5. PassHolds(x, Len(places), Units!Fold(x, base, places))
  <2> HIDE DEF places, x, base
  <2> QED BY <1>2, <1>3, <1>4, Units!FoldLeftKeeps
<1>6. Units!Fold(x, base, places) = Pass(f, cs)
  BY DEF Units!Fold, Units!FoldLeft, Units!MapThenFoldSet, Units!Max, Max, FoldLeft, FoldLeftDomain,
         MapThenFoldSet, Pass, UnitStep, FirstOf, MembersOf
<1> HIDE DEF x, places, base
<1> QED BY <1>3, <1>5, <1>6 DEF PassHolds, Better

-----------------------------------------------------------------------------
(* The inductive invariant.                                                *)

CommandSteps == {"idle", "later", "read", "backup", "write", "written", "rename", "validate",
                 "save", "saved", "done"}

\* A command at one of these has changes in memory.
Changing == {"backup", "write", "written", "rename"}

Fields == {"step", "all", "items", "todo", "copy", "done", "approved", "fd"}

\* What may be stored for a file: nothing that parses, or what is no worse than at the start.
Stores(case, p, k) == k # <<>> => k = <<k[1]>> /\ Better(k[1].file, case.notes[p])

\* A list of corrections for the files there are.
Proposed(case, cs) ==
  /\ AreCorrections(cs)
  /\ \A i \in DOMAIN cs : NotesOf(cs[i].source) \subseteq DOMAIN case.notes
  /\ \A i, j \in DOMAIN cs : cs[i].id = cs[j].id => i = j

\* The file a command works on.
PathOf(m) == CHOOSE p \in NotesOf(Head(m.todo)) : TRUE

\* What a command keeps; its changes are for the file of the source.
IsCommand(case, m) ==
  /\ DOMAIN m = Fields
  /\ m.step \in CommandSteps /\ m.fd \in {"tmp", "notes", "gone"}
  /\ Proposed(case, m.all)
  /\ m.step \in Changing \cup {"read"} =>
       /\ m.items \in Seq(DOMAIN m.all)
       /\ m.todo \in Seq({m.all[i].source : i \in DOMAIN m.all}) \ {<<>>}
  /\ m.step \in Changing =>
       NotesOf(Head(m.todo)) # {} /\ m.copy # <<>> /\ Stores(case, PathOf(m), m.copy)

\* The stored list, the files, and the temporary copies beside them.
ListInOrder(case, l) == l # <<>> => l = <<l[1]>> /\ Proposed(case, l[1])

NotesInOrder(case, n) ==
  n = [p \in DOMAIN case.notes |-> n[p]] /\ \A p \in DOMAIN case.notes : Stores(case, p, n[p])

TmpInOrder(case, t) ==
  /\ t = [p \in DOMAIN case.notes |-> t[p]]
  /\ \A p \in DOMAIN case.notes : t[p] # <<>> => t[p] = <<t[p][1]>> /\ Stores(case, p, t[p][1])

ApplyTyped ==
  /\ plan \in Cases
  /\ ListInOrder(plan, list)
  /\ NotesInOrder(plan, notes)
  /\ TmpInOrder(plan, tmp)
  /\ command = [c \in Commands |-> command[c]]
  /\ \A c \in Commands : IsCommand(plan, command[c])
  /\ crossed \in BOOLEAN

\* The temporary file is as the command that writes it left it.
Owns(m, t) ==
  /\ m.step = "written" => m.fd = "tmp" /\ t[PathOf(m)] = << <<>> >>
  /\ m.step = "rename" => t[PathOf(m)] = <<m.copy>>

\* While commands do not overlap, the file that one of them writes is its own.
Alone ==
  ~ crossed =>
    /\ \A c, d \in Commands : Busy(c) /\ Busy(d) => c = d
    /\ \A p \in DOMAIN plan.notes : notes[p] # <<>>
    /\ \A c \in Commands : Owns(command[c], tmp)

\* A correction was carried out in what is stored; those of a command's current source.
Written(r, n) == \E p \in NotesOf(r.source) : n[p] # <<>> /\ r.id \in n[p][1].by

Mine(m) == {i \in DOMAIN m.all : m.all[i].source = Head(m.todo)}

\* What is approved was carried out in what is stored; the changes in memory come on top
\* of it.
Accounts(m, n) ==
  /\ \A i \in DOMAIN m.all : m.all[i].approved \/ m.all[i].id \in m.approved => Written(m.all[i], n)
  /\ m.step \in {"idle", "later", "validate"} => m.approved = {}
  /\ m.step \in Changing =>
       /\ n[PathOf(m)][1].by \cup m.done \subseteq m.copy[1].by
       /\ m.done \subseteq {m.all[i].id : i \in Mine(m)}

ListAccounts(l, n) ==
  l # <<>> => \A i \in DOMAIN l[1] : l[1][i].approved => Written(l[1][i], n)

Counted ==
  ~ crossed => ListAccounts(list, notes) /\ \A c \in Commands : Accounts(command[c], notes)

ApplyInv == ApplyTyped /\ Alone /\ Counted

-----------------------------------------------------------------------------
(* Steps.                                                                  *)

LEMMA StepKeeps ==
  ASSUME ApplyInv, NEW c \in Commands, plan' = plan,
         command' = [d \in Commands |-> command'[d]],
         \A d \in Commands : IsCommand(plan, command'[d]),
         \A d \in Commands : d # c =>
           command'[d].step = command[d].step /\ (Busy(d) \/ command'[d] = command[d]),
         ListInOrder(plan, list'), NotesInOrder(plan, notes'), TmpInOrder(plan, tmp'),
         \/ Busy(c) /\ crossed' = crossed
         \/ crossed' = (crossed \/ \E d \in Commands : Busy(d)),
         ~ crossed' =>
           /\ \A p \in DOMAIN plan.notes : notes'[p] # <<>> /\ notes[p][1].by \subseteq notes'[p][1].by
           /\ ListAccounts(list', notes')
           /\ Owns(command'[c], tmp') /\ Accounts(command'[c], notes')
  PROVE  ApplyInv'
<1>1. ApplyTyped' BY DEF ApplyInv, ApplyTyped
<1>2. ASSUME ~ crossed' PROVE ~ crossed /\ \A d \in Commands : d # c => ~ Busy(d)
  BY <1>2 DEF ApplyInv, Alone, ApplyTyped
<1>3. ASSUME ~ crossed', NEW d \in Commands, d # c
      PROVE  command'[d] = command[d] /\ ~ Busy(d)' /\ command[d].step \notin Changing
  BY <1>2, <1>3 DEF Busy, Changing
<1>4. Alone'
  <2> SUFFICES ASSUME ~ crossed'
               PROVE  /\ \A b, d \in Commands : Busy(b)' /\ Busy(d)' => b = d
                      /\ \A p \in DOMAIN plan'.notes : notes'[p] # <<>>
                      /\ \A d \in Commands : Owns(command'[d], tmp')
    BY DEF Alone
  <2>1. \A b, d \in Commands : Busy(b)' /\ Busy(d)' => b = d BY <1>3
  <2>2. ASSUME NEW d \in Commands, d # c PROVE Owns(command'[d], tmp')
    BY <1>3, <2>2 DEF Owns, Changing
  <2> QED BY <2>1, <2>2
<1>5. Counted'
  <2> SUFFICES ASSUME ~ crossed', NEW d \in Commands, d # c PROVE Accounts(command'[d], notes')
    BY DEF Counted
  <2>1. Accounts(command[d], notes) /\ IsCommand(plan, command[d])
    BY <1>2 DEF ApplyInv, ApplyTyped, Counted
  <2>2. \A i \in DOMAIN command[d].all :
          Written(command[d].all[i], notes) => Written(command[d].all[i], notes')
    <3> SUFFICES ASSUME NEW i \in DOMAIN command[d].all, Written(command[d].all[i], notes)
                 PROVE  Written(command[d].all[i], notes')
      OBVIOUS
    <3>1. NotesOf(command[d].all[i].source) \subseteq DOMAIN plan.notes BY <2>1 DEF IsCommand, Proposed
    <3> QED BY <3>1 DEF Written
  <2>3. command'[d] = command[d] /\ command[d].step \notin Changing BY <1>3
  <2> QED BY <2>1, <2>2, <2>3 DEF Accounts
<1> QED BY <1>1, <1>4, <1>5 DEF ApplyInv

\* A step that changes nothing but what its command keeps.
LEMMA CommandKeeps ==
  ASSUME ApplyInv, NEW c \in Commands, UNCHANGED <<plan, notes, tmp>>,
         NEW STATE m, command' = [command EXCEPT ![c] = m], IsCommand(plan, m),
         ListInOrder(plan, list'),
         \/ Busy(c) /\ crossed' = crossed
         \/ crossed' = (crossed \/ \E d \in Commands : Busy(d)),
         ~ crossed => ListAccounts(list', notes) /\ Owns(m, tmp) /\ Accounts(m, notes)
  PROVE  ApplyInv'
<1>1. /\ command' = [d \in Commands |-> command'[d]] /\ command'[c] = m
      /\ \A d \in Commands : d # c => command'[d] = command[d]
  BY DEF ApplyInv, ApplyTyped
<1>2. \A d \in Commands : IsCommand(plan, command'[d]) BY <1>1 DEF ApplyInv, ApplyTyped
<1>3. ASSUME ~ crossed' PROVE ~ crossed /\ \A p \in DOMAIN plan.notes : notes[p] # <<>>
  BY <1>3 DEF ApplyInv, ApplyTyped, Alone
<1>4. NotesInOrder(plan, notes) /\ TmpInOrder(plan, tmp) BY DEF ApplyInv, ApplyTyped
<1> QED BY <1>1, <1>2, <1>3, <1>4, StepKeeps

LEMMA SelectedIs ==
  ASSUME NEW all, NEW selection
  PROVE  Selected(all, selection) \subseteq DOMAIN all
BY DEF Selected

\* The corrections chosen and their sources.
LEMMA ChosenIs ==
  ASSUME NEW all, IsList(all), NEW I \in SUBSET DOMAIN all
  PROVE  LET items == Kept([i \in DOMAIN all |-> i], I)
         IN  /\ items \in Seq(DOMAIN all)
             /\ SourcesOf(all, items) \in Seq({all[i].source : i \in DOMAIN all})
             /\ items # <<>> => SourcesOf(all, items) # <<>>
<1> DEFINE places == [i \in DOMAIN all |-> i]
           items == Kept(places, I)
           source == [k \in DOMAIN items |-> all[items[k]].source]
           S == {all[i].source : i \in DOMAIN all}
           Fresh == {k \in DOMAIN source : \A j \in 1..(k - 1) : source[j] # source[k]}
<1>1. Len(all) \in Nat /\ DOMAIN all = 1..Len(all) BY ListIs
<1>2. IsList(places) /\ DOMAIN places = DOMAIN all /\ ToSet(places) = DOMAIN all
  BY <1>1, FunctionIsList DEF ToSet
<1> HIDE DEF places
<1>3. items \in Seq(DOMAIN all) BY <1>2, KeptOf
<1> HIDE DEF items
<1>4. Len(items) \in Nat /\ DOMAIN items = 1..Len(items) /\ \A k \in DOMAIN items : items[k] \in DOMAIN all
  BY <1>3
<1>5. IsList(source) /\ DOMAIN source = 1..Len(items) /\ ToSet(source) \subseteq S
  BY <1>4, FunctionIsList DEF ToSet
<1>6. SourcesOf(all, items) = Kept(source, Fresh) BY DEF SourcesOf
<1> HIDE DEF source, S
<1>7. Kept(source, Fresh) \in Seq(S)
  <2>1. Kept(source, Fresh) \in Seq(ToSet(source)) BY <1>5, KeptOf
  <2> QED BY <2>1, <1>5, SeqMonotonic
<1>8. ASSUME items # <<>> PROVE Kept(source, Fresh) # <<>>
  <2>1. Len(items) # 0 BY <1>8, <1>3, EmptySeq
  <2>2. 1 \in DOMAIN source /\ 1 \in Fresh BY <2>1, <1>4, <1>5
  <2> DEFINE t == Kept(source, Fresh)
  <2>3. \E g \in [DOMAIN t -> Fresh] : \A i \in Fresh : \E k \in DOMAIN t : g[k] = i
    <3> HIDE DEF t
    <3>1. Fresh \in SUBSET DOMAIN source OBVIOUS
    <3> HIDE DEF Fresh
    <3> QED BY <3>1, <1>5, KeptIs DEF t
  <2>4. DOMAIN t # {} BY <2>2, <2>3
  <2> HIDE DEF t, Fresh
  <2> QED BY <2>4 DEF t
<1> QED BY <1>3, <1>6, <1>7, <1>8 DEF places, items, S

LEMMA IdleIs ==
  ASSUME ApplyInv, NEW c \in Commands, Starts(c)
  PROVE  /\ command[c].step \in {"idle", "later"} /\ IsCommand(plan, command[c])
         /\ crossed' = (crossed \/ \E d \in Commands : Busy(d))
         /\ ~ crossed => command[c].approved = {} /\ ListAccounts(list, notes) /\ Accounts(command[c], notes)
BY DEF Starts, ApplyInv, ApplyTyped, Counted, Accounts

LEMMA ApplyKeeps ==
  ASSUME ApplyInv, NEW c \in Commands, Apply(c)
  PROVE  ApplyInv'
<1> DEFINE all == IF list = <<>> THEN <<>> ELSE list[1]
           items == Kept([i \in DOMAIN all |-> i], Selected(all, plan.by[c]))
           o == command[c]
           m == [o EXCEPT !.step = IF items = <<>> THEN "done" ELSE "read",
                          !.all = all, !.items = items, !.todo = SourcesOf(all, items)]
<1>1. /\ Starts(c) /\ command' = [command EXCEPT ![c] = m]
      /\ UNCHANGED <<plan, list, notes, tmp, troubles>>
  BY DEF Apply
<1>2. Proposed(plan, all)
  <2>1. CASE list = <<>>
    <3>1. all = <<>> /\ <<>> \in Seq({}) /\ DOMAIN <<>> = {} BY <2>1
    <3>2. IsList(all)
      <4>1. ToSet(<<>>) = {} BY DEF ToSet
      <4> QED BY <3>1, <4>1 DEF IsList
    <3> QED BY <3>1, <3>2 DEF Proposed, AreCorrections
  <2>2. CASE list # <<>> BY <2>2 DEF ApplyInv, ApplyTyped, ListInOrder
  <2> QED BY <2>1, <2>2
<1>3. /\ items \in Seq(DOMAIN all) /\ SourcesOf(all, items) \in Seq({all[i].source : i \in DOMAIN all})
      /\ items # <<>> => SourcesOf(all, items) # <<>>
  <2>1. IsList(all) BY <1>2 DEF Proposed, AreCorrections
  <2> HIDE DEF all
  <2> QED BY <2>1, SelectedIs, ChosenIs
<1>4. o.step \in {"idle", "later"} /\ IsCommand(plan, o) BY <1>1, IdleIs
<1>5. ~ crossed => ListAccounts(list, notes) /\ o.approved = {} BY <1>1, IdleIs
<1> HIDE DEF all, items, o
<1>6. /\ DOMAIN m = Fields /\ m.all = all /\ m.items = items /\ m.todo = SourcesOf(all, items)
      /\ m.approved = o.approved /\ m.fd = o.fd /\ m.step = IF items = <<>> THEN "done" ELSE "read"
  BY <1>4 DEF IsCommand, Fields
<1> HIDE DEF m
<1>7. IsCommand(plan, m)
  <2>1. m.step \in CommandSteps /\ m.step \notin Changing /\ (m.step = "read" => m.todo # <<>>)
    BY <1>6, <1>3 DEF CommandSteps, Changing
  <2>2. m.fd \in {"tmp", "notes", "gone"} BY <1>4, <1>6 DEF IsCommand
  <2> QED BY <2>1, <2>2, <1>2, <1>3, <1>6 DEF IsCommand
<1>8. ~ crossed => Owns(m, tmp) /\ Accounts(m, notes)
  <2> SUFFICES ASSUME ~ crossed PROVE Owns(m, tmp) /\ Accounts(m, notes) OBVIOUS
  <2>1. m.step \notin Changing \cup {"idle", "later", "validate"} BY <1>6 DEF Changing
  <2>2. \A i \in DOMAIN all : all[i].approved => Written(all[i], notes)
    BY <1>5 DEF ListAccounts, all
  <2> QED BY <2>1, <2>2, <1>5, <1>6 DEF Owns, Accounts, Changing
<1>9. ListInOrder(plan, list') BY <1>1 DEF ApplyInv, ApplyTyped
<1>10. crossed' = (crossed \/ \E d \in Commands : Busy(d)) BY <1>1, IdleIs
<1> QED BY <1>1, <1>5, <1>7, <1>8, <1>9, <1>10, CommandKeeps

\* The source of a command that has one, and its file.
LEMMA SourceIs ==
  ASSUME NEW case, NEW m, IsCommand(case, m), m.step \in Changing \cup {"read"}
  PROVE  /\ Head(m.todo) \in {m.all[i].source : i \in DOMAIN m.all}
         /\ NotesOf(Head(m.todo)) \subseteq DOMAIN case.notes
         /\ NotesOf(Head(m.todo)) # {} => PathOf(m) \in NotesOf(Head(m.todo)) /\ PathOf(m) \in DOMAIN case.notes
         /\ Tail(m.todo) \in Seq({m.all[i].source : i \in DOMAIN m.all})
<1> DEFINE S == {m.all[i].source : i \in DOMAIN m.all}
<1>1. m.todo \in Seq(S) /\ m.todo # <<>> BY DEF IsCommand
<1>2. \A s \in S : NotesOf(s) \subseteq DOMAIN case.notes BY DEF IsCommand, Proposed
<1> HIDE DEF S
<1>3. Head(m.todo) \in S /\ Tail(m.todo) \in Seq(S) BY <1>1, HeadTailProperties
<1> QED BY <1>2, <1>3 DEF S, PathOf

LEMMA NextSourceIs ==
  ASSUME ApplyInv, NEW c \in Commands, command[c].step \in Changing \cup {"read"}, NEW S,
         NextSource(c, S)
  PROVE  \E m : /\ command' = [command EXCEPT ![c] = m] /\ IsCommand(plan, m)
                /\ m.step \in {"read", "save"} /\ m.all = command[c].all
                /\ m.approved = command[c].approved \cup S
<1> DEFINE o == command[c]
           rest == Tail(o.todo)
           m == [o EXCEPT !.step = IF rest = <<>> THEN "save" ELSE "read", !.todo = rest,
                          !.copy = <<>>, !.done = {}, !.approved = @ \cup S]
<1>1. command' = [command EXCEPT ![c] = m] BY DEF NextSource
<1>2. IsCommand(plan, o) BY DEF ApplyInv, ApplyTyped
<1>3. rest \in Seq({o.all[i].source : i \in DOMAIN o.all}) /\ o.items \in Seq(DOMAIN o.all)
  BY <1>2, SourceIs DEF IsCommand
<1> HIDE DEF o, rest
<1>4. /\ DOMAIN m = Fields /\ m.all = o.all /\ m.items = o.items /\ m.todo = rest /\ m.fd = o.fd
      /\ m.approved = o.approved \cup S /\ m.step = IF rest = <<>> THEN "save" ELSE "read"
  BY <1>2 DEF IsCommand, Fields
<1> HIDE DEF m
<1>5. IsCommand(plan, m)
  <2>1. m.step \in CommandSteps /\ m.step \notin Changing /\ (m.step = "read" => m.todo # <<>>)
    BY <1>4 DEF CommandSteps, Changing
  <2>2. m.fd \in {"tmp", "notes", "gone"} /\ Proposed(plan, o.all) BY <1>2, <1>4 DEF IsCommand
  <2> QED BY <2>1, <2>2, <1>3, <1>4 DEF IsCommand
<1> QED BY <1>1, <1>4, <1>5 DEF o

LEMMA NextSourceKeeps ==
  ASSUME ApplyInv, NEW c \in Commands, command[c].step \in Changing \cup {"read"}, NextSource(c, {}),
         UNCHANGED <<plan, list, notes, tmp, crossed>>
  PROVE  ApplyInv'
<1>1. PICK m : /\ command' = [command EXCEPT ![c] = m] /\ IsCommand(plan, m)
               /\ m.step \in {"read", "save"} /\ m.all = command[c].all
               /\ m.approved = command[c].approved
  <2>1. PICK m : /\ command' = [command EXCEPT ![c] = m] /\ IsCommand(plan, m)
                 /\ m.step \in {"read", "save"} /\ m.all = command[c].all
                 /\ m.approved = command[c].approved \cup {}
    BY NextSourceIs
  <2> QED BY <2>1
<1>2. Busy(c) BY DEF Busy, Changing
<1>3. ~ crossed => ListAccounts(list, notes) /\ Owns(m, tmp) /\ Accounts(m, notes)
  BY <1>1 DEF ApplyInv, Counted, Owns, Accounts, Changing
<1>4. ListInOrder(plan, list') BY DEF ApplyInv, ApplyTyped
<1> QED BY <1>1, <1>2, <1>3, <1>4, CommandKeeps

LEMMA ReadNotesKeeps ==
  ASSUME ApplyInv, NEW c \in Commands, ReadNotes(c)
  PROVE  ApplyInv'
<1> DEFINE o == command[c]
           mine == Kept(o.items, {k \in DOMAIN o.items : o.all[o.items[k]].source = Source(c)})
           cs == [k \in DOMAIN mine |-> o.all[mine[k]]]
           stored == notes[Path(c)][1]
           pass == Pass(stored.file, cs)
           m == [o EXCEPT !.step = "backup", !.done = pass.done,
                          !.copy = <<[file |-> pass.file, by |-> stored.by \cup pass.done]>>]
<1>1. o.step = "read" /\ UNCHANGED <<plan, list, notes, tmp, crossed>> BY DEF ReadNotes
<1>2. CASE NextSource(c, {}) BY <1>1, <1>2, NextSourceKeeps
<1>3. CASE /\ ~ (NotesOf(Source(c)) = {} \/ notes[Path(c)] = <<>>)
           /\ command' = [command EXCEPT ![c] = m]
  <2>1. IsCommand(plan, o) /\ o.todo # <<>> BY <1>1 DEF ApplyInv, ApplyTyped, IsCommand
  <2>2. Path(c) = PathOf(o) /\ Source(c) = Head(o.todo) BY DEF Path, PathOf, Source
  <2>3. Path(c) \in DOMAIN plan.notes /\ Path(c) \in NotesOf(Source(c)) BY <1>1, <1>3, <2>1, <2>2, SourceIs
  <2>4. Better(stored.file, plan.notes[Path(c)]) /\ IsFile(stored.file)
    BY <1>3, <2>3 DEF ApplyInv, ApplyTyped, NotesInOrder, Stores, Better
  <2>5. /\ AreCorrections(cs)
        /\ {cs[k].id : k \in DOMAIN cs} \subseteq {o.all[i].id : i \in Mine(o)}
    <3> DEFINE I == {k \in DOMAIN o.items : o.all[o.items[k]].source = Source(c)}
    <3>1. o.items \in Seq(DOMAIN o.all) BY <1>1, <2>1 DEF IsCommand
    <3>2. I \in SUBSET DOMAIN o.items /\ IsList(o.items) BY <3>1, ListOf
    <3>3. IsList(mine) /\ \E g \in [DOMAIN mine -> I] : \A k \in DOMAIN mine : mine[k] = o.items[g[k]]
      <4>1. mine = Kept(o.items, I) OBVIOUS
      <4> HIDE DEF I, mine
      <4> QED BY <4>1, <3>2, KeptIs
    <3> HIDE DEF mine
    <3>4. \A k \in DOMAIN mine : mine[k] \in DOMAIN o.all /\ o.all[mine[k]].source = Source(c)
      BY <3>1, <3>3
    <3>5. Len(mine) \in Nat /\ DOMAIN mine = 1..Len(mine) BY <3>3, ListIs
    <3>6. DOMAIN cs = 1..Len(mine) /\ cs = [k \in 1..Len(mine) |-> cs[k]]
          /\ \A k \in DOMAIN mine : cs[k] = o.all[mine[k]]
      BY <3>5
    <3> HIDE DEF cs
    <3>7. IsList(cs) BY <3>5, <3>6, FunctionIsList
    <3>8. \A k \in DOMAIN cs : IsCorrection(cs[k])
      BY <3>4, <3>5, <3>6, <2>1 DEF IsCommand, Proposed, AreCorrections
    <3>9. \A k \in DOMAIN cs : mine[k] \in Mine(o) /\ cs[k].id = o.all[mine[k]].id
      BY <3>4, <3>5, <3>6, <2>2 DEF Mine
    <3> QED BY <3>7, <3>8, <3>9 DEF AreCorrections
  <2> HIDE DEF cs, stored, o
  <2>6. Better(pass.file, stored.file) /\ pass.done \subseteq {o.all[i].id : i \in Mine(o)}
    BY <2>4, <2>5, PassIs
  <2>7. Better(pass.file, plan.notes[Path(c)]) BY <2>4, <2>6, BetterIsTransitive
  <2> HIDE DEF pass
  <2> DEFINE copy == <<[file |-> pass.file, by |-> stored.by \cup pass.done]>>
  <2>8. /\ DOMAIN m = Fields /\ m.step = "backup" /\ m.all = o.all /\ m.items = o.items
        /\ m.todo = o.todo /\ m.approved = o.approved /\ m.done = pass.done /\ m.copy = copy
        /\ m.fd = o.fd
    BY <2>1 DEF IsCommand, Fields
  <2>9. copy # <<>> /\ copy = <<copy[1]>> /\ copy[1].file = pass.file /\ copy[1].by = stored.by \cup pass.done
    OBVIOUS
  <2> HIDE DEF m, copy
  <2>10. PathOf(m) = Path(c) /\ Head(m.todo) = Source(c) /\ Mine(m) = Mine(o)
    BY <2>2, <2>8 DEF PathOf, Mine
  <2>11. IsCommand(plan, m)
    <3>1. Stores(plan, PathOf(m), m.copy) BY <2>7, <2>8, <2>9, <2>10 DEF Stores
    <3>2. m.step \in CommandSteps /\ m.copy # <<>> /\ NotesOf(Head(m.todo)) # {} /\ m.todo # <<>>
      BY <2>1, <2>8, <2>9, <2>10, <1>3 DEF CommandSteps
    <3>3. o.step \in Changing \cup {"read"} BY <1>1 DEF o
    <3> QED BY <3>1, <3>2, <3>3, <2>1, <2>8 DEF IsCommand
  <2>12. ASSUME ~ crossed PROVE ListAccounts(list, notes) /\ Owns(m, tmp) /\ Accounts(m, notes)
    <3>1. ListAccounts(list, notes) /\ Accounts(o, notes) BY <2>12 DEF ApplyInv, Counted, o
    <3>2. notes[PathOf(m)][1].by \cup m.done \subseteq m.copy[1].by BY <2>8, <2>9, <2>10 DEF stored
    <3>3. m.done \subseteq {m.all[i].id : i \in Mine(m)} BY <2>6, <2>8, <2>10
    <3> QED BY <3>1, <3>2, <3>3, <2>8 DEF Accounts, Owns
  <2>13. Busy(c) BY <1>1 DEF Busy, o
  <2>14. ListInOrder(plan, list') BY <1>1 DEF ApplyInv, ApplyTyped
  <2> QED BY <1>1, <1>3, <2>11, <2>12, <2>13, <2>14, CommandKeeps
<1>4. \/ NextSource(c, {})
      \/ /\ ~ (NotesOf(Source(c)) = {} \/ notes[Path(c)] = <<>>)
         /\ command' = [command EXCEPT ![c] = m]
  <2> DEFINE New == [command EXCEPT ![c] = m]
  <2>1. New = [command EXCEPT ![c] = [@ EXCEPT !.step = "backup", !.done = pass.done,
                 !.copy = <<[file |-> pass.file, by |-> stored.by \cup pass.done]>>]]
    OBVIOUS
  <2> QED BY <2>1 DEF ReadNotes, FailAll
<1> QED BY <1>2, <1>3, <1>4

\* A step that only moves on.
LEMMA MovedIs ==
  ASSUME NEW case, NEW o, IsCommand(case, o), NEW step, NEW m, m = [o EXCEPT !.step = step]
  PROVE  /\ DOMAIN m = Fields /\ m.step = step /\ m.all = o.all /\ m.items = o.items /\ m.todo = o.todo
         /\ m.copy = o.copy /\ m.done = o.done /\ m.approved = o.approved /\ m.fd = o.fd
         /\ PathOf(m) = PathOf(o) /\ Mine(m) = Mine(o)
         /\ step \in CommandSteps /\ (step \in Changing => o.step \in Changing) /\ step # "read"
              => IsCommand(case, m)
<1>1. /\ DOMAIN m = Fields /\ m.step = step /\ m.all = o.all /\ m.items = o.items /\ m.todo = o.todo
      /\ m.copy = o.copy /\ m.done = o.done /\ m.approved = o.approved /\ m.fd = o.fd
  BY DEF IsCommand, Fields
<1>2. PathOf(m) = PathOf(o) /\ Mine(m) = Mine(o) BY <1>1 DEF PathOf, Mine
<1>3. ASSUME step \in CommandSteps, step \in Changing => o.step \in Changing, step # "read"
      PROVE  IsCommand(case, m)
  BY <1>1, <1>2, <1>3 DEF IsCommand
<1> QED BY <1>1, <1>2, <1>3

LEMMA BackUpKeeps ==
  ASSUME ApplyInv, NEW c \in Commands, BackUp(c)
  PROVE  ApplyInv'
<1>1. command[c].step = "backup" /\ UNCHANGED <<plan, list, notes, tmp, crossed>> BY DEF BackUp
<1>2. CASE NextSource(c, {}) BY <1>1, <1>2, NextSourceKeeps DEF Changing
<1>3. CASE Advance(c, "write")
  <2> DEFINE o == command[c]
             m == [o EXCEPT !.step = "write"]
  <2>1. command' = [command EXCEPT ![c] = m] BY <1>3 DEF Advance
  <2>2. IsCommand(plan, o) BY DEF ApplyInv, ApplyTyped
  <2> HIDE DEF m, o
  <2>3. /\ m.step = "write" /\ m.all = o.all /\ m.copy = o.copy /\ m.done = o.done
        /\ m.approved = o.approved /\ PathOf(m) = PathOf(o) /\ Mine(m) = Mine(o) /\ IsCommand(plan, m)
    BY <1>1, <2>2, MovedIs DEF CommandSteps, Changing, m, o
  <2>4. ~ crossed => ListAccounts(list, notes) /\ Accounts(o, notes) BY DEF ApplyInv, Counted, o
  <2>5. ~ crossed => Owns(m, tmp) /\ Accounts(m, notes)
    BY <1>1, <2>3, <2>4 DEF Owns, Accounts, Changing, o
  <2>6. Busy(c) BY <1>1 DEF Busy
  <2>7. ListInOrder(plan, list') BY <1>1 DEF ApplyInv, ApplyTyped
  <2> QED BY <1>1, <2>1, <2>3, <2>4, <2>5, <2>6, <2>7, CommandKeeps
<1> QED BY <1>2, <1>3 DEF BackUp, FailAll

\* A step that changes one file, or the copy beside it.
LEMMA FilesKeep ==
  ASSUME ApplyInv, NEW c \in Commands, Busy(c), UNCHANGED <<plan, list, crossed>>,
         command' = [d \in Commands |-> command'[d]],
         \A d \in Commands : IsCommand(plan, command'[d]),
         \A d \in Commands : d # c =>
           command'[d].step = command[d].step /\ (Busy(d) \/ command'[d] = command[d]),
         NotesInOrder(plan, notes'), TmpInOrder(plan, tmp'),
         ~ crossed =>
           /\ \A p \in DOMAIN plan.notes : notes'[p] # <<>> /\ notes[p][1].by \subseteq notes'[p][1].by
           /\ Owns(command'[c], tmp') /\ Accounts(command'[c], notes')
  PROVE  ApplyInv'
<1>1. ASSUME ~ crossed PROVE ListAccounts(list, notes')
  <2> SUFFICES ASSUME list # <<>>, NEW i \in DOMAIN list[1], list[1][i].approved
               PROVE  Written(list[1][i], notes')
    BY DEF ListAccounts
  <2>1. Written(list[1][i], notes) BY <1>1 DEF ApplyInv, Counted, ListAccounts
  <2>2. NotesOf(list[1][i].source) \subseteq DOMAIN plan.notes
    BY DEF ApplyInv, ApplyTyped, ListInOrder, Proposed
  <2> QED BY <1>1, <2>1, <2>2 DEF Written
<1>2. ListInOrder(plan, list') BY DEF ApplyInv, ApplyTyped
<1> QED BY <1>1, <1>2, StepKeeps

\* The command of such a step, and what others keep.
LEMMA OneCommand ==
  ASSUME ApplyInv, NEW c \in Commands, NEW STATE m, command' = [command EXCEPT ![c] = m], IsCommand(plan, m)
  PROVE  /\ command' = [d \in Commands |-> command'[d]] /\ command'[c] = m
         /\ \A d \in Commands : IsCommand(plan, command'[d])
         /\ \A d \in Commands : d # c => command'[d] = command[d]
<1>1. /\ command' = [d \in Commands |-> command'[d]] /\ command'[c] = m
      /\ \A d \in Commands : d # c => command'[d] = command[d]
  BY DEF ApplyInv, ApplyTyped
<1>2. \A d \in Commands : IsCommand(plan, command'[d]) BY <1>1 DEF ApplyInv, ApplyTyped
<1> QED BY <1>1, <1>2

\* The file that a command changes.
LEMMA FileIs ==
  ASSUME ApplyInv, NEW c \in Commands, command[c].step \in Changing
  PROVE  LET o == command[c]
         IN  /\ IsCommand(plan, o) /\ Busy(c) /\ Path(c) = PathOf(o) /\ Source(c) = Head(o.todo)
             /\ Path(c) \in DOMAIN plan.notes /\ Path(c) \in NotesOf(Source(c))
             /\ o.copy # <<>> /\ o.copy = <<o.copy[1]>> /\ Stores(plan, Path(c), o.copy)
             /\ NotesInOrder(plan, notes) /\ TmpInOrder(plan, tmp)
             /\ ~ crossed => Accounts(o, notes) /\ Owns(o, tmp) /\ \A p \in DOMAIN plan.notes : notes[p] # <<>>
<1> DEFINE o == command[c]
<1>1. IsCommand(plan, o) BY DEF ApplyInv, ApplyTyped
<1>2. Path(c) = PathOf(o) /\ Source(c) = Head(o.todo) BY DEF Path, PathOf, Source
<1>3. o.todo # <<>> /\ NotesOf(Head(o.todo)) # {} /\ o.copy # <<>> /\ Stores(plan, PathOf(o), o.copy)
  BY <1>1 DEF IsCommand
<1>4. PathOf(o) \in DOMAIN plan.notes /\ PathOf(o) \in NotesOf(Head(o.todo)) BY <1>1, <1>3, SourceIs
<1>5. Busy(c) BY DEF Busy, Changing
<1>6. o.copy = <<o.copy[1]>> BY <1>3 DEF Stores
<1>7. NotesInOrder(plan, notes) /\ TmpInOrder(plan, tmp) BY DEF ApplyInv, ApplyTyped
<1>8. ~ crossed => Accounts(o, notes) /\ Owns(o, tmp) /\ \A p \in DOMAIN plan.notes : notes[p] # <<>>
  BY DEF ApplyInv, Counted, Alone
<1> HIDE DEF o
<1> QED BY <1>1, <1>2, <1>3, <1>4, <1>5, <1>6, <1>7, <1>8 DEF o

\* What is written into one file, or beside it, is in order.
LEMMA NotesChange ==
  ASSUME NEW case, NEW n, NotesInOrder(case, n), NEW p \in DOMAIN case.notes, NEW k, Stores(case, p, k)
  PROVE  LET o == [n EXCEPT ![p] = k]
         IN  NotesInOrder(case, o) /\ o[p] = k /\ \A q \in DOMAIN case.notes : q # p => o[q] = n[q]
<1> DEFINE o == [n EXCEPT ![p] = k]
<1>1. /\ o = [q \in DOMAIN case.notes |-> o[q]] /\ o[p] = k
      /\ \A q \in DOMAIN case.notes : q # p => o[q] = n[q]
  BY DEF NotesInOrder
<1> HIDE DEF o
<1>2. NotesInOrder(case, o) BY <1>1 DEF NotesInOrder
<1> QED BY <1>1, <1>2 DEF o

LEMMA TmpChange ==
  ASSUME NEW case, NEW t, TmpInOrder(case, t), NEW p \in DOMAIN case.notes, NEW k,
         k # <<>> => k = <<k[1]>> /\ Stores(case, p, k[1])
  PROVE  LET o == [t EXCEPT ![p] = k]
         IN  TmpInOrder(case, o) /\ o[p] = k
<1> DEFINE o == [t EXCEPT ![p] = k]
<1>1. /\ o = [q \in DOMAIN case.notes |-> o[q]] /\ o[p] = k
      /\ \A q \in DOMAIN case.notes : q # p => o[q] = t[q]
  BY DEF TmpInOrder
<1> HIDE DEF o
<1>2. TmpInOrder(case, o) BY <1>1 DEF TmpInOrder
<1> QED BY <1>1, <1>2 DEF o

LEMMA WriteTmpKeeps ==
  ASSUME ApplyInv, NEW c \in Commands, WriteTmp(c)
  PROVE  ApplyInv'
<1>1. command[c].step = "write" /\ UNCHANGED <<plan, list, notes, crossed>> BY DEF WriteTmp
<1>2. CASE NextSource(c, {}) /\ UNCHANGED tmp BY <1>1, <1>2, NextSourceKeeps DEF Changing
<1>3. CASE /\ tmp' = [tmp EXCEPT ![Path(c)] = << <<>> >>]
           /\ command' = [command EXCEPT ![c].step = "written", ![c].fd = "tmp"]
  <2> DEFINE o == command[c]
             m == [o EXCEPT !.step = "written", !.fd = "tmp"]
  <2>0. command[c].step \in Changing BY <1>1 DEF Changing
  <2>1. command' = [command EXCEPT ![c] = m]
    <3>1. c \in DOMAIN command BY DEF ApplyInv, ApplyTyped
    <3> QED BY <1>3, <3>1
  <2>2. /\ IsCommand(plan, o) /\ Path(c) = PathOf(o) /\ Path(c) \in DOMAIN plan.notes /\ Busy(c)
        /\ NotesInOrder(plan, notes) /\ TmpInOrder(plan, tmp)
        /\ ~ crossed => Accounts(o, notes) /\ \A p \in DOMAIN plan.notes : notes[p] # <<>>
    BY <2>0, FileIs
  <2> HIDE DEF o
  <2>3. /\ DOMAIN m = Fields /\ m.step = "written" /\ m.all = o.all /\ m.items = o.items /\ m.todo = o.todo
        /\ m.copy = o.copy /\ m.done = o.done /\ m.approved = o.approved /\ m.fd = "tmp"
    BY <2>2 DEF IsCommand, Fields
  <2> HIDE DEF m
  <2>4. PathOf(m) = PathOf(o) /\ Mine(m) = Mine(o) BY <2>3 DEF PathOf, Mine
  <2>5. IsCommand(plan, m)
    BY <2>0, <2>2, <2>3, <2>4 DEF IsCommand, CommandSteps, Changing, o
  <2>6. TmpInOrder(plan, tmp') /\ tmp'[Path(c)] = << <<>> >>
    <3> DEFINE k == << <<>> >>
    <3>1. k = <<k[1]>> /\ k[1] = <<>> OBVIOUS
    <3>2. k = <<k[1]>> /\ Stores(plan, Path(c), k[1]) BY <3>1 DEF Stores
    <3> HIDE DEF k
    <3>3. tmp' = [tmp EXCEPT ![Path(c)] = k] BY <1>3 DEF k
    <3>4. TmpInOrder(plan, tmp) /\ Path(c) \in DOMAIN plan.notes BY <2>2
    <3> HIDE <2>2
    <3>5. TmpInOrder(plan, [tmp EXCEPT ![Path(c)] = k]) /\ [tmp EXCEPT ![Path(c)] = k][Path(c)] = k
      BY <3>2, <3>4, TmpChange
    <3>6. TmpInOrder(plan, tmp') /\ tmp'[Path(c)] = k BY <3>3, <3>5
    <3> QED BY <3>6 DEF k
  <2>7. ~ crossed => Owns(m, tmp') /\ Accounts(m, notes)
    BY <2>0, <2>2, <2>3, <2>4, <2>6 DEF Owns, Accounts, Changing, o
  <2>8. /\ command' = [d \in Commands |-> command'[d]] /\ command'[c] = m
        /\ \A d \in Commands : IsCommand(plan, command'[d])
        /\ \A d \in Commands : d # c => command'[d] = command[d]
    BY <2>1, <2>5, OneCommand
  <2> QED BY <1>1, <2>2, <2>6, <2>7, <2>8, FilesKeep
<1> QED BY <1>2, <1>3 DEF WriteTmp, FailAll

LEMMA TmpWrittenKeeps ==
  ASSUME ApplyInv, NEW c \in Commands, TmpWritten(c)
  PROVE  ApplyInv'
<1> DEFINE o == command[c]
           m == [o EXCEPT !.step = "rename"]
<1>1. o.step = "written" /\ UNCHANGED <<plan, list, crossed>> /\ command' = [command EXCEPT ![c] = m]
  BY DEF TmpWritten, Advance
<1>0. command[c].step \in Changing BY <1>1 DEF Changing
<1>2. /\ IsCommand(plan, o) /\ Path(c) = PathOf(o) /\ Path(c) \in DOMAIN plan.notes /\ Busy(c)
      /\ o.copy # <<>> /\ Stores(plan, Path(c), o.copy)
      /\ NotesInOrder(plan, notes) /\ TmpInOrder(plan, tmp)
      /\ ~ crossed => Accounts(o, notes) /\ Owns(o, tmp) /\ \A p \in DOMAIN plan.notes : notes[p] # <<>>
  BY <1>0, FileIs
<1>3. /\ m.step = "rename" /\ m.all = o.all /\ m.copy = o.copy /\ m.done = o.done
      /\ m.approved = o.approved /\ PathOf(m) = PathOf(o) /\ Mine(m) = Mine(o) /\ IsCommand(plan, m)
  <2> HIDE DEF o
  <2> QED BY <1>0, <1>2, MovedIs DEF CommandSteps, o
<1>4. PICK torn \in BOOLEAN, k \in {<<>>, o.copy} :
        /\ k = IF torn THEN <<>> ELSE o.copy
        /\ \/ /\ o.fd = "tmp" /\ (torn => tmp[Path(c)] # << <<>> >>)
              /\ tmp' = [tmp EXCEPT ![Path(c)] = <<k>>] /\ notes' = notes
           \/ o.fd = "notes" /\ notes' = [notes EXCEPT ![Path(c)] = k] /\ tmp' = tmp
           \/ o.fd = "gone" /\ notes' = notes /\ tmp' = tmp
  <2>1. PICK torn \in BOOLEAN :
          LET Over(old) == IF torn THEN <<>> ELSE command[c].copy
          IN  CASE command[c].fd = "tmp" ->
                  /\ torn => tmp[Path(c)] # << <<>> >>
                  /\ tmp' = [tmp EXCEPT ![Path(c)] = << Over(@) >>]
                  /\ UNCHANGED notes
             [] command[c].fd = "notes" ->
                  /\ torn => notes[Path(c)] # <<>>
                  /\ notes' = [notes EXCEPT ![Path(c)] = Over(@)]
                  /\ UNCHANGED tmp
             [] command[c].fd = "gone" -> ~ torn /\ UNCHANGED <<tmp, notes>>
    BY DEF TmpWritten
  <2> DEFINE k == IF torn THEN <<>> ELSE o.copy
  <2>2. o.fd \in {"tmp", "notes", "gone"} BY <1>2 DEF IsCommand
  <2>3. CASE o.fd = "tmp" BY <2>1, <2>3
  <2>4. CASE o.fd = "notes" BY <2>1, <2>4
  <2>5. CASE o.fd = "gone" BY <2>1, <2>5
  <2> QED BY <2>2, <2>3, <2>4, <2>5
<1>5. Stores(plan, Path(c), k) BY <1>2, <1>4 DEF Stores
<1>6. NotesInOrder(plan, notes') BY <1>2, <1>4, <1>5, NotesChange
<1>7. TmpInOrder(plan, tmp')
  <2> DEFINE j == <<k>>
  <2>1. j = <<j[1]>> /\ j[1] = k OBVIOUS
  <2> HIDE DEF j
  <2>2. j = <<j[1]>> /\ Stores(plan, Path(c), j[1]) BY <2>1, <1>5
  <2>3. tmp' = [tmp EXCEPT ![Path(c)] = j] \/ tmp' = tmp BY <1>4 DEF j
  <2> QED BY <1>2, <2>2, <2>3, TmpChange
<1>8. ASSUME ~ crossed PROVE notes' = notes /\ Owns(m, tmp') /\ Accounts(m, notes')
  <2>1. o.fd = "tmp" /\ tmp[Path(c)] = << <<>> >> BY <1>1, <1>2, <1>8 DEF Owns
  <2>2. notes' = notes /\ k = o.copy /\ tmp' = [tmp EXCEPT ![Path(c)] = <<k>>] BY <2>1, <1>4
  <2>3. Path(c) \in DOMAIN tmp BY <1>2 DEF TmpInOrder
  <2>4. tmp'[Path(c)] = <<o.copy>> BY <2>2, <2>3
  <2> HIDE DEF o, m
  <2> QED BY <1>0, <1>2, <1>3, <1>8, <2>2, <2>4 DEF Owns, Accounts, Changing, o
<1> HIDE DEF m, o
<1>9. /\ command' = [d \in Commands |-> command'[d]] /\ command'[c] = m
      /\ \A d \in Commands : IsCommand(plan, command'[d])
      /\ \A d \in Commands : d # c => command'[d] = command[d]
  BY <1>1, <1>3, OneCommand
<1> QED BY <1>1, <1>2, <1>6, <1>7, <1>8, <1>9, FilesKeep

LEMMA RenameKeeps ==
  ASSUME ApplyInv, NEW c \in Commands, Rename(c)
  PROVE  ApplyInv'
<1> DEFINE o == command[c]
           p == Path(c)
<1>1. o.step = "rename" /\ UNCHANGED <<plan, list, crossed>> BY DEF Rename
<1>0. command[c].step \in Changing BY <1>1 DEF Changing
<1>2. CASE tmp[p] = <<>> BY <1>0, <1>1, <1>2, NextSourceKeeps DEF Rename
<1>3. CASE tmp[p] # <<>>
  <2> DEFINE after == [d \in Commands |->
                        IF command[d].step = "written" /\ Path(d) = p
                        THEN [command[d] EXCEPT !.fd = Moved(@)] ELSE command[d]]
             rest == Tail(o.todo)
             q == after[c]
             m == [q EXCEPT !.step = IF rest = <<>> THEN "save" ELSE "read", !.todo = rest,
                            !.copy = <<>>, !.done = {}, !.approved = o.approved \cup o.done]
  <2>1. /\ notes' = [notes EXCEPT ![p] = tmp[p][1]] /\ tmp' = [tmp EXCEPT ![p] = <<>>]
        /\ command' = [after EXCEPT ![c] = m]
    BY <1>3 DEF Rename
  <2>2. q = o BY <1>1
  <2>3. /\ IsCommand(plan, o) /\ p = PathOf(o) /\ p \in DOMAIN plan.notes /\ Busy(c)
        /\ Source(c) = Head(o.todo) /\ p \in NotesOf(Source(c)) /\ o.copy # <<>>
        /\ NotesInOrder(plan, notes) /\ TmpInOrder(plan, tmp)
        /\ ~ crossed => Accounts(o, notes) /\ Owns(o, tmp) /\ \A r \in DOMAIN plan.notes : notes[r] # <<>>
    BY <1>0, FileIs
  <2>4. /\ command' = [d \in Commands |-> command'[d]] /\ command'[c] = m
        /\ \A d \in Commands : d # c => command'[d] = after[d]
    BY <2>1
  <2>5. ASSUME NEW d \in Commands
        PROVE  /\ IsCommand(plan, after[d]) /\ after[d].step = command[d].step
               /\ Busy(d) \/ after[d] = command[d]
    <3> DEFINE n == command[d]
               k == [n EXCEPT !.fd = Moved(@)]
    <3>1. IsCommand(plan, n) BY DEF ApplyInv, ApplyTyped
    <3>2. CASE n.step = "written" /\ Path(d) = p
      <4>1. after[d] = k /\ Busy(d) BY <3>2 DEF Busy
      <4> HIDE DEF n, after
      <4>2. /\ DOMAIN k = Fields /\ k.step = n.step /\ k.all = n.all /\ k.items = n.items /\ k.todo = n.todo
            /\ k.copy = n.copy /\ k.fd \in {"tmp", "notes", "gone"}
        BY <3>1 DEF IsCommand, Fields, Moved
      <4> HIDE DEF k
      <4>3. PathOf(k) = PathOf(n) BY <4>2 DEF PathOf
      <4>4. IsCommand(plan, k) BY <3>1, <4>2, <4>3 DEF IsCommand
      <4> QED BY <4>1, <4>2, <4>4 DEF n
    <3>3. CASE ~ (n.step = "written" /\ Path(d) = p) BY <3>1, <3>3
    <3> QED BY <3>2, <3>3
  <2> HIDE DEF after, q, rest, o, p
  <2>6. /\ DOMAIN m = Fields /\ m.all = o.all /\ m.items = o.items /\ m.todo = rest /\ m.fd = o.fd
        /\ m.approved = o.approved \cup o.done /\ m.step = IF rest = <<>> THEN "save" ELSE "read"
    BY <2>2, <2>3 DEF IsCommand, Fields
  <2> HIDE DEF m
  <2>7. rest \in Seq({o.all[i].source : i \in DOMAIN o.all}) /\ o.items \in Seq(DOMAIN o.all)
    <3>1. o.step \in Changing \cup {"read"} BY <1>0 DEF o
    <3> QED BY <2>3, <3>1, SourceIs DEF rest, IsCommand
  <2>8. IsCommand(plan, m)
    <3>1. m.step \in CommandSteps /\ m.step \notin Changing /\ (m.step = "read" => m.todo # <<>>)
      BY <2>6 DEF CommandSteps, Changing
    <3>2. m.fd \in {"tmp", "notes", "gone"} /\ Proposed(plan, o.all) BY <2>3, <2>6 DEF IsCommand
    <3> QED BY <2>6, <2>7, <3>1, <3>2 DEF IsCommand
  <2>9. \A d \in Commands : IsCommand(plan, command'[d]) BY <2>4, <2>5, <2>8
  <2>10. \A d \in Commands : d # c =>
            command'[d].step = command[d].step /\ (Busy(d) \/ command'[d] = command[d])
    BY <2>4, <2>5
  <2>11. Stores(plan, p, tmp[p][1]) BY <1>3, <2>3 DEF TmpInOrder, p
  <2>12. /\ NotesInOrder(plan, notes') /\ notes'[p] = tmp[p][1]
         /\ \A r \in DOMAIN plan.notes : r # p => notes'[r] = notes[r]
    <3> DEFINE k == tmp[p][1]
               new == [notes EXCEPT ![p] = k]
    <3>1. notes' = new BY <2>1
    <3>2. NotesInOrder(plan, notes) /\ p \in DOMAIN plan.notes /\ Stores(plan, p, k) BY <2>3, <2>11
    <3> HIDE DEF k
    <3>3. NotesInOrder(plan, new) /\ new[p] = k /\ \A r \in DOMAIN plan.notes : r # p => new[r] = notes[r]
      BY <3>2, NotesChange
    <3> HIDE DEF new
    <3> QED BY <3>1, <3>3 DEF k
  <2>13. TmpInOrder(plan, tmp') BY <2>1, <2>3, TmpChange
  <2>14. ASSUME ~ crossed
         PROVE  /\ \A r \in DOMAIN plan.notes : notes'[r] # <<>> /\ notes[r][1].by \subseteq notes'[r][1].by
                /\ Owns(m, tmp') /\ Accounts(m, notes')
    <3>1. Accounts(o, notes) /\ tmp[p] = <<o.copy>> BY <1>1, <2>3, <2>14 DEF Owns
    <3>2. notes'[p] = o.copy /\ o.copy # <<>> BY <2>3, <2>12, <3>1
    <3>3. notes[p][1].by \cup o.done \subseteq o.copy[1].by /\ o.done \subseteq {o.all[i].id : i \in Mine(o)}
      BY <1>0, <2>3, <3>1 DEF Accounts, o
    <3>4. \A r \in DOMAIN plan.notes : notes'[r] # <<>> /\ notes[r][1].by \subseteq notes'[r][1].by
      BY <2>3, <2>12, <2>14, <3>2, <3>3
    <3>5. m.step \notin Changing \cup {"idle", "later", "validate"} BY <2>6 DEF Changing
    <3>6. ASSUME NEW i \in DOMAIN o.all, o.all[i].approved \/ o.all[i].id \in o.approved \cup o.done
          PROVE  Written(o.all[i], notes')
      <4>1. CASE o.all[i].approved \/ o.all[i].id \in o.approved
        <5>1. Written(o.all[i], notes) BY <4>1, <3>1 DEF Accounts
        <5>2. NotesOf(o.all[i].source) \subseteq DOMAIN plan.notes BY <2>3 DEF IsCommand, Proposed
        <5> QED BY <5>1, <5>2, <3>4 DEF Written
      <4>2. CASE o.all[i].id \in o.done
        <5>1. PICK j \in Mine(o) : o.all[j].id = o.all[i].id BY <4>2, <3>3
        <5>2. j \in DOMAIN o.all /\ o.all[j].source = Source(c) BY <5>1, <2>3 DEF Mine
        <5>3. i = j BY <5>1, <5>2, <2>3 DEF IsCommand, Proposed
        <5> QED BY <4>2, <5>2, <5>3, <2>3, <3>2, <3>3 DEF Written
      <4> QED BY <3>6, <4>1, <4>2
    <3>7. Owns(m, tmp') BY <3>5 DEF Owns, Changing
    <3>8. Accounts(m, notes') BY <2>6, <3>5, <3>6 DEF Accounts
    <3> QED BY <3>4, <3>7, <3>8
  <2> QED BY <1>1, <2>3, <2>4, <2>9, <2>10, <2>12, <2>13, <2>14, FilesKeep
<1> QED BY <1>2, <1>3

LEMMA ValidateFullKeeps ==
  ASSUME ApplyInv, NEW c \in Commands, ValidateFull(c)
  PROVE  ApplyInv'
<1> DEFINE o == command[c]
           m == [o EXCEPT !.step = "validate"]
<1>1. /\ Starts(c) /\ list' = <<>> /\ command' = [command EXCEPT ![c] = m]
      /\ UNCHANGED <<plan, notes, tmp>>
  BY DEF ValidateFull
<1>2. /\ IsCommand(plan, o) /\ crossed' = (crossed \/ \E d \in Commands : Busy(d))
      /\ ~ crossed => o.approved = {} /\ Accounts(o, notes)
  BY <1>1, IdleIs
<1> HIDE DEF o
<1>3. /\ m.step = "validate" /\ m.all = o.all /\ m.approved = o.approved /\ IsCommand(plan, m)
  BY <1>2, MovedIs DEF CommandSteps, Changing
<1> HIDE DEF m
<1>4. ListInOrder(plan, list') BY <1>1 DEF ListInOrder
<1>5. ~ crossed => ListAccounts(list', notes) /\ Owns(m, tmp) /\ Accounts(m, notes)
  BY <1>1, <1>2, <1>3 DEF ListAccounts, Owns, Accounts, Changing
<1> QED BY <1>1, <1>2, <1>3, <1>4, <1>5, CommandKeeps

LEMMA ValidationEndsKeeps ==
  ASSUME ApplyInv, NEW c \in Commands, ValidationEnds(c)
  PROVE  ApplyInv'
<1> DEFINE o == command[c]
<1>1. o.step = "validate" /\ UNCHANGED <<plan, list, notes, tmp, crossed>> BY DEF ValidationEnds
<1>2. IsCommand(plan, o) /\ Busy(c) /\ ListInOrder(plan, list')
  BY <1>1 DEF ApplyInv, ApplyTyped, Busy
<1>3. ~ crossed => ListAccounts(list', notes) /\ Accounts(o, notes) /\ o.approved = {}
  BY <1>1 DEF ApplyInv, Counted, Accounts
<1>4. CASE Advance(c, "done")
  <2> DEFINE m == [o EXCEPT !.step = "done"]
  <2>1. command' = [command EXCEPT ![c] = m] BY <1>4 DEF Advance
  <2> HIDE DEF o
  <2>2. m.step = "done" /\ m.all = o.all /\ m.approved = o.approved /\ IsCommand(plan, m)
    BY <1>2, MovedIs DEF CommandSteps, Changing
  <2> HIDE DEF m
  <2>3. ~ crossed => Owns(m, tmp) /\ Accounts(m, notes) BY <1>3, <2>2 DEF Owns, Accounts, Changing
  <2> QED BY <1>1, <1>2, <1>3, <2>1, <2>2, <2>3, CommandKeeps
<1>5. CASE command' = [command EXCEPT ![c].all = plan.next,
                         ![c].step = IF plan.next = <<>> THEN "done" ELSE "save"]
  <2> DEFINE m == [o EXCEPT !.all = plan.next, !.step = IF plan.next = <<>> THEN "done" ELSE "save"]
  <2>1. command' = [command EXCEPT ![c] = m]
    <3>1. c \in DOMAIN command BY DEF ApplyInv, ApplyTyped
    <3> QED BY <1>5, <3>1
  <2>2. Proposed(plan, plan.next) /\ \A i \in DOMAIN plan.next : ~ plan.next[i].approved
    <3>1. plan \in Cases BY DEF ApplyInv, ApplyTyped
    <3> QED BY <3>1, CasesAssumption DEF Proposed
  <2> HIDE DEF o
  <2>3. /\ DOMAIN m = Fields /\ m.all = plan.next /\ m.items = o.items /\ m.todo = o.todo /\ m.fd = o.fd
        /\ m.approved = o.approved /\ m.step = IF plan.next = <<>> THEN "done" ELSE "save"
    BY <1>2 DEF IsCommand, Fields
  <2> HIDE DEF m
  <2>4. IsCommand(plan, m)
    <3>1. m.step \in CommandSteps \ (Changing \cup {"read"}) BY <2>3 DEF CommandSteps, Changing
    <3>2. m.fd \in {"tmp", "notes", "gone"} BY <1>2, <2>3 DEF IsCommand
    <3> QED BY <2>2, <2>3, <3>1, <3>2 DEF IsCommand
  <2>5. ~ crossed => Owns(m, tmp) /\ Accounts(m, notes)
    BY <1>3, <2>2, <2>3 DEF Owns, Accounts, Changing
  <2> QED BY <1>1, <1>2, <1>3, <2>1, <2>4, <2>5, CommandKeeps
<1> QED BY <1>4, <1>5 DEF ValidationEnds

LEMMA SaveBeginsKeeps ==
  ASSUME ApplyInv, NEW c \in Commands, SaveBegins(c)
  PROVE  ApplyInv'
<1> DEFINE o == command[c]
           m == [o EXCEPT !.step = "saved"]
<1>1. /\ o.step = "save" /\ list' = <<>> /\ command' = [command EXCEPT ![c] = m]
      /\ UNCHANGED <<plan, notes, tmp, crossed>>
  BY DEF SaveBegins, Advance
<1>2. IsCommand(plan, o) /\ Busy(c) /\ (~ crossed => Accounts(o, notes))
  BY <1>1 DEF ApplyInv, ApplyTyped, Counted, Busy
<1> HIDE DEF o
<1>3. m.step = "saved" /\ m.all = o.all /\ m.approved = o.approved /\ IsCommand(plan, m)
  BY <1>2, MovedIs DEF CommandSteps, Changing
<1> HIDE DEF m
<1>4. ListInOrder(plan, list') BY <1>1 DEF ListInOrder
<1>5. ~ crossed => ListAccounts(list', notes) /\ Owns(m, tmp) /\ Accounts(m, notes)
  BY <1>1, <1>2, <1>3 DEF ListAccounts, Owns, Accounts, Changing
<1> QED BY <1>1, <1>2, <1>3, <1>4, <1>5, CommandKeeps

\* Marks change nothing else.
LEMMA MarkedIs ==
  ASSUME NEW c, AreCorrections(command[c].all)
  PROVE  /\ AreCorrections(Marked(c)) /\ DOMAIN Marked(c) = DOMAIN command[c].all
         /\ \A i \in DOMAIN command[c].all :
              LET new == Marked(c)[i]
                  old == command[c].all[i]
              IN  /\ new.id = old.id /\ new.source = old.source
                  /\ new.approved <=> old.approved \/ old.id \in command[c].approved
<1> DEFINE all == command[c].all
           cs == Marked(c)
           Old(i) == all[i]
           New(i) == [all[i] EXCEPT !.approved = @ \/ all[i].id \in command[c].approved]
<1>1. Len(all) \in Nat /\ DOMAIN all = 1..Len(all) BY ListIs DEF AreCorrections
<1>2. cs = [i \in DOMAIN all |-> New(i)] BY DEF Marked
<1>3. ASSUME NEW i \in DOMAIN all
      PROVE  /\ New(i).id = Old(i).id /\ New(i).source = Old(i).source
             /\ New(i).approved <=> Old(i).approved \/ Old(i).id \in command[c].approved
             /\ IsCorrection(New(i))
  <2> DEFINE old == all[i]
             new == [old EXCEPT !.approved = @ \/ old.id \in command[c].approved]
  <2>1. IsCorrection(old) BY DEF AreCorrections
  <2> HIDE DEF old
  <2>2. DOMAIN new = DOMAIN old /\ \A x \in DOMAIN old : x # "approved" => new[x] = old[x] OBVIOUS
  <2>3. /\ new.id = old.id /\ new.source = old.source /\ new.op = old.op
        /\ new.approved = (old.approved \/ old.id \in command[c].approved)
    BY <2>1 DEF IsCorrection
  <2> HIDE DEF new
  <2>4. IsCorrection(new)
    <3>1. {"id", "source", "group", "approved", "op"} \subseteq DOMAIN new BY <2>1, <2>2 DEF IsCorrection
    <3>2. ASSUME new.op = "create"
          PROVE  {"item", "new"} \subseteq DOMAIN new /\ IF new.item = "entity" THEN IsEntity(new.new) ELSE IsRelationship(new.new)
      <4>1. {"item", "new"} \subseteq DOMAIN old /\ IF old.item = "entity" THEN IsEntity(old.new) ELSE IsRelationship(old.new)
        BY <2>1, <2>3, <3>2 DEF IsCorrection
      <4>2. new.item = old.item /\ new.new = old.new BY <2>2, <4>1
      <4> QED BY <2>2, <4>1, <4>2
    <3>3. ASSUME new.op = "retarget" PROVE "end" \in DOMAIN new /\ new.end \in {"source", "target"}
      BY <2>1, <2>2, <2>3, <3>3 DEF IsCorrection
    <3> QED BY <2>1, <2>3, <3>1, <3>2, <3>3 DEF IsCorrection
  <2>5. New(i) = new BY DEF new, old
  <2> QED BY <2>3, <2>4, <2>5 DEF old
<1> HIDE DEF New, cs
<1>4. DOMAIN cs = 1..Len(all) /\ cs = [i \in 1..Len(all) |-> cs[i]] BY <1>1, <1>2
<1>5. IsList(cs) BY <1>1, <1>4, FunctionIsList
<1>6. AreCorrections(cs) BY <1>1, <1>2, <1>3, <1>4, <1>5 DEF AreCorrections
<1> QED BY <1>1, <1>2, <1>3, <1>4, <1>6 DEF cs

LEMMA NoCommandIs ==
  ASSUME NEW case, NEW m, NEW step \in {"idle", "later", "done"}, m = [NoCommand EXCEPT !.step = step]
  PROVE  IsCommand(case, m) /\ m.step = step /\ m.all = <<>> /\ m.approved = {}
<1>1. /\ DOMAIN m = Fields /\ m.step = step /\ m.all = <<>> /\ m.approved = {} /\ m.fd = "tmp"
  BY DEF NoCommand, Fields
<1>2. Proposed(case, <<>>)
  <2>1. <<>> \in Seq({}) /\ DOMAIN <<>> = {} OBVIOUS
  <2>2. ToSet(<<>>) = {} BY DEF ToSet
  <2> QED BY <2>1, <2>2 DEF Proposed, AreCorrections, IsList
<1> QED BY <1>1, <1>2 DEF IsCommand, CommandSteps, Changing

LEMMA SaveLandsKeeps ==
  ASSUME ApplyInv, NEW c \in Commands, SaveLands(c)
  PROVE  ApplyInv'
<1> DEFINE o == command[c]
           m == [NoCommand EXCEPT !.step = "done"]
<1>1. /\ o.step = "saved" /\ list' \in {<<>>, <<Marked(c)>>} /\ command' = [command EXCEPT ![c] = m]
      /\ UNCHANGED <<plan, notes, tmp, crossed>>
  BY DEF SaveLands
<1>2. IsCommand(plan, o) /\ Busy(c) /\ (~ crossed => Accounts(o, notes))
  BY <1>1 DEF ApplyInv, ApplyTyped, Counted, Busy
<1>3. IsCommand(plan, m) /\ m.step = "done" /\ m.all = <<>> /\ m.approved = {} BY NoCommandIs
<1>4. /\ AreCorrections(Marked(c)) /\ DOMAIN Marked(c) = DOMAIN o.all
      /\ \A i \in DOMAIN o.all :
            /\ Marked(c)[i].id = o.all[i].id /\ Marked(c)[i].source = o.all[i].source
            /\ Marked(c)[i].approved <=> o.all[i].approved \/ o.all[i].id \in o.approved
  <2>1. AreCorrections(o.all) BY <1>2 DEF IsCommand, Proposed
  <2> QED BY <2>1, MarkedIs
<1> HIDE DEF o, m
<1> DEFINE cs == Marked(c)
<1>5. AreCorrections(cs) BY <1>4
<1>6. /\ DOMAIN cs = DOMAIN o.all
      /\ \A i \in DOMAIN o.all : /\ cs[i].id = o.all[i].id /\ cs[i].source = o.all[i].source
                                 /\ cs[i].approved => o.all[i].approved \/ o.all[i].id \in o.approved
  BY <1>4
<1>7. list' \in {<<>>, <<cs>>} BY <1>1
<1> HIDE DEF cs
<1>8. Proposed(plan, cs) BY <1>2, <1>5, <1>6 DEF IsCommand, Proposed
<1>9. ListInOrder(plan, list') BY <1>7, <1>8 DEF ListInOrder
<1>10. ASSUME ~ crossed PROVE ListAccounts(list', notes) /\ Owns(m, tmp) /\ Accounts(m, notes)
  <2>1. \A i \in DOMAIN cs : cs[i].approved => Written(cs[i], notes)
    BY <1>2, <1>6, <1>10 DEF Accounts, Written
  <2>2. ListAccounts(list', notes) BY <1>7, <2>1 DEF ListAccounts
  <2>3. DOMAIN m.all = {} BY <1>3
  <2> QED BY <2>2, <2>3, <1>3 DEF Owns, Accounts, Changing
<1> QED BY <1>1, <1>2, <1>3, <1>9, <1>10, CommandKeeps

LEMMA ServerDiesKeeps ==
  ASSUME ApplyInv, ServerDies
  PROVE  ApplyInv'
<1> DEFINE m == [NoCommand EXCEPT !.step = "done"]
<1>1. /\ UNCHANGED <<plan, list, notes, tmp, crossed>>
      /\ command' = [c \in Commands |-> IF Busy(c) THEN m ELSE command[c]]
  BY DEF ServerDies
<1>2. IsCommand(plan, m) /\ m.step = "done" /\ m.all = <<>> /\ m.approved = {} BY NoCommandIs
<1> HIDE DEF m
<1>3. ApplyTyped' BY <1>1, <1>2 DEF ApplyInv, ApplyTyped
<1>4. \A c \in Commands : ~ Busy(c)' BY <1>1, <1>2 DEF Busy
<1>5. Alone'
  <2>1. \A c \in Commands : Owns(command'[c], tmp') BY <1>4 DEF Owns, Busy
  <2> QED BY <1>1, <1>4, <2>1 DEF Alone, ApplyInv
<1>6. Counted'
  <2> SUFFICES ASSUME ~ crossed, NEW c \in Commands PROVE Accounts(command'[c], notes)
    BY <1>1 DEF Counted, ApplyInv
  <2>1. Accounts(m, notes)
    <3>1. DOMAIN m.all = {} BY <1>2
    <3> QED BY <1>2, <3>1 DEF Accounts, Changing
  <2>2. Accounts(command[c], notes) BY DEF Counted, ApplyInv
  <2> QED BY <1>1, <2>1, <2>2
<1> QED BY <1>3, <1>5, <1>6 DEF ApplyInv

LEMMA ApplyInvInit == ApplyInit => ApplyInv
<1> SUFFICES ASSUME ApplyInit PROVE ApplyInv OBVIOUS
<1>1. /\ plan \in Cases /\ list = <<plan.list>> /\ crossed = FALSE
      /\ notes = [p \in DOMAIN plan.notes |-> <<[file |-> plan.notes[p], by |-> {}]>>]
      /\ tmp = [p \in DOMAIN plan.notes |-> <<>>]
      /\ command = [c \in Commands |->
           [NoCommand EXCEPT !.step = IF c \notin DOMAIN plan.by THEN "done"
                                      ELSE IF c \in plan.later THEN "later" ELSE "idle"]]
  BY DEF ApplyInit
<1>2. /\ Proposed(plan, plan.list) /\ \A i \in DOMAIN plan.list : ~ plan.list[i].approved
      /\ \A p \in DOMAIN plan.notes : IsFile(plan.notes[p])
  BY <1>1, CasesAssumption DEF Proposed
<1>3. ASSUME NEW c \in Commands
      PROVE  /\ IsCommand(plan, command[c]) /\ command[c].step \in {"idle", "later", "done"}
             /\ command[c].all = <<>> /\ command[c].approved = {}
  <2> DEFINE step == IF c \notin DOMAIN plan.by THEN "done" ELSE IF c \in plan.later THEN "later" ELSE "idle"
  <2>1. step \in {"idle", "later", "done"} /\ command[c] = [NoCommand EXCEPT !.step = step] BY <1>1
  <2> HIDE DEF step
  <2> QED BY <2>1, NoCommandIs
<1>4. NotesInOrder(plan, notes)
  <2>1. ASSUME NEW p \in DOMAIN plan.notes PROVE Stores(plan, p, notes[p])
    <3>1. notes[p] = <<[file |-> plan.notes[p], by |-> {}]>> BY <1>1
    <3>2. Better(plan.notes[p], plan.notes[p]) BY <1>2, NothingChanges
    <3> QED BY <3>1, <3>2 DEF Stores
  <2>2. notes = [p \in DOMAIN plan.notes |-> notes[p]] BY <1>1
  <2> QED BY <2>1, <2>2 DEF NotesInOrder
<1>5. TmpInOrder(plan, tmp) BY <1>1 DEF TmpInOrder
<1>6. ListInOrder(plan, list) BY <1>1, <1>2 DEF ListInOrder
<1>7. command = [c \in Commands |-> command[c]] BY <1>1
<1>8. ApplyTyped BY <1>1, <1>3, <1>4, <1>5, <1>6, <1>7 DEF ApplyTyped
<1>9. Alone
  <2>1. \A c \in Commands : ~ Busy(c) /\ Owns(command[c], tmp) BY <1>3 DEF Busy, Owns
  <2>2. \A p \in DOMAIN plan.notes : notes[p] # <<>> BY <1>1
  <2> QED BY <2>1, <2>2 DEF Alone
<1>10. Counted
  <2>1. ListAccounts(list, notes) BY <1>1, <1>2 DEF ListAccounts
  <2>2. ASSUME NEW c \in Commands PROVE Accounts(command[c], notes)
    <3>1. DOMAIN command[c].all = {} BY <1>3
    <3> QED BY <1>3, <3>1 DEF Accounts, Changing
  <2> QED BY <2>1, <2>2 DEF Counted
<1> QED BY <1>8, <1>9, <1>10 DEF ApplyInv

LEMMA ApplyInvNext == ApplyInv /\ [ApplyNext]_applyVars => ApplyInv'
<1> SUFFICES ASSUME ApplyInv, [ApplyNext]_applyVars PROVE ApplyInv' OBVIOUS
<1>1. CASE UNCHANGED applyVars
  <2>1. UNCHANGED <<plan, list, notes, tmp, command, crossed>> BY <1>1 DEF applyVars
  <2> QED BY <2>1 DEF ApplyInv, ApplyTyped, Alone, Counted, Busy
<1>2. CASE ServerDies BY <1>2, ServerDiesKeeps
<1>3. ASSUME NEW c \in Commands,
             \/ Apply(c) \/ ReadNotes(c) \/ BackUp(c) \/ WriteTmp(c) \/ TmpWritten(c) \/ Rename(c)
             \/ ValidateFull(c) \/ ValidationEnds(c) \/ SaveBegins(c) \/ SaveLands(c)
      PROVE  ApplyInv'
  BY <1>3, ApplyKeeps, ReadNotesKeeps, BackUpKeeps, WriteTmpKeeps, TmpWrittenKeeps, RenameKeeps,
     ValidateFullKeeps, ValidationEndsKeeps, SaveBeginsKeeps, SaveLandsKeeps
<1> QED BY <1>1, <1>2, <1>3 DEF ApplyNext

LEMMA ApplyInvHolds == ApplySpec => []ApplyInv
BY ApplyInvInit, ApplyInvNext, PTL DEF ApplySpec

\* Whatever corrections are proposed, fail, overlap or are cut off by a crash: no file comes
\* to name an entity it lacks, and nothing in it is doubled, that was not so at the start;
\* while commands do not overlap, every file parses (CorrectionApplier: cascade, duplicate
\* checks, atomic write).
THEOREM CorrectionsKeepFilesInOrder == ApplySpec => []NotesStayWellFormed
<1>1. ApplyInv => NotesStayWellFormed
  <2> SUFFICES ASSUME ApplyInv PROVE NotesStayWellFormed OBVIOUS
  <2>1. /\ DOMAIN notes = DOMAIN plan.notes
        /\ \A p \in DOMAIN notes : Stores(plan, p, notes[p])
        /\ ~ crossed => \A p \in DOMAIN notes : notes[p] # <<>>
    BY DEF ApplyInv, ApplyTyped, NotesInOrder, Alone
  <2>2. ASSUME NEW p \in DOMAIN notes, NEW k \in DOMAIN notes[p] PROVE NoWorse(notes[p][k].file, plan.notes[p])
    <3>1. notes[p] # <<>> OBVIOUS
    <3>2. notes[p] = <<notes[p][1]>> /\ NoWorse(notes[p][1].file, plan.notes[p])
      BY <2>1, <3>1 DEF Stores, Better
    <3>3. k = 1 BY <3>2
    <3> QED BY <3>2, <3>3
  <2> QED BY <2>1, <2>2 DEF NotesStayWellFormed
<1> QED BY <1>1, ApplyInvHolds, PTL

\* While commands do not overlap, a correction is marked approved only if it was carried out
\* in the file as it is stored, whatever failed for it or another and wherever the server
\* died (CorrectionApplier.run, failAll).
THEOREM ApprovedCorrectionsWereWritten == ApplySpec => []ApprovedIsWritten
<1>1. ApplyInv => ApprovedIsWritten
  BY DEF ApplyInv, Counted, ListAccounts, Written, ApprovedIsWritten
<1> QED BY <1>1, ApplyInvHolds, PTL
=============================================================================
