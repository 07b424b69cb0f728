-------------------------- MODULE CorrectionApplier --------------------------
(***************************************************************************)
(* The commands that share the list of proposed corrections: a full        *)
(* validation replaces it, and apply-corrections carries corrections out   *)
(* on the extraction files and marks them approved.                        *)
(*                                                                         *)
(* An apply takes the files one after the other: it reads one, makes the   *)
(* changes in memory, keeps a copy of the original, writes the new content *)
(* beside it under one fixed name and renames that over the original.  The *)
(* list is written last, in place.  Only a full validation takes the       *)
(* process lock, and apply does not look at it.                            *)
(*                                                                         *)
(* A group whose members name different sources makes the call throw, and  *)
(* is not modelled.  Dry runs and listings change nothing.  Backups are    *)
(* read by nobody and are not kept.  The source list does not change.      *)
(***************************************************************************)
EXTENDS ExtractionNotes, FiniteSets

CONSTANTS
  Commands,      \* the commands given
  SourceList,    \* <<[names, notes]>>: the sources whose name is a part of the entry's
                 \* path, and the selected extraction: {file}, or {} if there is none
  Cases          \* what is stored at the start and what is asked for: <<"all">> or
                 \* <<"indices", set>> of corrections to apply, or <<"validate">>

VARIABLES
  plan,     \* the case: [list, next, notes, by, later, troubles]
  list,     \* the corrections file: <<corrections>>, or <<>> when there is none that parses
  notes,    \* each extraction file: <<[file, by]>>, or <<>> when it does not parse; by is
            \* history, the ids of the corrections carried out in it
  tmp,      \* the file written beside each: <<content>>, or <<>> when there is none
  command,  \* what each command keeps in memory
  troubles, \* how many failures and crashes are still to come
  crossed   \* history: two commands ran at the same time

applyVars == <<plan, list, notes, tmp, command, troubles, crossed>>

-----------------------------------------------------------------------------
\* sourceEntries.find: the first entry whose path contains the name.
NotesOf(source) ==
  LET i == SelectInSeq(SourceList, LAMBDA entry : source \in entry.names)
  IN  IF i = 0 THEN {} ELSE SourceList[i].notes

\* A correction is known by its place in the list and is proposed for a file there is, if
\* its source has one; a validation proposes nothing that is approved.
ASSUME CasesAssumption ==
  \A case \in Cases :
    /\ case.troubles \in Nat
    /\ \A p \in DOMAIN case.notes : IsFile(case.notes[p])
    /\ \A proposed \in {case.list, case.next} :
         /\ AreCorrections(proposed)
         /\ \A i \in DOMAIN proposed :
              ~ proposed[i].approved /\ NotesOf(proposed[i].source) \subseteq DOMAIN case.notes
         /\ \A i, j \in DOMAIN proposed : proposed[i].id = proposed[j].id => i = j

NoCommand == [step |-> "idle", all |-> <<>>, items |-> <<>>, todo |-> <<>>,
              copy |-> <<>>, done |-> {}, approved |-> {}, fd |-> "tmp"]

Busy(c) == command[c].step \notin {"idle", "later", "done"}

ApplyInit ==
  /\ plan \in Cases
  /\ list = <<plan.list>>
  /\ notes = [p \in DOMAIN plan.notes |-> <<[file |-> plan.notes[p], by |-> {}]>>]
  /\ tmp = [p \in DOMAIN plan.notes |-> <<>>]
  /\ command = [c \in Commands |->
       [NoCommand EXCEPT !.step = IF c \notin DOMAIN plan.by THEN "done"
                                  ELSE IF c \in plan.later THEN "later" ELSE "idle"]]
  /\ troubles = plan.troubles
  /\ crossed = FALSE

\* A command starts; those that are to come later wait until nothing runs.
Starts(c) ==
  /\ \/ command[c].step = "idle"
     \/ command[c].step = "later" /\ \A d \in Commands : ~ Busy(d) /\ command[d].step # "idle"
  /\ crossed' = (crossed \/ \E d \in Commands : Busy(d))

\* The confidence floor is one, and sure says who clears it: a group rides its weakest
\* member, and explicit indices bring their whole group.
Selected(all, selection) ==
  LET GroupOf(i) == IF all[i].group = {} THEN {i}
                    ELSE {j \in DOMAIN all : all[j].group = all[i].group}
  IN  IF selection[1] = "all"
      THEN {i \in DOMAIN all : ~ all[i].approved /\ \A j \in GroupOf(i) : all[j].sure}
      ELSE UNION {GroupOf(i) : i \in selection[2] \cap DOMAIN all}

\* The sources of the items, in the order in which they come up.
SourcesOf(all, items) ==
  LET source == [k \in DOMAIN items |-> all[items[k]].source]
  IN  Kept(source, {k \in DOMAIN source : \A j \in 1..(k - 1) : source[j] # source[k]})

Apply(c) ==
  /\ Starts(c)
  /\ c \in DOMAIN plan.by /\ plan.by[c][1] # "validate"
  /\ LET all == IF list = <<>> THEN <<>> ELSE list[1]
         chosen == Selected(all, plan.by[c])
         items == Kept([i \in DOMAIN all |-> i], chosen)
     IN  command' = [command EXCEPT ![c] = [@ EXCEPT
           !.step = IF items = <<>> THEN "done" ELSE "read",
           !.all = all, !.items = items, !.todo = SourcesOf(all, items)]]
  /\ UNCHANGED <<plan, list, notes, tmp, troubles>>

-----------------------------------------------------------------------------
(* One source.                                                             *)

Source(c) == Head(command[c].todo)
Path(c) == CHOOSE p \in NotesOf(Source(c)) : TRUE

Advance(c, step) == command' = [command EXCEPT ![c].step = step]

\* On to the next source; what was done for this one counts only if it was written.
NextSource(c, approved) ==
  command' = [command EXCEPT ![c] = [@ EXCEPT
    !.step = IF Tail(command[c].todo) = <<>> THEN "save" ELSE "read",
    !.todo = Tail(command[c].todo), !.copy = <<>>, !.done = {},
    !.approved = command[c].approved \cup approved]]

\* Something fails: all items of the source are reported as failed.
FailAll(c) == troubles > 0 /\ troubles' = troubles - 1 /\ NextSource(c, {})

\* The file is read and the changes are made in memory.  A source with nothing to
\* write, without an extraction or with one that does not parse is left alone.
ReadNotes(c) ==
  /\ command[c].step = "read"
  /\ \/ FailAll(c)
     \/ /\ UNCHANGED troubles
        /\ IF NotesOf(Source(c)) = {} \/ notes[Path(c)] = <<>> THEN NextSource(c, {})
           ELSE LET all == command[c].all
                    items == command[c].items
                    mine == Kept(items, {k \in DOMAIN items : all[items[k]].source = Source(c)})
                    stored == notes[Path(c)][1]
                    pass == Pass(stored.file, [k \in DOMAIN mine |-> all[mine[k]]])
                IN  IF pass.done = {} THEN NextSource(c, {})
                    ELSE command' = [command EXCEPT ![c] = [@ EXCEPT
                           !.step = "backup", !.done = pass.done,
                           !.copy = <<[file |-> pass.file, by |-> stored.by \cup pass.done]>>]]
  /\ UNCHANGED <<plan, list, notes, tmp, crossed>>

\* Mutation of BackUp: the corrections of a source count without its backup.
BackUpApproving(c) ==
  /\ command[c].step = "backup"
  /\ \/ Advance(c, "write") /\ UNCHANGED troubles
     \/ troubles > 0 /\ troubles' = troubles - 1 /\ NextSource(c, command[c].done)
  /\ UNCHANGED <<plan, list, notes, tmp, crossed>>

BackUp(c) ==
  /\ command[c].step = "backup"
  /\ \/ Advance(c, "write") /\ UNCHANGED troubles
     \/ FailAll(c)
  /\ UNCHANGED <<plan, list, notes, tmp, crossed>>

\* The write begins: the file of that name is truncated, whoever wrote it.
WriteTmp(c) ==
  /\ command[c].step = "write"
  /\ \/ FailAll(c) /\ UNCHANGED tmp
     \/ /\ tmp' = [tmp EXCEPT ![Path(c)] = << <<>> >>]
        /\ command' = [command EXCEPT ![c].step = "written", ![c].fd = "tmp"]
        /\ UNCHANGED troubles
  /\ UNCHANGED <<plan, list, notes, crossed>>

\* The write lands in the file it was begun on, which another command may have renamed
\* meanwhile; on top of another write it may leave that one's tail.
TmpWritten(c) ==
  /\ command[c].step = "written"
  /\ \E torn \in BOOLEAN :
       LET Over(old) == IF torn THEN <<>> ELSE command[c].copy
       IN  CASE command[c].fd = "tmp" ->
                  /\ torn => tmp[Path(c)] # << <<>> >>
                  /\ tmp' = [tmp EXCEPT ![Path(c)] = << Over(@) >>]
                  /\ UNCHANGED notes
             [] command[c].fd = "notes" ->
                  /\ torn => notes[Path(c)] # <<>>
                  /\ notes' = [notes EXCEPT ![Path(c)] = Over(@)]
                  /\ UNCHANGED tmp
             [] command[c].fd = "gone" -> ~ torn /\ UNCHANGED <<tmp, notes>>
  /\ Advance(c, "rename")
  /\ UNCHANGED <<plan, list, troubles, crossed>>

\* Where a file that is being written is found after a rename.
Moved(fd) == IF fd = "tmp" THEN "notes" ELSE "gone"

\* The new content replaces the original, unless another command has taken it away; a
\* command that is writing the same file goes on writing it under its new name.
Rename(c) ==
  /\ command[c].step = "rename"
  /\ IF tmp[Path(c)] = <<>> THEN NextSource(c, {}) /\ UNCHANGED <<notes, tmp>>
     ELSE /\ notes' = [notes EXCEPT ![Path(c)] = tmp[Path(c)][1]]
          /\ tmp' = [tmp EXCEPT ![Path(c)] = <<>>]
          /\ LET after == [d \in Commands |->
                   IF command[d].step = "written" /\ Path(d) = Path(c)
                   THEN [command[d] EXCEPT !.fd = Moved(@)] ELSE command[d]]
                 rest == Tail(command[c].todo)
             IN  command' = [after EXCEPT ![c] = [@ EXCEPT
                   !.step = IF rest = <<>> THEN "save" ELSE "read", !.todo = rest,
                   !.copy = <<>>, !.done = {},
                   !.approved = command[c].approved \cup command[c].done]]
  /\ UNCHANGED <<plan, list, troubles, crossed>>

-----------------------------------------------------------------------------
(* The list.                                                               *)

\* A full validation drops the list of the one before it.
ValidateFull(c) ==
  /\ Starts(c)
  /\ c \in DOMAIN plan.by /\ plan.by[c][1] = "validate"
  /\ list' = <<>>
  /\ command' = [command EXCEPT ![c].step = "validate"]
  /\ UNCHANGED <<plan, notes, tmp, troubles>>

\* ... and saves what it proposes, if anything and if it gets that far.
ValidationEnds(c) ==
  /\ command[c].step = "validate"
  /\ \/ troubles > 0 /\ troubles' = troubles - 1 /\ Advance(c, "done")
     \/ /\ command' = [command EXCEPT ![c].all = plan.next,
                         ![c].step = IF plan.next = <<>> THEN "done" ELSE "save"]
        /\ UNCHANGED troubles
  /\ UNCHANGED <<plan, list, notes, tmp, crossed>>

\* The list is truncated, and written with the marks of this command.
SaveBegins(c) ==
  /\ command[c].step = "save"
  /\ list' = <<>>
  /\ Advance(c, "saved")
  /\ UNCHANGED <<plan, notes, tmp, troubles, crossed>>

Marked(c) ==
  [i \in DOMAIN command[c].all |->
     [command[c].all[i] EXCEPT !.approved = @ \/ command[c].all[i].id \in command[c].approved]]

SaveLands(c) ==
  /\ command[c].step = "saved"
  /\ \/ list' = <<Marked(c)>>
     \/ list # <<>> /\ list' = <<>>
  /\ command' = [command EXCEPT ![c] = [NoCommand EXCEPT !.step = "done"]]
  /\ UNCHANGED <<plan, notes, tmp, troubles, crossed>>

\* The server dies; the files stay as they are.
ServerDies ==
  /\ troubles > 0
  /\ \E c \in Commands : Busy(c)
  /\ troubles' = troubles - 1
  /\ command' = [c \in Commands |-> IF Busy(c) THEN [NoCommand EXCEPT !.step = "done"] ELSE command[c]]
  /\ UNCHANGED <<plan, list, notes, tmp, crossed>>

ApplyNext ==
  \/ \E c \in Commands : \/ Apply(c) \/ ReadNotes(c) \/ BackUp(c) \/ WriteTmp(c) \/ TmpWritten(c)
                         \/ Rename(c) \/ ValidateFull(c) \/ ValidationEnds(c)
                         \/ SaveBegins(c) \/ SaveLands(c)
  \/ ServerDies

ApplySpec == ApplyInit /\ [][ApplyNext]_applyVars

-----------------------------------------------------------------------------
(* Properties.                                                             *)

Entities(f) == ToSet(f.entities)
Relationships(f) == ToSet(f.relationships)

Doubled(seq) == {seq[i] : i \in {i \in DOMAIN seq : \E j \in DOMAIN seq \ {i} : seq[j] = seq[i]}}

Keys(f) == [i \in DOMAIN f.relationships |-> Key(f.relationships[i])]
Labels(f) == [i \in DOMAIN f.entities |-> Fold[f.entities[i].label]]

\* What relationships call their ends although no entity has that label.
Missing(f) == {l \in UNION {{r.source, r.target} : r \in Relationships(f)} : FindEntity(f, l) = 0}

NoWorse(f, original) ==
  /\ Missing(f) \subseteq Missing(original)
  /\ Doubled(Keys(f)) \subseteq Doubled(Keys(original))
  /\ Doubled(Labels(f)) \subseteq Doubled(Labels(original))

\* A relationship that names an entity by its exact label never loses that entity, and no
\* relationship and no label comes to be there twice that was not: through creations,
\* moved ends, deletions and their cascades, passes that are repeated after a crash, and
\* commands that write over each other.  (A label may be there twice at the start, under
\* two types.)  Unless commands overlap, the file parses at every moment
\* (CorrectionApplier: cascade, duplicate checks, atomic write).
NotesStayWellFormed ==
  \A p \in DOMAIN notes :
    /\ ~ crossed => notes[p] # <<>>
    /\ \A k \in DOMAIN notes[p] : NoWorse(notes[p][k].file, plan.notes[p])

\* The file has what the correction is for.
Holds(f, c) ==
  CASE c.op = "update" /\ c.item = "entity" ->
         \E e \in Entities(f) : e.label = c.at /\ e.value = c.value
    [] c.op = "update" /\ c.item # "entity" ->
         \E r \in Relationships(f) : Key(r) = c.at /\ r.value = c.value
    [] c.op = "delete" -> IF c.item = "entity" THEN FindEntity(f, c.at) = 0
                          ELSE FindRelationship(f, c.at) = 0
    [] c.op = "create" /\ c.item = "entity" ->
         \E e \in Entities(f) : Fold[e.label] = Fold[c.new.label] /\ e.type = c.new.type
    [] c.op = "create" /\ c.item # "entity" ->
         \E r \in Relationships(f) : r.kind = c.new.kind /\ Fold[r.source] = Fold[c.new.source]
                                     /\ Fold[r.target] = Fold[c.new.target]
    [] c.op = "retarget" ->
         /\ FindRelationship(f, c.at) = 0
         /\ \E r \in Relationships(f) : r.kind = c.at[2] /\ Fold[r[c.end]] = Fold[c.to]

Mentions(c) ==
  LET labels == CASE c.op = "create" -> IF c.item = "entity" THEN {c.new.label}
                                        ELSE {c.new.source, c.new.target}
                  [] c.op = "retarget" -> {c.at[1], c.at[3], c.to}
                  [] OTHER -> IF c.item = "entity" THEN {c.at} ELSE {c.at[1], c.at[3]}
  IN  {Fold[l] : l \in labels}

\* A group is in a file with all its members or with none, at every moment: after
\* failures of a member, failed writes, crashes and commands that write over each
\* other.  (Of members that hold from the start nothing is said, nor of groups whose
\* labels other corrections of the file are about.)  Comment of CorrectionApplier: "the
\* group commits only if all members pass".
GroupsAreWhole ==
  LET all == ToSet(plan.list) \cup ToSet(plan.next)
      GroupOf(c) == {d \in all : d.group = c.group}
      Alone(G) == \A c \in G, d \in all \ G :
                    NotesOf(c.source) \cap NotesOf(d.source) # {} => Mentions(c) \cap Mentions(d) = {}
  IN  \A G \in {GroupOf(c) : c \in {d \in all : d.group # {}}} : Alone(G) =>
        \A p \in UNION {NotesOf(c.source) : c \in G} :
          LET New == {c \in G : ~ Holds(plan.notes[p], c)}
          IN  \A k \in DOMAIN notes[p] :
                \/ \A c \in New : Holds(notes[p][k].file, c)
                \/ \A c \in New : ~ Holds(notes[p][k].file, c)

\* Unless commands overlap, a correction that is marked approved was carried out in
\* what is stored now: whatever failed for this source or another, and wherever the
\* server died (a failed write fails the whole source "rather than silently approving
\* unwritten changes").
ApprovedIsWritten ==
  ~ crossed /\ list # <<>> =>
    \A i \in DOMAIN list[1] : list[1][i].approved =>
      \E p \in NotesOf(list[1][i].source) : notes[p] # <<>> /\ list[1][i].id \in notes[p][1].by

=============================================================================
