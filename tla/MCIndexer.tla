------------------------------ MODULE MCIndexer ------------------------------
(***************************************************************************)
(* The commands of the indexer that share files, for TLC: in some          *)
(* behaviours documents are extracted, in the others corrections are       *)
(* applied.  The two work on different files and are not mixed.            *)
(***************************************************************************)
EXTENDS MCIndexerState, CorrectionApplier

-----------------------------------------------------------------------------
(* Extraction files and corrections.                                       *)

MCFold == [l \in {"A", "a"} |-> "a"] @@ [l \in {"N", "n"} |-> "n"] @@ [l \in {"M", "m"} |-> "m"]
          @@ [l \in {"Cee", "cee"} |-> "cee"] @@ ("B" :> "b") @@ ("C" :> "c") @@ ("P" :> "p")

MCRelationTypes == "K" :> {<<"T", "T">>, <<"T", "U">>}

Entity(label, type) == [label |-> label, type |-> type, aliases |-> {}, value |-> 0]
Edge(s, kind, t) == [source |-> s, kind |-> kind, target |-> t, value |-> 0]

\* A is connected to B and to C, C also by its alias.
Report == [entities |-> <<Entity("A", "T"), Entity("B", "T"), [Entity("C", "U") EXCEPT !.aliases = {"Cee"}]>>,
           relationships |-> <<Edge("A", "K", "B"), Edge("A", "K", "C"), Edge("B", "K", "Cee")>>]
\* Extraction keeps a label twice if it has two types.
Memo == [entities |-> <<Entity("M", "T"), Entity("m", "U")>>, relationships |-> <<>>]

MCSourceList == <<[names |-> {"report"}, notes |-> {"p1"}], [names |-> {"draft"}, notes |-> {}],
                  [names |-> {"memo", "draft"}, notes |-> {"p2"}]>>

Proposal(id, source, group) ==
  [id |-> id, source |-> source, group |-> group, sure |-> TRUE, approved |-> FALSE]
Updates(p, item, at, v) == p @@ [op |-> "update", item |-> item, at |-> at, value |-> v]
Deletes(p, item, at) == p @@ [op |-> "delete", item |-> item, at |-> at]
Creates(p, item, new) == p @@ [op |-> "create", item |-> item, new |-> new, sound |-> TRUE]
Retargets(p, at, end, to) == p @@ [op |-> "retarget", at |-> at, end |-> end, to |-> to]

In1(id) == Proposal(id, "report", {})
Of(id, g) == Proposal(id, "report", {g})

\* B is replaced by a new entity, which takes over its edge; beside it a property, an
\* entity in another file and one whose source has no extraction.
Remodel == <<Deletes(Of(1, "g"), "entity", "B"), Updates(In1(2), "entity", "C", 1),
             Retargets(Of(3, "g"), <<"A", "K", "B">>, "target", "n"), Creates(Of(4, "g"), "entity", Entity("N", "T")),
             Updates(Of(5, "g"), "relationship", <<"A", "K", "N">>, 1),
             Creates(Proposal(6, "memo", {}), "entity", Entity("N", "T")),
             Updates(Proposal(7, "draft", {}), "entity", "M", 1)>>

\* A group with a member whose new end is nowhere; a deletion of low confidence that
\* takes edges along; a group in another file that is in order.
Broken == <<Creates(Of(1, "g"), "entity", Entity("N", "T")),
            Retargets(Of(2, "g"), <<"A", "K", "B">>, "source", "P"),
            [Deletes(In1(3), "entity", "C") EXCEPT !.sure = FALSE],
            Creates(Proposal(4, "memo", {"h"}), "entity", Entity("A", "T")),
            Creates(Proposal(5, "memo", {"h"}), "relationship", Edge("m", "K", "a"))>>

\* An edge moved onto one that is there, one created by alias and case, an entity that
\* is there in another case, an unknown type, a deletion.
Overlapping == <<Retargets(Of(1, "g"), <<"A", "K", "B">>, "target", "Cee"),
                 Creates(In1(2), "relationship", Edge("a", "K", "cee")),
                 Creates(In1(3), "entity", Entity("a", "T")), Creates(In1(4), "entity", Entity("M", "V")),
                 Deletes(In1(5), "relationship", <<"A", "K", "C">>), Deletes(In1(6), "entity", "B")>>

Fixes == <<Updates(In1(11), "entity", "C", 2), Creates(Of(12, "k"), "entity", Entity("M", "T")),
           Creates(Of(13, "k"), "relationship", Edge("M", "K", "m"))>>

Case(proposed, next, by, later, n) ==
  [list |-> proposed, next |-> next, notes |-> ("p1" :> Report) @@ ("p2" :> Memo),
   by |-> by, later |-> later, troubles |-> n]

All == <<"all">>
These(S) == <<"indices", S>>

\* Nothing is corrected.
NoCase == [Case(<<>>, <<>>, <<>>, {}, 0) EXCEPT !.notes = <<>>]

\* An apply that fails or dies anywhere and is sent again, once more after that with
\* explicit indices or after a new validation; two or three that overlap on one file;
\* one that overlaps a validation.
MCCases == {
  NoCase,
  Case(Remodel, <<>>, ("x" :> All) @@ ("y" :> All) @@ ("z" :> These({2, 5})), {"y", "z"}, 2),
  Case(Broken, Fixes, ("x" :> These({1, 3, 5})) @@ ("y" :> <<"validate">>) @@ ("z" :> All), {"y", "z"}, 2),
  Case(Overlapping, <<>>, ("x" :> All) @@ ("y" :> These({1, 2})) @@ ("z" :> All), {"y", "z"}, 2),
  Case(Remodel, <<>>, ("x" :> These({1})) @@ ("y" :> These({2})), {}, 1),
  Case(Overlapping, <<>>, ("x" :> These({1, 6})) @@ ("y" :> These({2, 5})), {}, 1),
  Case(Remodel, <<>>, ("x" :> These({2})) @@ ("y" :> These({2})) @@ ("z" :> These({2})), {}, 0),
  Case(Remodel, Fixes, ("x" :> All) @@ ("y" :> <<"validate">>) @@ ("z" :> All), {}, 0)}

-----------------------------------------------------------------------------
MCInit == /\ Init /\ ApplyInit
          /\ plan = NoCase <=> \E x \in Actors : x[2] = Main /\ task[x].step # "done"

MCNext == \/ plan = NoCase /\ Next /\ UNCHANGED applyVars
          \/ ApplyNext /\ UNCHANGED vars

MCSpec == MCInit /\ [][MCNext]_<<vars, applyVars>> /\ WF_<<vars, applyVars>>(Progress /\ UNCHANGED applyVars)

=============================================================================
