------------------------------ MODULE MCStepTree ------------------------------
(* An instance of StepTree: a pipeline with a group of two steps, a tool among *)
(* them, which may call itself or two others, one of which does not load.      *)
EXTENDS StepTree

CONSTANT NoStepId

Step(id, instructions, tool, reads) ==
    [id |-> id, instructions |-> instructions, tool |-> tool, reads |-> reads,
     result |-> IF tool THEN "list" ELSE "structured", inject |-> NoNames, tools |-> <<>>]

Layer == [inject |-> NoNames, tools |-> <<"fetch_dialog">>]

FileOf(legacy, groups, actions) ==
    [legacy |-> legacy, common |-> Layer, groups |-> groups, actions |-> actions]

MCFile == [p \in Pipelines |->
    CASE p = "concept" ->
            FileOf(FALSE, << <<Step(NoStepId, "inline", FALSE, {})>>,
                             <<Step(1, "inline", FALSE, {0}), Step(2, "none", TRUE, {0})>>,
                             <<Step(3, "inline", FALSE, {1, 2})>> >>,
                   << <<"central", "old">>, <<"concept">>, <<"central">> >>)
      [] p = "central" ->
            FileOf(FALSE, << <<Step(1, "reference", FALSE, {}), Step(2, "none", FALSE, {})>> >>, << <<>> >>)
      [] p = "old" -> FileOf(TRUE, <<>>, <<>>)]

MCLayers == <<Layer, Layer>>
=============================================================================
