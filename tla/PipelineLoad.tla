----------------------------- MODULE PipelineLoad -----------------------------
(***************************************************************************)
(* What the DRO makes of a pipeline file: the checks of the walker, the    *)
(* layers of context the loader merges, and the step ids it gives.         *)
(* A file is a sequence of groups of steps; a step that stands alone is a  *)
(* group of one.                                                           *)
(***************************************************************************)
EXTENDS Naturals, Sequences, SequencesExt

CONSTANTS
    Pipelines,
    File,           \* File[p]: [legacy, persona, common, groups, actions]
    SharedLayers,   \* the GLOBAL layer and the persona's
    NoId            \* a step without an explicit id

\* _LLM_TOOL_ALLOWLIST: what a step may fetch of its own chain.
OwnChainTools == {"fetch_dialog", "fetch_step_output", "fetch_drawing", "list_drawings",
                  "fetch_outputs", "fetch_conversation"}

NoNames == [n \in {} |-> n]

\* _merge_dict: a union in which the later layer wins.
MergeDict(into, layer) ==
    [n \in DOMAIN into \cup DOMAIN layer |-> IF n \in DOMAIN layer THEN layer[n] ELSE into[n]]

\* _merge_list: entries in the order of the layers, none twice.
MergeList(into, layer) == into \o SelectSeq(layer, LAMBDA t : t \notin ToSet(into))

Merge(a, b) ==
    [inject |-> MergeDict(a.inject, b.inject), tools |-> MergeList(a.tools, b.tools)]

\* load_pipeline_cascaded: the shared layers, the pipeline's own and the step's.
CascadedCommon(p) ==
    FoldLeft(Merge, [inject |-> NoNames, tools |-> <<>>], Append(SharedLayers, File[p].common))

\* _validate_step_instructions: an object with one of its two keys.
InstructionsOk(raw) == raw.instructions \in {"none", "inline", "reference"}

\* _convert_single_step: a step without an id gets the (0-based) position of its group.
StepId(raw, k) == IF raw.id = NoId THEN k - 1 ELSE raw.id

Converted(p, raw, k) ==
    [id |-> StepId(raw, k),
     llm |-> raw.instructions # "none",
     tool |-> raw.tool,
     reads |-> raw.reads, result |-> raw.result,
     effective |-> Merge(CascadedCommon(p), [inject |-> raw.inject, tools |-> raw.tools])]

\* _coerce_to_orchestrator.
StepsOf(p) ==
    [k \in 1..Len(File[p].groups) |->
        [i \in 1..Len(File[p].groups[k]) |-> Converted(p, File[p].groups[k][i], k)]]

\* _assert_no_cross_persona_tools: it looks at the steps that stand alone only.
CrossPersonaTool(p) ==
    \E k \in 1..Len(StepsOf(p)) :
        /\ Len(StepsOf(p)[k]) = 1
        /\ ~(ToSet(StepsOf(p)[k][1].effective.tools) \subseteq OwnChainTools)

\* _assert_no_legacy_keys.
LegacyKeys(p) ==
    \/ File[p].legacy
    \/ \E k \in 1..Len(File[p].groups) : \E i \in 1..Len(File[p].groups[k]) :
          File[p].groups[k][i].instructions = "list"

\* load_pipeline raises on keys of the old format, bad instructions or a foreign tool.
Loads(p) ==
    /\ ~LegacyKeys(p)
    /\ \A k \in 1..Len(File[p].groups) : \A i \in 1..Len(File[p].groups[k]) :
          InstructionsOk(File[p].groups[k][i])
    /\ ~CrossPersonaTool(p)
=============================================================================
