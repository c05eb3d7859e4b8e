--------------------------- MODULE MCStepExecution ---------------------------
(* One chain: two RTs at once, then a tool. *)
EXTENDS StepExecution

CONSTANTS c1, r1, r2, t1

MCPlan == c1 :> <<{r1, r2}, {t1}>>
MCConfigs == {[sdk |-> "openai", model |-> "o3", fallback |-> "mini"],
              [sdk |-> "claude", model |-> "opus", fallback |-> "opus"]}
MCParts == r1 :> {"source", "document"} @@ r2 :> {"source", "instructions"} @@ t1 :> {}
MCUnlisted == [sdk |-> "none", model |-> "none", fallback |-> "none"]
===============================================================================
