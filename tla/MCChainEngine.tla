---------------------------- MODULE MCChainEngine ----------------------------
(* Instances of ChainEngine: which chain runs which pipeline.               *)
EXTENDS ChainEngine, TLC

CONSTANTS c1, c2, p1, p2

\* Both chains run the same pipeline, or each its own.
SamePipeline == [c \in Chains |-> p1]
OwnPipeline == [c \in Chains |-> IF c = c1 THEN p1 ELSE p2]
=============================================================================
