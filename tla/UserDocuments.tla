---------------------------- MODULE UserDocuments ----------------------------
(***************************************************************************)
(* The account, the works and the draft of a user side by side.  They      *)
(* share no document but the context manifest, whose writers do not read   *)
(* each other's fields, so a behaviour looks at one area at a time.        *)
(***************************************************************************)
EXTENDS AccountLinks, WorkDocuments, WorkOutputs

VARIABLE area

Init ==
    /\ area \in {"account", "works", "draft"}
    /\ TasksInit /\ AccountsInit /\ WorksInit /\ OutputsInit

Next ==
    \/ area = "account" /\ AccountsNext /\ UNCHANGED <<area, workVars, outputVars>>
    \/ area = "works" /\ WorksNext /\ UNCHANGED <<area, accountVars, outputVars>>
    \/ area = "draft" /\ OutputsNext /\ UNCHANGED <<area, accountVars, workVars>>

vars == <<area, req, faults, accountVars, workVars, outputVars>>

Spec == Init /\ [][Next]_vars
=============================================================================
