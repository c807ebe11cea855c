------------------------------ MODULE MCSales ------------------------------
(***************************************************************************)
(* Offers, the creation of deals, pipelines, custom fields and attachments.    *)
(* They share no rows, so every behaviour exercises one of them: part says      *)
(* which, and the others stay as they were.                                    *)
(***************************************************************************)
EXTENDS Offers, DealCreation, Pipelines, CustomFields, Attachments, TLC

VARIABLE part

SalesVars == <<part, vars, creationVars, pipelineVars, fieldVars, fileVars>>

SalesInit ==
  /\ part \in {"offers", "creation", "pipelines", "fields", "files"}
  /\ Init /\ CreationInit /\ PipelinesInit /\ FieldsInit /\ FilesInit

SalesNext ==
  /\ UNCHANGED part
  /\ \/ part = "offers" /\ Next
        /\ UNCHANGED <<creationVars, pipelineVars, fieldVars, fileVars>>
     \/ part = "creation" /\ CreationNext
        /\ UNCHANGED <<vars, pipelineVars, fieldVars, fileVars>>
     \/ part = "pipelines" /\ PipelinesNext
        /\ UNCHANGED <<vars, creationVars, fieldVars, fileVars>>
     \/ part = "fields" /\ FieldsNext
        /\ UNCHANGED <<vars, creationVars, pipelineVars, fileVars>>
     \/ part = "files" /\ FilesNext
        /\ UNCHANGED <<vars, creationVars, pipelineVars, fieldVars>>

SalesSpec == SalesInit /\ [][SalesNext]_SalesVars

\* The model values of the other components are the same (see the configuration).
Symmetry ==
  Permutations(Ids) \cup Permutations(Numbers) \cup Permutations(Accepts) \cup Permutations(Writers)
=============================================================================
