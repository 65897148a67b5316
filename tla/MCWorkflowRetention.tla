------------------------ MODULE MCWorkflowRetention ------------------------
(* Small sessions; the workflows are interchangeable. *)
EXTENDS WorkflowRetention

WorkflowSymmetry == Permutations(WorkflowIds)
=============================================================================
