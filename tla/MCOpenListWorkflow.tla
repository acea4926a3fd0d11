--------------------------- MODULE MCOpenListWorkflow ---------------------------
(* One task with OpenList, the snapshot cache and the other tasks' names.  *)
EXTENDS OpenListWorkflow
=============================================================================
