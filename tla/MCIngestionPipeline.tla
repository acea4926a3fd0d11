------------------------- MODULE MCIngestionPipeline -------------------------
(* Small instances of IngestionPipeline for TLC.                           *)
EXTENDS IngestionPipeline

(* No subscription bears the name of a release submitted by hand ...       *)
NoneNamed == [s \in Sources |-> {}]
(* ... or every subscription does.                                         *)
AllNamed == [s \in Sources |-> Urls]

Symmetry == Permutations(Tasks) \cup Permutations(DownloadWorkers)
=============================================================================
