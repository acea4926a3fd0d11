--------------------------- MODULE MCDownloadService ---------------------------
(* Small instances of DownloadService for TLC.                             *)
EXTENDS DownloadService, TLC

Symmetry == Permutations(Tasks)
===============================================================================
