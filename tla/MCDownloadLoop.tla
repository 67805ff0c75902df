--------------------------- MODULE MCDownloadLoop ---------------------------
(* Model checking of DownloadLoop on a file of a few bytes.                 *)
EXTENDS DownloadLoop
=============================================================================
