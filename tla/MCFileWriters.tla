--------------------------- MODULE MCFileWriters ----------------------------
(* Model checking of FileWriters on a few writes, with every backend.       *)
EXTENDS FileWriters
=============================================================================
