--------------------------- MODULE MCTaskLifecycle --------------------------
(* Model checking of TaskLifecycle on a resource of a few bytes.            *)
EXTENDS TaskLifecycle
=============================================================================
