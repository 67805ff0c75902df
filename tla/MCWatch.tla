------------------------------ MODULE MCWatch -------------------------------
(* Model checking of Watch: a few publications, two publishing threads.     *)
EXTENDS Watch
=============================================================================
