---------------------------- MODULE MCLimitSlot -----------------------------
(* Model checking of LimitSlot: any number of sends of a few values.        *)
EXTENDS LimitSlot
=============================================================================
