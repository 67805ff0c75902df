--------------------------- MODULE MCHttpAdapter ----------------------------
(* Model checking of HttpAdapter; the constants are in the configurations. *)
EXTENDS HttpAdapter
=============================================================================
