------------------------ MODULE MCConcurrencyControl ------------------------
\* Up to three runners; every window and delay a few units of time long.
EXTENDS ConcurrencyControl
=============================================================================
