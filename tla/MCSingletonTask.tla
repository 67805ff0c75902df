--------------------------- MODULE MCSingletonTask --------------------------
\* One runner, bodies shorter and longer than the size, and unknown sizes.
EXTENDS SingletonTask

SingletonTotals == {NoTotal, 3, 5, 6}
=============================================================================
