--------------------------- MODULE MCFfplaySink ---------------------------
EXTENDS FfplaySink
=============================================================================
