--------------------------- MODULE MCSessionLink ---------------------------
EXTENDS SessionLink
=============================================================================
