-------------------------- MODULE MCMiniaudioSink ---------------------------
EXTENDS MiniaudioSink
=============================================================================
