-------------------------- MODULE MCJitterPlayout ---------------------------
EXTENDS JitterPlayout
=============================================================================
