---------------------------- MODULE MCRadioScreen ----------------------------
\* A small instance of RadioScreen for TLC.
EXTENDS RadioScreen
=============================================================================
