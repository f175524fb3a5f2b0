----------------------------- MODULE MCRadioAudio -----------------------------
\* A small instance of RadioAudio for TLC.
EXTENDS RadioAudio
=============================================================================
