------------------------------- MODULE MCWire -------------------------------
EXTENDS Wire
\* A screen whose bytes look like framing, and a plain one; F1; bytes that are a frame
\* only to the parser, a frame cut short, two frames, and no frame at all.
MCScreens == {<<243, 65, 113>>, <<253, 0, 255>>}
MCRawFrames ==
    { <<243, 65, 113, 7, 253>>, <<243, 65, 113, 7>>, <<1, 65, 113>>,
      Heartbeat.radio, Heartbeat.radio \o Heartbeat.radio }

Symmetry == Permutations(Writers)
=============================================================================
