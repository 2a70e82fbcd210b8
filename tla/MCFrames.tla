----------------------------- MODULE MCFrames ------------------------------
(* Bytes of one bit and words of two: ids of four bits that no exchange of *)
(* bytes leaves as they are, bodies of length zero to one too many.        *)
EXTENDS Frames

MCIds == {1, 11}
MCBodies == {<<>>, <<1>>, <<1, 0>>, <<1, 0, 1>>}
=============================================================================
