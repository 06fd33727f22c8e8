---------------------------- MODULE MCMirrorBooks ----------------------------
(* Instances of MirrorBooks for TLC.                                       *)
EXTENDS MirrorBooks

CONSTANTS A, B

\* Two positions in one stock, a dear one and a cheap one in another.
MCStock == [p \in Parent |-> IF p = 2 THEN B ELSE A]
MCPrice == [p \in Parent |-> IF p = 2 THEN 2 ELSE 1]
MCGain  == {-1, 1}
MCLoss  == {-1}
=============================================================================
