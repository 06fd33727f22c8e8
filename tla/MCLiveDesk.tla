----------------------------- MODULE MCLiveDesk -----------------------------
(* Instances of LiveDesk for TLC.                                          *)
EXTENDS LiveDesk

CONSTANTS lab, post, closeout, panic, s1, s2, cas, reg

\* The clock: 0 entries allowed, 1 past the entry cutoff, in the close-out loop's
\* window and due for the desk's square-off, 2 the broker's square-off has begun.
SoonDue  == [y \in Symbol |-> 1]
SoonFrom == [y \in Symbol |-> 2]
=============================================================================
