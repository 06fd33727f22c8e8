---------------------------- MODULE MCTokenManager ---------------------------
(* Instances of TokenManager for TLC.                                      *)
EXTENDS TokenManager

CONSTANTS loop, manual, request

\* The loop's margin is two hours, a request's half an hour; the manual route has none,
\* and so begins whenever a request may.
MCMargin == [c \in Caller |-> CASE c = loop    -> {"old", "stale"}
                                [] c = request -> {"stale"}
                                [] c = manual  -> Life]
=============================================================================
