------------------------------ MODULE MCServer -------------------------------
(* Two browsers of each kind.                                                 *)
EXTENDS Server

CONSTANTS s1, s2, w1, w2

TwoStreams == {s1, s2}
TwoSockets == {w1, w2}

\* ToldIsOver (TaskStream) for one of the streams: they are alike, so what holds of
\* this one holds of the other.
AStreamIsOver == ToldIsOver(s1)
=============================================================================
