------------------------------ MODULE MCAccept ------------------------------
\* SubmissionAccept for TLC: a request, its retry, the same request ID with
\* another payload, a second key whose hash collides with the first, and a
\* third whose hash does not.
EXTENDS SubmissionAccept

CONSTANTS c1, c2, c3, c4, c5, k1, k2, k3, p1, p2, p3

MCCalls == {c1, c2, c3, c4, c5}
MCKeyOf == [c \in MCCalls |-> CASE c = c4 -> k2
                                [] c = c5 -> k3
                                [] OTHER -> k1]
MCPayloadOf == [c \in MCCalls |-> CASE c = c3 -> p2
                                    [] c = c4 -> p3
                                    [] OTHER -> p1]
MCHash == [k \in {k1, k2, k3} |-> IF k = k3 THEN k3 ELSE k1]
=============================================================================
