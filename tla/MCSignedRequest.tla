-------------------------- MODULE MCSignedRequest --------------------------
EXTENDS SignedRequest

MCInterval == [c \in Classes |-> IF c = TRADE THEN 1 ELSE 2]

\* base 100 ms, doubled per attempt and clamped: here one unit, then two.
MCBackoff == [a \in 0..MaxRetries |-> IF a = 0 THEN 1 ELSE 2]
=============================================================================
