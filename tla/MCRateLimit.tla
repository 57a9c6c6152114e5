---------------------------- MODULE MCRateLimit ----------------------------
EXTENDS RateLimit

CONSTANTS trade, query    \* two rest classes

\* In a second of five units, 2 requests a second leave slots of two units
\* (the division rounds down) and 5 a second slots of one.
MCRate == [c \in Classes |-> IF c = trade THEN 2 ELSE 5]
=============================================================================
