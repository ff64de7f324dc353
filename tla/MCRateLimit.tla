----------------------------- MODULE MCRateLimit -----------------------------
\* Instances of RateLimit for TLC: an hour of two minutes of three ticks, with
\* room on the clock for nearly two hours.
EXTENDS RateLimit, TLC

CONSTANTS s, r1, r2

OneWay == {<<s, r1>>}
=============================================================================
