---------------------------- MODULE MCValidators -----------------------------
\* Instances of Validators for TLC: addresses are interchangeable.
EXTENDS Validators, TLC

Addresses == Permutations(Addr)
=============================================================================
