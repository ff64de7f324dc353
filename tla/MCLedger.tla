------------------------------ MODULE MCLedger -------------------------------
\* Instances of Ledger for TLC.
EXTENDS Ledger, TLC

\* Transaction ids are interchangeable, and so are addresses.
IdsAndAddresses == Permutations(TxId) \cup Permutations(Addr)
=============================================================================
