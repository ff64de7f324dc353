---------------------------- MODULE MCCrashStore -----------------------------
\* Instances of CrashStore for TLC: transactions of the same kind of sender
\* are interchangeable.
EXTENDS CrashStore, TLC

Users == TxId \ (FromSystem \cup Genesis)

Ids == {f @@ g @@ [t \in Genesis |-> t] :
            f \in Permutations(Users), g \in Permutations(FromSystem \ Genesis)}
=============================================================================
