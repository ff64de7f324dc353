-------------------------------- MODULE TxLog --------------------------------
(***************************************************************************)
(* What a node promises about transactions: it may learn of any number of  *)
(* new ones at a time, moving the amounts of some of them there and then;  *)
(* the amount of one it already knows may still be moved later, but no     *)
(* amount is ever moved twice, and no transaction is ever forgotten.       *)
(***************************************************************************)
EXTENDS Naturals

CONSTANT Tx

VARIABLES seen,      \* the transactions known
          applied    \* how often the amount of each was moved

logVars == <<seen, applied>>

LogInit == seen = {} /\ applied = [t \in Tx |-> 0]

\* Learn of the transactions New and move the amounts of the part Moved.
Learn(New, Moved) ==
    /\ New \cap seen = {}
    /\ seen' = seen \cup New
    /\ applied' = [t \in Tx |-> applied[t] + IF t \in Moved THEN 1 ELSE 0]

\* Move the amount of a known transaction, for the first time.
Settle(t) ==
    /\ t \in seen
    /\ applied[t] = 0
    /\ applied' = [applied EXCEPT ![t] = 1]
    /\ UNCHANGED seen

LogNext == \/ \E New \in SUBSET Tx : \E Moved \in SUBSET New : Learn(New, Moved)
           \/ \E t \in Tx : Settle(t)

LogSpec == LogInit /\ [][LogNext]_logVars
=============================================================================
