------------------------------ MODULE UtxoStore ------------------------------
(***************************************************************************)
(* The two places where a node keeps transaction outputs, as functions     *)
(* from keys to records: the individual records of storage/leveldb.go      *)
(* (keys utxo_<txid>_<idx>) and the one "set" value of models/utxo.go,     *)
(* saved under utxo_set.  A key is a pair <<transaction id, index>>.       *)
(*                                                                         *)
(* The set is indexed by txid + ":" + string(idx), where string() of an    *)
(* int is the character with that code point, while the core looks entries *)
(* up by fmt.Sprintf("%s:%d", txid, idx), the decimal digits.  A key of    *)
(* the set is therefore <<txid, code point>>, and the decimal key of       *)
(* output idx is a one-character key only for one digit, the character '0' *)
(* + idx.                                                                  *)
(***************************************************************************)
EXTENDS Integers, Functions

CONSTANT TxId        \* transaction ids (sha256 of the contents)

Ref == TxId \X Nat   \* <<transaction id, output index or code point>>

Output(amount, owner) == [amount |-> amount, owner |-> owner]

Rec(out) == [amount |-> out.amount, owner |-> out.owner, spent |-> FALSE]

\* Later writes win: the key-value semantics of a Put of every entry of new.
SaveAll(store, new) ==
    [r \in DOMAIN store \cup DOMAIN new |->
        IF r \in DOMAIN new THEN new[r] ELSE store[r]]

\* Marking an absent output is an error the callers log and ignore.
MarkSpent(store, refs) ==
    [r \in DOMAIN store |->
        IF r \in refs THEN [store[r] EXCEPT !.spent = TRUE] ELSE store[r]]

\* The outputs of one transaction, numbered from 0.
OutputsOf(t, outs) ==
    [r \in {<<t, i - 1>> : i \in DOMAIN outs} |-> Rec(outs[r[2] + 1])]

Unspent(store, a) ==
    {r \in DOMAIN store : store[r].owner = a /\ ~store[r].spent}

ValueOf(store, refs) ==
    SumFunctionOnSet([r \in refs |-> store[r].amount], refs)

UnspentValue(store, a) == ValueOf(store, Unspent(store, a))

\* The key fmt.Sprintf("%s:%d") builds, as a key of the set: a decimal index
\* of one digit is the single character with code point 48 + idx; one of two
\* digits or more is never a key of the set.
DecimalKeys(refs) == {<<r[1], 48 + r[2]>> : r \in {q \in refs : q[2] < 10}}

\* What FindSpendableUTXOs can return: it walks the set in Go's arbitrary map
\* order and stops as soon as the amount is reached.
Spendable(store, a, amount) ==
    {I \in SUBSET Unspent(store, a) :
        /\ I # {}
        /\ ValueOf(store, I) >= amount
        /\ \E final \in I : ValueOf(store, I \ {final}) < amount}

\* Every entry of the set names an individual record of the same output.
Mirrors(set, store) ==
    \A r \in DOMAIN set :
        /\ r \in DOMAIN store
        /\ set[r].amount = store[r].amount
        /\ set[r].owner = store[r].owner

\* An output once recorded keeps its amount and owner, and once spent it
\* stays spent.
OnlyGrows(old, new) ==
    \A r \in DOMAIN old :
        /\ r \in DOMAIN new
        /\ new[r].amount = old[r].amount
        /\ new[r].owner = old[r].owner
        /\ old[r].spent => new[r].spent
=============================================================================
