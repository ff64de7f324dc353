----------------------------- MODULE Validators ------------------------------
(***************************************************************************)
(* The validators of a node: the records in bc.validators, the same        *)
(* records in the store, and the balance writes that take a deposit, give  *)
(* it back, or pay a month's reward.  Every method writes the balance and  *)
(* the record separately, and the program may stop in between and start    *)
(* again from the store.  Amounts are counted as writes: how many deposits *)
(* were taken and returned and how many rewards paid, per address.  Time   *)
(* is in months of thirty days.                                            *)
(***************************************************************************)
EXTENDS Integers, FiniteSets

CONSTANTS Addr,
          MaxMonths,    \* bound on the clock
          MaxDeposits,  \* bound on the registrations of an address
          MaxAdopted,   \* bound on the records of an address taken from peers
          MaxSkew,      \* bound on the months by which a peer's time lies
                        \* before the start of the clock or after its end
          MaxCrashes    \* bound on the stops

ASSUME ClockAssumption == MaxMonths \in Nat /\ MaxSkew \in Nat

VARIABLES
    enlisted,  \* memory: address -> the month of its last reward, or NoRecord
    stored,    \* disk: the same
    op,        \* the method running: bc.mu admits one
    month,     \* the clock
    crashes,   \* history: stops
    taken, returned, paid, \* history: address -> balance writes
    adopted,   \* history: address -> records taken from peers
    cuts       \* history: method -> address -> stops between its two writes

records == <<enlisted, stored>>
money == <<taken, returned, paid>>
vars == <<records, op, month, crashes, money, adopted, cuts>>

\* SyncValidator takes any time at all: long past, or of a month to come.
PeerTimes == -MaxSkew..(MaxMonths + MaxSkew)
NoRecord == -MaxSkew - 1
Idle == [kind |-> "idle"]
Method == {"register", "unregister", "reward"}
Operation ==
    {Idle} \cup [kind : {"walk"}, left : SUBSET Addr]
           \cup [kind : Method \cup {"sync"}, addr : Addr, left : SUBSET Addr]
Running == op.kind # "idle"

\* About to make the second write of a method, for address a.
Between(kind, a) == op.kind = kind /\ op.addr = a

None == [a \in Addr |-> 0]

Init ==
    /\ enlisted = [a \in Addr |-> NoRecord]
    /\ stored = [a \in Addr |-> NoRecord]
    /\ op = Idle
    /\ month = 0 /\ crashes = 0
    /\ taken = None /\ returned = None /\ paid = None /\ adopted = None
    /\ cuts = [kind \in Method |-> None]

Bump(f, a) == [f EXCEPT ![a] = @ + 1]

(***************************************************************************)
(* Registering and unregistering                                           *)
(***************************************************************************)
\* Mutant: an address that is a validator already may register again.
RegisterAgain(a) ==
    /\ ~Running /\ taken[a] < MaxDeposits
    /\ enlisted' = [enlisted EXCEPT ![a] = month]
    /\ taken' = Bump(taken, a)
    /\ op' = [kind |-> "register", addr |-> a, left |-> {}]
    /\ UNCHANGED <<stored, month, crashes, returned, paid, adopted, cuts>>

\* RegisterValidator as far as the balance write; the record is stored next.
RegisterValidator(a) ==
    /\ ~Running /\ enlisted[a] = NoRecord /\ taken[a] < MaxDeposits
    /\ enlisted' = [enlisted EXCEPT ![a] = month]
    /\ taken' = Bump(taken, a)
    /\ op' = [kind |-> "register", addr |-> a, left |-> {}]
    /\ UNCHANGED <<stored, month, crashes, returned, paid, adopted, cuts>>

\* UnregisterValidator as far as the balance write; the record goes next.
UnregisterValidator(a) ==
    /\ ~Running /\ enlisted[a] # NoRecord
    /\ returned' = Bump(returned, a)
    /\ enlisted' = [enlisted EXCEPT ![a] = NoRecord]
    /\ op' = [kind |-> "unregister", addr |-> a, left |-> {}]
    /\ UNCHANGED <<stored, month, crashes, taken, paid, adopted, cuts>>

(***************************************************************************)
(* Monthly rewards                                                         *)
(***************************************************************************)
\* ProcessValidatorRewards walks bc.validators, in Go's arbitrary map order.
ProcessValidatorRewards ==
    /\ ~Running
    /\ op' = [kind |-> "walk", left |-> {a \in Addr : enlisted[a] # NoRecord}]
    /\ UNCHANGED <<records, month, crashes, money, adopted, cuts>>

GoOn(left) == IF left = {} THEN Idle ELSE [kind |-> "walk", left |-> left]

\* Mutant: the next reward is due a month after the last one was due.
PayRewardArrears(a) ==
    /\ op.kind = "walk" /\ a \in op.left /\ month > enlisted[a]
    /\ paid' = Bump(paid, a)
    /\ UNCHANGED enlisted
    /\ op' = [kind |-> "reward", addr |-> a, left |-> op.left \ {a}]
    /\ UNCHANGED <<stored, month, crashes, taken, returned, adopted, cuts>>

\* One month's reward, however many have passed; the record is stored next.
PayReward(a) ==
    /\ op.kind = "walk" /\ a \in op.left /\ month > enlisted[a]
    /\ paid' = Bump(paid, a)
    /\ enlisted' = [enlisted EXCEPT ![a] = month]
    /\ op' = [kind |-> "reward", addr |-> a, left |-> op.left \ {a}]
    /\ UNCHANGED <<stored, month, crashes, taken, returned, adopted, cuts>>

\* Not a month since the last reward.
PassOver(a) ==
    /\ op.kind = "walk" /\ a \in op.left /\ month <= enlisted[a]
    /\ op' = GoOn(op.left \ {a})
    /\ UNCHANGED <<records, month, crashes, money, adopted, cuts>>

WalkNobody ==
    /\ op.kind = "walk" /\ op.left = {}
    /\ op' = Idle
    /\ UNCHANGED <<records, month, crashes, money, adopted, cuts>>

(***************************************************************************)
(* Records of peers, the second writes, time and stops                     *)
(***************************************************************************)
\* SyncValidator: a peer's record is taken if there is none, or an older one.
SyncValidator(a, lastReward) ==
    /\ ~Running /\ adopted[a] < MaxAdopted
    /\ enlisted[a] < lastReward
    /\ enlisted' = [enlisted EXCEPT ![a] = lastReward]
    /\ adopted' = Bump(adopted, a)
    /\ op' = [kind |-> "sync", addr |-> a, left |-> {}]
    /\ UNCHANGED <<stored, month, crashes, money, cuts>>

\* Mutant: the deletion is forgotten.
StoreRecordUnlessGone ==
    /\ op.kind \in Method \cup {"sync"}
    /\ stored' = IF enlisted[op.addr] = NoRecord THEN stored
                 ELSE [stored EXCEPT ![op.addr] = enlisted[op.addr]]
    /\ op' = GoOn(op.left)
    /\ UNCHANGED <<enlisted, month, crashes, money, adopted, cuts>>

\* SaveValidator or DeleteValidator: the store follows the memory.
StoreRecord ==
    /\ op.kind \in Method \cup {"sync"}
    /\ stored' = [stored EXCEPT ![op.addr] = enlisted[op.addr]]
    /\ op' = GoOn(op.left)
    /\ UNCHANGED <<enlisted, month, crashes, money, adopted, cuts>>

MonthPasses ==
    /\ month < MaxMonths
    /\ month' = month + 1
    /\ UNCHANGED <<records, op, crashes, money, adopted, cuts>>

\* The program stops anywhere, and NewBlockchain loads the stored records.
CrashAndRestart ==
    /\ crashes < MaxCrashes
    /\ crashes' = crashes + 1
    /\ cuts' = [kind \in Method |->
                  [a \in Addr |-> cuts[kind][a] + IF Between(kind, a) THEN 1 ELSE 0]]
    /\ enlisted' = stored
    /\ op' = Idle
    /\ UNCHANGED <<stored, month, money, adopted>>

Next ==
    \/ \E a \in Addr :
          \/ RegisterValidator(a) \/ UnregisterValidator(a)
          \/ PayReward(a) \/ PassOver(a)
          \/ \E lastReward \in PeerTimes : SyncValidator(a, lastReward)
    \/ ProcessValidatorRewards \/ WalkNobody
    \/ StoreRecord \/ MonthPasses \/ CrashAndRestart

Spec == Init /\ [][Next]_vars

(***************************************************************************)
(* Properties                                                              *)
(***************************************************************************)
Held(record) == IF record = NoRecord THEN 0 ELSE 1

\* Counts are natural numbers, and both copies of a record are of the clock's
\* months or of a peer's.
TypeOK ==
    /\ month \in 0..MaxMonths
    /\ {enlisted, stored} \subseteq [Addr -> {NoRecord} \cup PeerTimes]
    /\ {taken, returned, paid, adopted} \subseteq [Addr -> Nat]
    /\ cuts \in [Method -> [Addr -> Nat]]
    /\ op \in Operation

\* No deposit is returned that was not taken: only a stop in the middle of
\* UnregisterValidator, which returns it before it deletes the record, and a
\* record taken from a peer by SyncValidator give one back for nothing.
DepositsReturnedOnce ==
    \A a \in Addr : returned[a] <= taken[a] + adopted[a] + cuts["unregister"][a]

\* No deposit is lost: what was taken and not returned has its record, in the
\* store, whenever no method runs, save for stops in the middle of
\* RegisterValidator, which takes the deposit before it stores the record.
DepositsAreKept ==
    ~Running =>
        \A a \in Addr :
            taken[a] <= returned[a] + Held(stored[a]) + cuts["register"][a]

\* An address gets no more monthly rewards than months have passed, in however
\* many registrations: only a stop between the reward and the time of it, and
\* an older record taken from a peer, let a month be paid again.
RewardsAreMonthly ==
    \A a \in Addr : paid[a] <= month + adopted[a] + cuts["reward"][a]
=============================================================================
