--------------------------- MODULE ValidatorsProofs ---------------------------
(***************************************************************************)
(* The accounts of Validators for any addresses, clock and number of stops.*)
(* An account is bounded by what the record of the address still allows:   *)
(* the reward it is owed this month, the deposit it holds.  The bounds are *)
(* needed of both copies of the record, for a stop puts the stored one in  *)
(* the place of the other; the stored one may be off by the method that is *)
(* between its two writes, which is what a stop then adds to cuts.         *)
(***************************************************************************)
EXTENDS Validators, TLAPS

\* What a record lets an address still get this month.
Due(record) == IF record # NoRecord /\ record < month THEN 1 ELSE 0

\* A stop now would count as a cut of this method.
Open(kind, a) == IF Between(kind, a) THEN 1 ELSE 0

RewardBound(a, record, slack) ==
    paid[a] + Due(record) <= month + adopted[a] + cuts["reward"][a] + slack
ReturnBound(a, record, slack) ==
    returned[a] + Held(record) <= taken[a] + adopted[a] + cuts["unregister"][a] + slack
KeepBound(a, record, slack) ==
    taken[a] <= returned[a] + Held(record) + cuts["register"][a] + slack

MemoryBounds(a) ==
    /\ RewardBound(a, enlisted[a], 0)
    /\ ReturnBound(a, enlisted[a], 0)
    /\ KeepBound(a, enlisted[a], 0)
DiskBounds(a) ==
    /\ RewardBound(a, stored[a], Open("reward", a))
    /\ ReturnBound(a, stored[a], Open("unregister", a))
    /\ KeepBound(a, stored[a], Open("register", a))

\* The second write of a method is all in which the copies may differ, and
\* the walk over the validators visits addresses that are validators still.
InStep(a) ==
    /\ enlisted[a] # stored[a] => op.kind \in Method \cup {"sync"} /\ op.addr = a
    /\ Running /\ a \in op.left => enlisted[a] # NoRecord

IInv == TypeOK /\ \A a \in Addr : MemoryBounds(a) /\ DiskBounds(a) /\ InStep(a)

LEMMA InitInv == Init => IInv
<1> SUFFICES ASSUME Init PROVE IInv
  OBVIOUS
<1>1. TypeOK
  BY ClockAssumption DEF Init, TypeOK, Operation, None, NoRecord, PeerTimes, Method
<1>2. ASSUME NEW a \in Addr PROVE MemoryBounds(a) /\ DiskBounds(a) /\ InStep(a)
  BY DEF Init, None, Method, MemoryBounds, DiskBounds, InStep, Running, RewardBound,
         ReturnBound, KeepBound, Due, Held, Open, Between, Idle, NoRecord
<1> QED  BY <1>1, <1>2 DEF IInv

\* What every step below needs to know of the counters.
LEMMA Counters ==
    ASSUME TypeOK, NEW a \in Addr
    PROVE  /\ month \in Nat /\ taken[a] \in Nat /\ returned[a] \in Nat
           /\ paid[a] \in Nat /\ adopted[a] \in Nat
           /\ cuts["register"][a] \in Nat /\ cuts["unregister"][a] \in Nat
           /\ cuts["reward"][a] \in Nat
           /\ enlisted[a] \in Int /\ stored[a] \in Int
BY ClockAssumption DEF TypeOK, Method, NoRecord, PeerTimes

LEMMA TypeStep == TypeOK /\ [Next]_vars => TypeOK'
<1> SUFFICES ASSUME TypeOK, [Next]_vars PROVE TypeOK'
  OBVIOUS
<1> USE ClockAssumption DEF TypeOK, NoRecord, PeerTimes
<1>0. CASE UNCHANGED vars
  BY <1>0 DEF vars, records, money
<1>1. ASSUME NEW a \in Addr, RegisterValidator(a) PROVE TypeOK'
  BY <1>1 DEF RegisterValidator, Bump, Operation, Method
<1>2. ASSUME NEW a \in Addr, UnregisterValidator(a) PROVE TypeOK'
  BY <1>2 DEF UnregisterValidator, Bump, Operation, Method
<1>3. ASSUME NEW a \in Addr, PayReward(a) PROVE TypeOK'
  <2>1. op.left \in SUBSET Addr
    BY <1>3 DEF PayReward, Operation, Idle, Method
  <2> QED  BY <1>3, <2>1 DEF PayReward, Bump, Operation, Method
<1>4. ASSUME NEW a \in Addr, PassOver(a) PROVE TypeOK'
  <2>1. op.left \in SUBSET Addr
    BY <1>4 DEF PassOver, Operation, Idle, Method
  <2> QED  BY <1>4, <2>1 DEF PassOver, GoOn, Operation, records, money
<1>5. ASSUME NEW a \in Addr, NEW r \in PeerTimes, SyncValidator(a, r) PROVE TypeOK'
  BY <1>5 DEF SyncValidator, Bump, Operation, money
<1>6. CASE ProcessValidatorRewards
  BY <1>6 DEF ProcessValidatorRewards, Operation, records, money
<1>7. CASE WalkNobody
  BY <1>7 DEF WalkNobody, Operation, records, money
<1>8. CASE StoreRecord
  <2>1. op.left \in SUBSET Addr /\ op.addr \in Addr
    BY <1>8 DEF StoreRecord, Operation, Idle, Method
  <2>2. op' \in Operation
    BY <1>8, <2>1 DEF StoreRecord, GoOn, Operation
  <2>3. stored' \in [Addr -> {NoRecord} \cup PeerTimes]
    BY <1>8, <2>1 DEF StoreRecord
  <2> QED  BY <1>8, <2>2, <2>3 DEF StoreRecord, money
<1>9. CASE MonthPasses
  BY <1>9 DEF MonthPasses, records, money
<1>10. CASE CrashAndRestart
  <2>1. cuts' \in [Method -> [Addr -> Nat]]
    BY <1>10 DEF CrashAndRestart
  <2>2. op' \in Operation
    BY <1>10 DEF CrashAndRestart, Operation
  <2> QED  BY <1>10, <2>1, <2>2 DEF CrashAndRestart, money
<1> QED
  BY <1>0, <1>1, <1>2, <1>3, <1>4, <1>5, <1>6, <1>7, <1>8, <1>9, <1>10 DEF Next

LEMMA NextInv == IInv /\ [Next]_vars => IInv'
<1> SUFFICES ASSUME IInv, [Next]_vars, NEW b \in Addr
             PROVE  (MemoryBounds(b) /\ DiskBounds(b) /\ InStep(b))'
  BY TypeStep DEF IInv
<1>a. TypeOK /\ MemoryBounds(b) /\ DiskBounds(b) /\ InStep(b)
  BY DEF IInv
<1>b. /\ month \in Nat /\ taken[b] \in Nat /\ returned[b] \in Nat
      /\ paid[b] \in Nat /\ adopted[b] \in Nat
      /\ cuts["register"][b] \in Nat /\ cuts["unregister"][b] \in Nat
      /\ cuts["reward"][b] \in Nat
      /\ enlisted[b] \in Int /\ stored[b] \in Int
  BY <1>a, Counters
<1> USE <1>a, <1>b, ClockAssumption
    DEF PeerTimes, MemoryBounds, DiskBounds, InStep, RewardBound, ReturnBound, KeepBound,
        Due, Held, Open, Between, NoRecord, Running, Method, TypeOK
<1>0. CASE UNCHANGED vars
  BY <1>0 DEF vars, records, money
<1>1. ASSUME NEW a \in Addr, RegisterValidator(a)
      PROVE  (MemoryBounds(b) /\ DiskBounds(b) /\ InStep(b))'
  BY <1>1 DEF RegisterValidator, Bump
<1>2. ASSUME NEW a \in Addr, UnregisterValidator(a)
      PROVE  (MemoryBounds(b) /\ DiskBounds(b) /\ InStep(b))'
  BY <1>2 DEF UnregisterValidator, Bump
<1>3. ASSUME NEW a \in Addr, PayReward(a)
      PROVE  (MemoryBounds(b) /\ DiskBounds(b) /\ InStep(b))'
  BY <1>3 DEF PayReward, Bump
<1>4. ASSUME NEW a \in Addr, PassOver(a)
      PROVE  (MemoryBounds(b) /\ DiskBounds(b) /\ InStep(b))'
  BY <1>4 DEF PassOver, GoOn, Idle, records, money
<1>5. ASSUME NEW a \in Addr, NEW r \in PeerTimes, SyncValidator(a, r)
      PROVE  (MemoryBounds(b) /\ DiskBounds(b) /\ InStep(b))'
  BY <1>5 DEF SyncValidator, Bump, money
<1>6. CASE ProcessValidatorRewards
  BY <1>6 DEF ProcessValidatorRewards, records, money
<1>7. CASE WalkNobody
  BY <1>7 DEF WalkNobody, Idle, records, money
<1>8. CASE StoreRecord
  BY <1>8 DEF StoreRecord, GoOn, Idle, money
<1>9. CASE MonthPasses
  BY <1>9 DEF MonthPasses, records, money
<1>10. CASE CrashAndRestart
  BY <1>10 DEF CrashAndRestart, Idle, money
<1> QED
  BY <1>0, <1>1, <1>2, <1>3, <1>4, <1>5, <1>6, <1>7, <1>8, <1>9, <1>10 DEF Next

LEMMA AlwaysInv == Spec => []IInv
<1> QED  BY InitInv, NextInv, PTL DEF Spec

\* The counts are natural numbers, and a record's time is one of the clock's
\* or one a peer may send.
THEOREM ValidatorsTyping == Spec => []TypeOK
<1>1. IInv => TypeOK
  BY DEF IInv
<1> QED  BY <1>1, AlwaysInv, PTL

\* No deposit is returned twice, save by a stop or a peer's record.
THEOREM ValidatorsReturn == Spec => []DepositsReturnedOnce
<1>1. IInv => DepositsReturnedOnce
  BY Counters DEF IInv, DepositsReturnedOnce, MemoryBounds, ReturnBound, Held
<1> QED  BY <1>1, AlwaysInv, PTL

\* No deposit is lost, save by a stop: it is back, or its record is stored.
THEOREM ValidatorsKeep == Spec => []DepositsAreKept
<1>1. IInv => DepositsAreKept
  BY Counters DEF IInv, DepositsAreKept, DiskBounds, KeepBound, Held, Open, Between, Running
<1> QED  BY <1>1, AlwaysInv, PTL

\* At most one reward a month, save by a stop or a peer's record.
THEOREM ValidatorsMonthly == Spec => []RewardsAreMonthly
<1>1. IInv => RewardsAreMonthly
  BY Counters DEF IInv, RewardsAreMonthly, MemoryBounds, RewardBound, Due
<1> QED  BY <1>1, AlwaysInv, PTL
=============================================================================
