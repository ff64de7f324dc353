--------------------------- MODULE NodeLocksProofs ---------------------------
(***************************************************************************)
(* Theorems about NodeLocks, for any number of goroutines and any menus.   *)
(* What a goroutine holds is a function of its place in its call: every    *)
(* call is annotated with the locks held before each of its operations,    *)
(* and the annotation is built along the way the call is put together.     *)
(***************************************************************************)
EXTENDS NodeLocks, FiniteSetTheorems, TLAPS

Operation == [kind : {"RLock", "RUnlock", "Lock", "Unlock"}, lock : Lock]

\* What a goroutine holds: the depth of its read locks, its write locks.
Holding == [reads : [Lock -> Nat], writes : SUBSET Lock]
Nothing == [reads |-> [l \in Lock |-> 0], writes |-> {}]
Read(h, l) == [reads |-> [h.reads EXCEPT ![l] = @ + 1], writes |-> h.writes]
Write(h, l) == [reads |-> h.reads, writes |-> h.writes \cup {l}]

After(op, h) ==
    [reads |-> [l \in Lock |-> h.reads[l] +
                  IF l # op.lock THEN 0 ELSE IF op.kind = "RLock" THEN 1
                  ELSE IF op.kind = "RUnlock" THEN -1 ELSE 0],
     writes |-> IF op.kind = "Lock" THEN h.writes \cup {op.lock}
                ELSE IF op.kind = "Unlock" THEN h.writes \ {op.lock} ELSE h.writes]

\* An operation that fits what is held: no more than two read locks nest.
Legal(op, h) ==
    /\ op.kind = "RLock" => h.reads[op.lock] <= 1
    /\ op.kind = "RUnlock" => h.reads[op.lock] > 0
    /\ op.kind = "Lock" => op.lock \notin h.writes
    /\ op.kind = "Unlock" => op.lock \in h.writes

Acquires(op) == op.kind \in {"RLock", "Lock"}
Holds(h, l) == h.reads[l] > 0 \/ l \in h.writes

\* The order of the locks: the blockchain's before all others, with the two
\* exceptions of a read lock under the same write lock, which hangs, and of the
\* store's nested read lock.
Ordered(op, h) ==
    Acquires(op) =>
        \A k \in Lock : Holds(h, k) =>
            \/ k = "bc" /\ op.lock # "bc"
            \/ op.kind = "RLock" /\ k = op.lock /\ k \in h.writes
            \/ op.kind = "RLock" /\ k = op.lock /\ k = "st" /\ h.reads["st"] > 0

\* The blockchain's lock covers the store's: its write lock every write, and
\* either of them a nested read.
Covered(op, h) ==
    /\ op = Op("Lock", "st") => "bc" \in h.writes
    /\ op = Op("RLock", "st") /\ h.reads["st"] > 0 => Holds(h, "bc")

\* H annotates the operations ops, from holding h to holding k; strict asks for
\* the cover of the blockchain's lock.
Annotates(H, ops, h, k, strict) ==
    /\ H[1] = h /\ H[Len(ops) + 1] = k
    /\ \A i \in 1..Len(ops) :
         /\ Legal(ops[i], H[i]) /\ H[i + 1] = After(ops[i], H[i])
         /\ Ordered(ops[i], H[i]) /\ (strict => Covered(ops[i], H[i]))

Segment(ops, h, k, strict) ==
    /\ ops \in Seq(Operation)
    /\ \E H \in [1..Len(ops) + 1 -> Holding] : Annotates(H, ops, h, k, strict)

-----------------------------------------------------------------------------
\* Segments and how they are put together

LEMMA SegmentEmpty ==
    ASSUME NEW h \in Holding, NEW strict
    PROVE  Segment(<< >>, h, h, strict)
<1> DEFINE H == [i \in 1..1 |-> h]
<1>1. H \in [1..Len(<< >>) + 1 -> Holding]
  OBVIOUS
<1>2. Annotates(H, << >>, h, h, strict)
  BY DEF Annotates
<1> QED  BY <1>1, <1>2 DEF Segment

LEMMA SegmentOne ==
    ASSUME NEW h \in Holding, NEW op \in Operation, NEW strict,
           Legal(op, h), Ordered(op, h), strict => Covered(op, h), After(op, h) \in Holding
    PROVE  Segment(<<op>>, h, After(op, h), strict)
<1> DEFINE H == [i \in 1..2 |-> IF i = 1 THEN h ELSE After(op, h)]
<1>1. <<op>> \in Seq(Operation) /\ Len(<<op>>) = 1 /\ <<op>>[1] = op
  OBVIOUS
<1>2. H \in [1..Len(<<op>>) + 1 -> Holding]
  BY <1>1
<1>3. H[1] = h /\ H[2] = After(op, h)
  OBVIOUS
<1> HIDE DEF H
<1>4. Annotates(H, <<op>>, h, After(op, h), strict)
  BY <1>1, <1>3 DEF Annotates
<1> QED  BY <1>1, <1>2, <1>4 DEF Segment

LEMMA SegmentConcat ==
    ASSUME NEW a, NEW b, NEW h, NEW k, NEW m, NEW strict,
           Segment(a, h, k, strict), Segment(b, k, m, strict)
    PROVE  Segment(a \o b, h, m, strict)
<1>1. /\ a \in Seq(Operation) /\ b \in Seq(Operation)
      /\ Len(a) \in Nat /\ Len(b) \in Nat
  BY DEF Segment
<1>2. PICK A \in [1..Len(a) + 1 -> Holding] : Annotates(A, a, h, k, strict)
  BY DEF Segment
<1>3. PICK B \in [1..Len(b) + 1 -> Holding] : Annotates(B, b, k, m, strict)
  BY DEF Segment
<1> DEFINE n == Len(a) + Len(b)
           H == [i \in 1..n + 1 |-> IF i <= Len(a) THEN A[i] ELSE B[i - Len(a)]]
<1>4. /\ a \o b \in Seq(Operation) /\ Len(a \o b) = n
      /\ \A i \in 1..n : (a \o b)[i] = IF i <= Len(a) THEN a[i] ELSE b[i - Len(a)]
  BY <1>1
<1>5. H \in [1..n + 1 -> Holding]
  BY <1>1
<1>6. A[1] = h /\ A[Len(a) + 1] = k /\ B[1] = k /\ B[Len(b) + 1] = m
  BY <1>2, <1>3 DEF Annotates
<1>7. \A i \in 1..Len(a) + 1 : H[i] = A[i]
  BY <1>1, <1>6
<1>8. \A i \in 1..Len(b) + 1 : H[i + Len(a)] = B[i]
  BY <1>1, <1>6
<1> HIDE DEF H
<1>9. ASSUME NEW i \in 1..n
      PROVE  /\ Legal((a \o b)[i], H[i]) /\ H[i + 1] = After((a \o b)[i], H[i])
             /\ Ordered((a \o b)[i], H[i]) /\ (strict => Covered((a \o b)[i], H[i]))
  <2>1. CASE i <= Len(a)
    <3>1. /\ i \in 1..Len(a) /\ (a \o b)[i] = a[i] /\ H[i] = A[i] /\ H[i + 1] = A[i + 1]
      BY <1>1, <1>4, <1>7, <2>1
    <3> QED  BY <1>2, <3>1 DEF Annotates
  <2>2. CASE i > Len(a)
    <3> DEFINE j == i - Len(a)
    <3>1. /\ j \in 1..Len(b) /\ (a \o b)[i] = b[j] /\ j + Len(a) = i
      BY <1>1, <1>4, <2>2
    <3>2. H[i] = B[j] /\ H[i + 1] = B[j + 1]
      <4>1. j + 1 \in 1..Len(b) + 1 /\ j \in 1..Len(b) + 1 /\ (j + 1) + Len(a) = i + 1
        BY <1>1, <3>1
      <4> QED  BY SMTT(30), <1>8, <3>1, <4>1
    <3> HIDE DEF j
    <3> QED  BY <1>3, <3>1, <3>2 DEF Annotates
  <2> QED  BY <1>1, <2>1, <2>2
<1>10. H[1] = h /\ H[n + 1] = m
  BY <1>1, <1>6, <1>7, <1>8
<1>11. Annotates(H, a \o b, h, m, strict)
  BY <1>4, <1>9, <1>10 DEF Annotates
<1> QED  BY <1>4, <1>5, <1>11 DEF Segment

LEMMA HoldingFacts ==
    ASSUME NEW h \in Holding, NEW l \in Lock
    PROVE  /\ Op("RLock", l) \in Operation /\ Op("RUnlock", l) \in Operation
           /\ Op("Lock", l) \in Operation /\ Op("Unlock", l) \in Operation
           /\ Read(h, l) \in Holding /\ Write(h, l) \in Holding
           /\ After(Op("RLock", l), h) = Read(h, l)
           /\ After(Op("RUnlock", l), Read(h, l)) = h
           /\ Read(h, l).reads[l] = h.reads[l] + 1
           /\ After(Op("Lock", l), h) = Write(h, l)
           /\ l \notin h.writes => After(Op("Unlock", l), Write(h, l)) = h
<1>1. /\ h.reads \in [Lock -> Nat] /\ h.writes \in SUBSET Lock
      /\ h = [reads |-> h.reads, writes |-> h.writes]
  BY DEF Holding
<1>2. /\ Op("RLock", l) \in Operation /\ Op("RUnlock", l) \in Operation
      /\ Op("Lock", l) \in Operation /\ Op("Unlock", l) \in Operation
  BY DEF Op, Operation
<1>3. /\ Read(h, l) = [reads |-> [h.reads EXCEPT ![l] = @ + 1], writes |-> h.writes]
      /\ Write(h, l) = [reads |-> h.reads, writes |-> h.writes \cup {l}]
  BY <1>1 DEF Read, Write
<1>4. Read(h, l) \in Holding /\ Write(h, l) \in Holding
  BY <1>1, <1>3 DEF Holding
<1>5. After(Op("RLock", l), h) = Read(h, l)
  <2>1. [k \in Lock |-> h.reads[k] + IF k # l THEN 0 ELSE 1] = [h.reads EXCEPT ![l] = @ + 1]
    BY <1>1
  <2> QED  BY <1>3, <2>1 DEF After, Op
<1>6. After(Op("RUnlock", l), Read(h, l)) = h
  <2>1. [k \in Lock |-> [h.reads EXCEPT ![l] = @ + 1][k] + IF k # l THEN 0 ELSE -1] = h.reads
    BY <1>1
  <2> QED  BY <1>1, <1>3, <2>1 DEF After, Op
<1>7. [k \in Lock |-> h.reads[k] + IF k # l THEN 0 ELSE 0] = h.reads
  BY <1>1
<1>8. After(Op("Lock", l), h) = Write(h, l)
  BY <1>3, <1>7 DEF After, Op
<1>9. l \notin h.writes => After(Op("Unlock", l), Write(h, l)) = h
  <2>1. l \notin h.writes => (h.writes \cup {l}) \ {l} = h.writes
    OBVIOUS
  <2> QED  BY <1>1, <1>3, <1>7, <2>1 DEF After, Op
<1>10. Read(h, l).reads[l] = h.reads[l] + 1
  BY <1>1, <1>3
<1> QED  BY <1>2, <1>4, <1>5, <1>6, <1>8, <1>9, <1>10

LEMMA SegmentReading ==
    ASSUME NEW h \in Holding, NEW l \in Lock, NEW body, NEW strict,
           Segment(body, Read(h, l), Read(h, l), strict),
           h.reads[l] <= 1, Ordered(Op("RLock", l), h), strict => Covered(Op("RLock", l), h)
    PROVE  Segment(Reading(l, body), h, h, strict)
<1>1. Legal(Op("RLock", l), h)
  BY DEF Legal, Op
<1>2. Segment(<<Op("RLock", l)>>, h, Read(h, l), strict)
  BY <1>1, HoldingFacts, SegmentOne
<1>3. /\ Legal(Op("RUnlock", l), Read(h, l)) /\ Ordered(Op("RUnlock", l), Read(h, l))
      /\ Covered(Op("RUnlock", l), Read(h, l))
  <2>1. Read(h, l).reads[l] > 0
    BY HoldingFacts DEF Holding
  <2> QED  BY <2>1 DEF Legal, Ordered, Covered, Acquires, Op
<1>4. Segment(<<Op("RUnlock", l)>>, Read(h, l), h, strict)
  <2>1. After(Op("RUnlock", l), Read(h, l)) = h /\ Read(h, l) \in Holding
        /\ Op("RUnlock", l) \in Operation
    BY HoldingFacts
  <2> QED  BY <1>3, <2>1, SegmentOne
<1>5. Segment(<<Op("RLock", l)>> \o body, h, Read(h, l), strict)
  BY <1>2, SegmentConcat
<1> QED  BY <1>4, <1>5, SegmentConcat DEF Reading

LEMMA SegmentWriting ==
    ASSUME NEW h \in Holding, NEW l \in Lock, NEW body, NEW strict,
           Segment(body, Write(h, l), Write(h, l), strict),
           l \notin h.writes, Ordered(Op("Lock", l), h), strict => Covered(Op("Lock", l), h)
    PROVE  Segment(Writing(l, body), h, h, strict)
<1>1. Legal(Op("Lock", l), h)
  BY DEF Legal, Op
<1>2. Segment(<<Op("Lock", l)>>, h, Write(h, l), strict)
  BY <1>1, HoldingFacts, SegmentOne
<1>3. /\ Legal(Op("Unlock", l), Write(h, l)) /\ Ordered(Op("Unlock", l), Write(h, l))
      /\ Covered(Op("Unlock", l), Write(h, l))
  <2>1. l \in Write(h, l).writes
    BY DEF Holding, Write
  <2> QED  BY <2>1 DEF Legal, Ordered, Covered, Acquires, Op
<1>4. Segment(<<Op("Unlock", l)>>, Write(h, l), h, strict)
  <2>1. After(Op("Unlock", l), Write(h, l)) = h /\ Write(h, l) \in Holding
        /\ Op("Unlock", l) \in Operation
    BY HoldingFacts
  <2> QED  BY <1>3, <2>1, SegmentOne
<1>5. Segment(<<Op("Lock", l)>> \o body, h, Write(h, l), strict)
  BY <1>2, SegmentConcat
<1> QED  BY <1>4, <1>5, SegmentConcat DEF Writing

-----------------------------------------------------------------------------
\* The store's methods

\* No lock is held, or only the blockchain's.
OnlyBc(h) == h \in Holding /\ \A k \in Lock : Holds(h, k) => k = "bc"

LEMMA OnlyBcFacts ==
    /\ OnlyBc(Nothing) /\ ~Holds(Nothing, "bc")
    /\ LET w == Write(Nothing, "bc")
       IN  OnlyBc(w) /\ Holds(w, "bc") /\ "bc" \in w.writes /\ w.reads["bc"] = 0
           /\ OnlyBc(Read(w, "bc")) /\ Holds(Read(w, "bc"), "bc")
    /\ OnlyBc(Read(Nothing, "bc")) /\ Holds(Read(Nothing, "bc"), "bc")
<1> DEFINE w == Write(Nothing, "bc")
<1>1. Nothing \in Holding /\ "bc" \in Lock
  BY DEF Nothing, Holding, Lock
<1>2. /\ Nothing.reads = [l \in Lock |-> 0] /\ Nothing.writes = {}
      /\ w.reads = [l \in Lock |-> 0] /\ w.writes = {"bc"}
  BY DEF Nothing, Write
<1>3. w \in Holding /\ Read(w, "bc") \in Holding /\ Read(Nothing, "bc") \in Holding
  BY <1>1, HoldingFacts
<1> HIDE DEF w
<1>4. /\ Read(w, "bc").reads = [[l \in Lock |-> 0] EXCEPT !["bc"] = 1]
      /\ Read(w, "bc").writes = {"bc"}
      /\ Read(Nothing, "bc").reads = [[l \in Lock |-> 0] EXCEPT !["bc"] = 1]
      /\ Read(Nothing, "bc").writes = {}
  BY <1>1, <1>2 DEF Read
<1>5. OnlyBc(Nothing) /\ ~Holds(Nothing, "bc")
  BY <1>1, <1>2 DEF OnlyBc, Holds
<1>6. OnlyBc(w) /\ Holds(w, "bc") /\ "bc" \in w.writes /\ w.reads["bc"] = 0
  BY <1>1, <1>2, <1>3 DEF OnlyBc, Holds
<1>7. OnlyBc(Read(w, "bc")) /\ Holds(Read(w, "bc"), "bc")
  BY <1>1, <1>3, <1>4 DEF OnlyBc, Holds
<1>8. OnlyBc(Read(Nothing, "bc")) /\ Holds(Read(Nothing, "bc"), "bc")
  BY <1>1, <1>3, <1>4 DEF OnlyBc, Holds
<1> QED  BY <1>5, <1>6, <1>7, <1>8 DEF w

LEMMA OrderedUnderBc ==
    ASSUME NEW h, OnlyBc(h), NEW l \in Lock \ {"bc"}
    PROVE  /\ h \in Holding /\ h.reads[l] = 0 /\ l \notin h.writes
           /\ Ordered(Op("RLock", l), h) /\ Covered(Op("RLock", l), h)
           /\ Ordered(Op("Lock", l), h)
           /\ l # "st" \/ "bc" \in h.writes => Covered(Op("Lock", l), h)
  BY DEF OnlyBc, Ordered, Covered, Holds, Holding, Op, Acquires, Lock

LEMMA ReadSegment ==
    ASSUME NEW h, OnlyBc(h), NEW l \in Lock \ {"bc"}, NEW strict
    PROVE  Segment(Reading(l, << >>), h, h, strict)
  BY OrderedUnderBc, SegmentReading, SegmentEmpty, HoldingFacts

LEMMA WriteSegment ==
    ASSUME NEW h, OnlyBc(h), NEW l \in Lock \ {"bc"}, NEW strict,
           strict => l # "st" \/ "bc" \in h.writes
    PROVE  Segment(Writing(l, << >>), h, h, strict)
  BY OrderedUnderBc, SegmentWriting, SegmentEmpty, HoldingFacts

LEMMA StoreSegments ==
    ASSUME NEW h, OnlyBc(h), NEW strict
    PROVE  /\ Segment(Get, h, h, strict)
           /\ (strict => "bc" \in h.writes) => Segment(Put, h, h, strict)
           /\ (strict => Holds(h, "bc")) => Segment(StoreGetBalance, h, h, strict)
<1>1. "st" \in Lock \ {"bc"}
  BY DEF Lock
<1>2. Segment(Get, h, h, strict)
  BY <1>1, ReadSegment DEF Get
<1>3. ASSUME strict => "bc" \in h.writes PROVE Segment(Put, h, h, strict)
  BY <1>1, <1>3, WriteSegment DEF Put
<1>4. ASSUME strict => Holds(h, "bc") PROVE Segment(StoreGetBalance, h, h, strict)
  <2> DEFINE r == Read(h, "st")
  <2>1. h \in Holding /\ h.reads["st"] = 0 /\ "st" \notin h.writes
        /\ Ordered(Op("RLock", "st"), h) /\ Covered(Op("RLock", "st"), h)
    BY <1>1, OrderedUnderBc
  <2>2. r \in Holding /\ r.reads["st"] = 1
    BY <1>1, <2>1, HoldingFacts
  <2>3. Ordered(Op("RLock", "st"), r) /\ (strict => Covered(Op("RLock", "st"), r))
    BY <1>4, <2>1, <2>2 DEF OnlyBc, Ordered, Covered, Holds, Holding, Op, Acquires, Lock, Read
  <2>4. Segment(Get, r, r, strict)
    BY <1>1, <2>2, <2>3, SegmentReading, SegmentEmpty, HoldingFacts DEF Get
  <2> QED  BY <1>1, <2>1, <2>4, SegmentReading DEF StoreGetBalance
<1> QED  BY <1>2, <1>3, <1>4

-----------------------------------------------------------------------------
\* The calls

\* Every call ends holding nothing and keeps the order of the locks, and all but
\* the two that go to the store directly do so under the blockchain's lock.
LEMMA Calls ==
    ASSUME NEW name \in DOMAIN Program, NEW strict, strict => name \notin StoreCallers
    PROVE  Segment(Program[name], Nothing, Nothing, strict)
<1> DEFINE r == Read(Nothing, "bc")
           w == Write(Nothing, "bc")
           rw == Read(w, "bc")
           N(ops) == Segment(ops, Nothing, Nothing, strict)
           Rd(ops) == Segment(ops, r, r, strict)
           Wr(ops) == Segment(ops, w, w, strict)
<1>1. Nothing \in Holding /\ w \in Holding /\ "bc" \in Lock /\ "peers" \in Lock \ {"bc"}
      /\ "rt" \in Lock \ {"bc"} /\ "st" \in Lock \ {"bc"}
  BY OnlyBcFacts DEF OnlyBc, Lock
<1>2. ASSUME NEW ops, Rd(ops) PROVE N(Reading("bc", ops))
  <2>1. Nothing.reads["bc"] <= 1 /\ Ordered(Op("RLock", "bc"), Nothing)
        /\ Covered(Op("RLock", "bc"), Nothing)
    BY <1>1 DEF Nothing, Ordered, Covered, Op, Holds
  <2> QED  BY <1>1, <1>2, <2>1, SegmentReading
<1>3. ASSUME NEW ops, Wr(ops) PROVE N(Writing("bc", ops))
  <2>1. Nothing.writes = {} /\ Ordered(Op("Lock", "bc"), Nothing)
        /\ Covered(Op("Lock", "bc"), Nothing)
    BY <1>1 DEF Nothing, Ordered, Covered, Op, Holds
  <2> QED  BY <1>1, <1>3, <2>1, SegmentWriting
<1>4. ASSUME NEW ops, Segment(ops, rw, rw, strict) PROVE Wr(Reading("bc", ops))
  <2>1. w.reads["bc"] <= 1 /\ Ordered(Op("RLock", "bc"), w) /\ Covered(Op("RLock", "bc"), w)
    BY <1>1, OnlyBcFacts DEF OnlyBc, Ordered, Covered, Op
  <2> QED  BY <1>1, <1>4, <2>1, SegmentReading
<1>5. N(Get) /\ N(Reading("peers", << >>)) /\ N(Writing("peers", << >>))
      /\ N(Reading("rt", << >>)) /\ N(Writing("rt", << >>)) /\ N(Reading("bc", << >>))
  <2>1. Rd(<< >>)
    BY <1>1, SegmentEmpty, OnlyBcFacts DEF OnlyBc
  <2> QED  BY <1>1, <1>2, <2>1, OnlyBcFacts, StoreSegments, ReadSegment, WriteSegment
<1>6. Rd(Get) /\ Rd(StoreGetBalance)
  BY OnlyBcFacts, StoreSegments
<1>7. Wr(Get) /\ Wr(Put) /\ Wr(StoreGetBalance) /\ Wr(Reading("peers", << >>))
  BY <1>1, OnlyBcFacts, StoreSegments, ReadSegment
<1>8. Segment(Get, rw, rw, strict) /\ Segment(StoreGetBalance, rw, rw, strict)
  BY OnlyBcFacts, StoreSegments
<1>9. ASSUME NEW a, NEW b PROVE /\ N(a) /\ N(b) => N(a \o b)
                                /\ Rd(a) /\ Rd(b) => Rd(a \o b)
                                /\ Wr(a) /\ Wr(b) => Wr(a \o b)
  BY SegmentConcat
<1>10. N(CanSendMessageOps)
  <2> DEFINE h == Write(Nothing, "rt")
  <2>1. h \in Holding /\ h.reads = [l \in Lock |-> 0] /\ h.writes = {"rt"}
    BY <1>1, HoldingFacts DEF Write, Nothing
  <2> HIDE DEF h
  <2>2. Read(h, "rt") \in Holding
    BY <1>1, <2>1, HoldingFacts
  <2>3. h.reads["rt"] <= 1 /\ \A k \in Lock : Holds(h, k) <=> k = "rt"
    BY <1>1, <2>1 DEF Holds
  <2>4. Ordered(Op("RLock", "rt"), h) /\ Covered(Op("RLock", "rt"), h)
    BY <1>1, <2>1, <2>3 DEF Ordered, Covered, Op
  <2>5. "rt" \notin Nothing.writes /\ Ordered(Op("Lock", "rt"), Nothing)
        /\ Covered(Op("Lock", "rt"), Nothing)
    BY <1>1 DEF Nothing, Ordered, Covered, Op, Holds
  <2>6. Segment(Reading("rt", << >>), h, h, strict)
    BY <1>1, <2>1, <2>2, <2>3, <2>4, SegmentReading, SegmentEmpty
  <2>7. Segment(IsMutuallyWhitelisted, h, h, strict)
    BY <2>6, SegmentConcat DEF IsMutuallyWhitelisted
  <2> QED  BY <1>1, <2>5, <2>7, SegmentWriting DEF CanSendMessageOps, h
<1> HIDE DEF r, w, rw, N, Rd, Wr
<1>11. N(GetBalanceOps)
  BY <1>2, <1>6, <1>9 DEF GetBalanceOps
<1>12. N(SendCoinsOps)
  BY <1>3, <1>7, <1>9 DEF SendCoinsOps
<1>13. N(ProcessTransactionOps)
  BY <1>3, <1>5, <1>7, <1>9 DEF ProcessTransactionOps
<1>14. N(UpdateBalanceOps)
  BY <1>3, <1>7, <1>9 DEF UpdateBalanceOps
<1>15. N(SyncBalancesOps)
  <2>1. Rd(Reading("st", Get))
    BY <1>6 DEF StoreGetBalance
  <2> QED  BY <1>2, <1>5, <1>6, <1>9, <2>1 DEF SyncBalancesOps
<1>16. N(handleBlockOps)
  BY <1>3, <1>5, <1>7, <1>9 DEF handleBlockOps
<1>17. N(IncreaseValidatorStakeOps)
  <2>1. Segment(Get \o StoreGetBalance, rw, rw, strict)
    BY <1>8, SegmentConcat
  <2>2. Wr(Reading("bc", Get \o StoreGetBalance))
    BY <1>4, <2>1
  <2> QED  BY <1>3, <1>7, <1>9, <2>2 DEF IncreaseValidatorStakeOps
<1>18. name \notin {"printNodeStatus", "CreateNewWallet"} => N(Program[name])
  BY <1>5, <1>10, <1>11, <1>12, <1>13, <1>14, <1>15, <1>16, <1>17
     DEF Program, ProcessRewardOps, GetPendingRewardsOps, RemovePeerOps
<1>19. CASE name \in {"printNodeStatus", "CreateNewWallet"}
  <2>1. ~strict
    BY <1>19 DEF StoreCallers
  <2>2. N(StoreGetBalance) /\ N(Put)
    BY <2>1, OnlyBcFacts, StoreSegments DEF N
  <2>3. N(printNodeStatusOps)
    BY <1>5, <1>9, <2>2 DEF printNodeStatusOps
  <2>4. N(StoreIncrementNodeCount)
    <3> DEFINE h == Write(Nothing, "st")
    <3>1. h \in Holding /\ h.reads = [l \in Lock |-> 0] /\ h.writes = {"st"}
      BY <1>1, HoldingFacts DEF Write, Nothing
    <3>2. Read(h, "st") \in Holding
      BY <1>1, <3>1, HoldingFacts
    <3> HIDE DEF h
    <3>3. h.reads["st"] <= 1 /\ Ordered(Op("RLock", "st"), h)
      BY <1>1, <3>1 DEF Ordered, Holds, Op
    <3>4. Segment(Get, h, h, strict)
      BY <1>1, <2>1, <3>1, <3>2, <3>3, SegmentReading, SegmentEmpty DEF Get
    <3>5. "st" \notin Nothing.writes /\ Ordered(Op("Lock", "st"), Nothing)
      BY <1>1 DEF Nothing, Ordered, Op, Holds
    <3> QED
      BY <1>1, <2>1, <3>4, <3>5, SegmentWriting DEF StoreIncrementNodeCount, N, h
  <2>5. N(CreateNewWalletOps)
    <3>1. N(Writing("bc", Put))
      BY <1>3, <1>7
    <3> QED  BY <1>5, <1>9, <2>2, <2>4, <3>1 DEF CreateNewWalletOps
  <2> QED  BY <1>19, <2>3, <2>5 DEF Program, N
<1> QED  BY <1>18, <1>19 DEF N

\* No call is empty.
LEMMA CallsAreLong ==
    ASSUME NEW name \in DOMAIN Program
    PROVE  Len(Program[name]) > 0
<1> DEFINE S(ops) == ops \in Seq(Operation)
           L(ops) == ops \in Seq(Operation) /\ Len(ops) > 0
<1>1. ASSUME NEW ops, S(ops), NEW l \in Lock PROVE L(Reading(l, ops)) /\ L(Writing(l, ops))
  <2>1. /\ <<Op("RLock", l)>> \in Seq(Operation) /\ <<Op("RUnlock", l)>> \in Seq(Operation)
        /\ <<Op("Lock", l)>> \in Seq(Operation) /\ <<Op("Unlock", l)>> \in Seq(Operation)
    BY DEF Op, Operation
  <2> QED  BY <1>1, <2>1 DEF Reading, Writing
<1>2. ASSUME NEW a, NEW b PROVE (L(a) /\ L(b) => L(a \o b)) /\ (L(a) => S(a)) /\ S(<< >>)
  OBVIOUS
<1>3. "bc" \in Lock /\ "st" \in Lock /\ "peers" \in Lock /\ "rt" \in Lock
  BY DEF Lock
<1> HIDE DEF S, L
<1>4. L(Get) /\ L(Put) /\ L(StoreGetBalance) /\ L(StoreIncrementNodeCount)
  BY <1>1, <1>2, <1>3 DEF Get, Put, StoreGetBalance, StoreIncrementNodeCount
<1>5. ASSUME NEW l \in Lock PROVE L(Reading(l, << >>)) /\ L(Writing(l, << >>))
  BY <1>1, <1>2
<1>6. L(GetBalanceOps) /\ L(SendCoinsOps) /\ L(ProcessTransactionOps) /\ L(UpdateBalanceOps)
  BY <1>1, <1>2, <1>3, <1>4, <1>5
     DEF GetBalanceOps, SendCoinsOps, ProcessTransactionOps, UpdateBalanceOps
<1>7. L(SyncBalancesOps) /\ L(handleBlockOps) /\ L(printNodeStatusOps)
  BY <1>1, <1>2, <1>3, <1>4, <1>5 DEF SyncBalancesOps, handleBlockOps, printNodeStatusOps
<1>8. L(CreateNewWalletOps) /\ L(IncreaseValidatorStakeOps) /\ L(CanSendMessageOps)
  BY <1>1, <1>2, <1>3, <1>4, <1>5
     DEF CreateNewWalletOps, IncreaseValidatorStakeOps, CanSendMessageOps, IsMutuallyWhitelisted
<1>9. L(Program[name])
  BY <1>3, <1>5, <1>6, <1>7, <1>8
     DEF Program, RemovePeerOps, ProcessRewardOps, GetPendingRewardsOps
<1> QED  BY <1>9 DEF L

-----------------------------------------------------------------------------
\* The invariant

\* What a call holds before each of its operations, and what a goroutine holds.
Trace(name) ==
    CHOOSE H \in [1..Len(Program[name]) + 1 -> Holding] :
        Annotates(H, Program[name], Nothing, Nothing, name \notin StoreCallers)
Has(g) == IF pc[g] = 0 THEN Nothing ELSE Trace(call[g])[pc[g]]

Types ==
    /\ readers \in [Lock -> [Goroutine -> Nat]]
    /\ writer \in [Lock -> SUBSET Goroutine] /\ waiting \in [Lock -> SUBSET Goroutine]
    /\ call \in [Goroutine -> DOMAIN Program] /\ pc \in [Goroutine -> Nat]
    /\ \A g \in Goroutine : pc[g] <= Len(Program[call[g]])

\* The locks say what the places in the calls say.
PlacesOK ==
    \A l \in Lock, g \in Goroutine :
        /\ readers[l][g] = Has(g).reads[l]
        /\ g \in writer[l] <=> l \in Has(g).writes
        /\ g \in waiting[l] => pc[g] > 0 /\ NextOp(g) = Op("Lock", l)

\* A writer, and one that waits, is alone of its kind; a writer keeps readers
\* out, and other writers from announcing themselves.
MutualExclusion ==
    \A l \in Lock :
        /\ \A g, h \in writer[l] : g = h
        /\ \A g, h \in waiting[l] : g = h
        /\ writer[l] # {} => waiting[l] = {} /\ \A g \in Goroutine : readers[l][g] = 0

IInv == Types /\ PlacesOK /\ MutualExclusion

LEMMA TraceFacts ==
    ASSUME NEW name \in DOMAIN Program
    PROVE  /\ Program[name] \in Seq(Operation) /\ Len(Program[name]) \in Nat \ {0}
           /\ Trace(name) \in [1..Len(Program[name]) + 1 -> Holding]
           /\ Annotates(Trace(name), Program[name], Nothing, Nothing, name \notin StoreCallers)
<1>1. Segment(Program[name], Nothing, Nothing, name \notin StoreCallers)
  BY Calls
<1>2. Program[name] \in Seq(Operation) /\ Len(Program[name]) \in Nat \ {0}
  BY <1>1, CallsAreLong DEF Segment
<1> QED  BY <1>1, <1>2 DEF Segment, Trace

\* A goroutine inside a call is at an operation that fits what it holds.
LEMMA PlaceFacts ==
    ASSUME Types, NEW g \in Goroutine
    PROVE  /\ Has(g) \in Holding
           /\ pc[g] > 0 => NextOp(g) \in Operation /\ Legal(NextOp(g), Has(g))
           /\ pc[g] > 0 => Ordered(NextOp(g), Has(g))
           /\ pc[g] > 0 /\ call[g] \notin StoreCallers => Covered(NextOp(g), Has(g))
<1>1. /\ call[g] \in DOMAIN Program
      /\ pc[g] \in Nat /\ pc[g] <= Len(Program[call[g]])
  BY DEF Types
<1>2. /\ Program[call[g]] \in Seq(Operation) /\ Len(Program[call[g]]) \in Nat
      /\ Trace(call[g]) \in [1..Len(Program[call[g]]) + 1 -> Holding]
      /\ Annotates(Trace(call[g]), Program[call[g]], Nothing, Nothing,
                   call[g] \notin StoreCallers)
  BY <1>1, TraceFacts
<1>3. Nothing \in Holding
  BY OnlyBcFacts DEF OnlyBc
<1>4. Has(g) \in Holding
  BY <1>1, <1>2, <1>3 DEF Has
<1>5. ASSUME pc[g] > 0
      PROVE  /\ NextOp(g) \in Operation /\ Legal(NextOp(g), Has(g))
             /\ Ordered(NextOp(g), Has(g))
             /\ call[g] \notin StoreCallers => Covered(NextOp(g), Has(g))
  <2>1. pc[g] \in 1..Len(Program[call[g]])
    BY <1>1, <1>2, <1>5
  <2> QED  BY <1>2, <2>1 DEF Annotates, NextOp, Has
<1> QED  BY <1>4, <1>5

\* Going on changes what the goroutine holds as its operation says.
LEMMA AdvanceFacts ==
    ASSUME Types, NEW g \in Goroutine, pc[g] > 0, Advance(g), call' = call
    PROVE  /\ pc' \in [Goroutine -> Nat]
           /\ \A h \in Goroutine : pc'[h] <= Len(Program[call'[h]])
           /\ Has(g)' = After(NextOp(g), Has(g))
           /\ \A h \in Goroutine \ {g} :
                Has(h)' = Has(h) /\ pc'[h] = pc[h] /\ NextOp(h)' = NextOp(h)
<1>1. /\ call[g] \in DOMAIN Program
      /\ pc[g] \in Nat /\ pc[g] <= Len(Program[call[g]]) /\ pc \in [Goroutine -> Nat]
  BY DEF Types
<1>2. /\ Len(Program[call[g]]) \in Nat
      /\ Annotates(Trace(call[g]), Program[call[g]], Nothing, Nothing,
                   call[g] \notin StoreCallers)
  BY <1>1, TraceFacts
<1>3. pc' = [pc EXCEPT ![g] = IF pc[g] = Len(Program[call[g]]) THEN 0 ELSE pc[g] + 1]
  BY DEF Advance
<1>4. pc'[g] = IF pc[g] = Len(Program[call[g]]) THEN 0 ELSE pc[g] + 1
  BY <1>1, <1>3
<1>5. \A h \in Goroutine \ {g} : pc'[h] = pc[h]
  BY <1>1, <1>3
<1>6. pc' \in [Goroutine -> Nat] /\ \A h \in Goroutine : pc'[h] <= Len(Program[call'[h]])
  <2>1. pc'[g] \in Nat /\ pc'[g] <= Len(Program[call[g]])
    BY <1>1, <1>2, <1>4
  <2>2. pc' \in [Goroutine -> Nat]
    BY <1>1, <1>3, <2>1
  <2> QED  BY <1>5, <2>1, <2>2 DEF Types
<1>7. Has(g)' = After(NextOp(g), Has(g))
  <2> DEFINE T == Trace(call[g])
             n == pc[g]
  <2>1. n \in 1..Len(Program[call[g]]) /\ T[n + 1] = After(Program[call[g]][n], T[n])
        /\ T[Len(Program[call[g]]) + 1] = Nothing
    BY <1>1, <1>2 DEF Annotates
  <2>2. Has(g)' = IF pc'[g] = 0 THEN Nothing ELSE T[pc'[g]]
    BY DEF Has
  <2>3. Has(g) = T[n] /\ NextOp(g) = Program[call[g]][n]
    BY DEF Has, NextOp
  <2> HIDE DEF T
  <2> QED  BY <1>1, <1>4, <2>1, <2>2, <2>3
<1>8. \A h \in Goroutine \ {g} : Has(h)' = Has(h) /\ NextOp(h)' = NextOp(h)
  BY <1>5 DEF Has, NextOp
<1> QED  BY <1>5, <1>6, <1>7, <1>8

LEMMA InitInv == Init => IInv
<1> SUFFICES ASSUME Init PROVE IInv
  OBVIOUS
<1>1. "GetBalance" \in DOMAIN Program
  BY DEF Program
<1>2. Len(Program["GetBalance"]) \in Nat
  BY <1>1, TraceFacts
<1>3. \A g \in Goroutine : call[g] = "GetBalance" /\ pc[g] = 0
  BY DEF Init
<1>4. Types
  BY <1>1, <1>2, <1>3 DEF Init, Types
<1>5. PlacesOK
  BY <1>3 DEF Init, PlacesOK, Has, Nothing
<1> QED  BY <1>4, <1>5 DEF Init, IInv, MutualExclusion

\* What a step of a call leaves to show.
LEMMA StepInv ==
    ASSUME IInv, [Next]_vars
    PROVE  IInv'
<1> USE DEF IInv
<1>0. CASE UNCHANGED vars
  <2>1. UNCHANGED <<readers, writer, waiting, call, pc>>
    BY <1>0 DEF vars, locks
  <2>2. \A g \in Goroutine : Has(g)' = Has(g) /\ NextOp(g)' = NextOp(g)
    BY <2>1 DEF Has, NextOp
  <2>3. PlacesOK'
    BY <2>1, <2>2 DEF PlacesOK
  <2> QED  BY <2>1, <2>3 DEF Types, MutualExclusion
<1>1. ASSUME NEW g \in Goroutine, Call(g) PROVE IInv'
  <2>1. PICK name \in Menu[g] : call' = [call EXCEPT ![g] = name]
    BY <1>1 DEF Call
  <2>2. name \in DOMAIN Program
    BY <2>1, MenuAssumption
  <2>3. Len(Program[name]) \in Nat \ {0} /\ Trace(name)[1] = Nothing
    BY <2>2, TraceFacts DEF Annotates
  <2>4. pc[g] = 0 /\ pc' = [pc EXCEPT ![g] = 1] /\ UNCHANGED <<readers, writer, waiting>>
    BY <1>1 DEF Call, locks
  <2>5. call'[g] = name /\ pc'[g] = 1
        /\ \A h \in Goroutine \ {g} : call'[h] = call[h] /\ pc'[h] = pc[h]
    BY <2>1, <2>4 DEF Types
  <2>6. Types'
    BY <2>1, <2>2, <2>3, <2>4, <2>5 DEF Types
  <2>7. \A h \in Goroutine : Has(h)' = Has(h)
    BY <2>3, <2>4, <2>5 DEF Has
  <2>8. \A h \in Goroutine \ {g} : NextOp(h)' = NextOp(h)
    BY <2>5 DEF NextOp
  <2>9. PlacesOK'
    BY <2>4, <2>5, <2>7, <2>8 DEF PlacesOK
  <2> QED  BY <2>4, <2>6, <2>9 DEF MutualExclusion
<1>2. ASSUME NEW g \in Goroutine, pc[g] > 0, Advance(g), call' = call
      PROVE  /\ NextOp(g) \in Operation /\ NextOp(g).lock \in Lock /\ Has(g) \in Holding
             /\ Legal(NextOp(g), Has(g))
             /\ pc' \in [Goroutine -> Nat]
             /\ \A h \in Goroutine : pc'[h] <= Len(Program[call'[h]])
             /\ Has(g)' = After(NextOp(g), Has(g))
             /\ \A h \in Goroutine \ {g} :
                  Has(h)' = Has(h) /\ pc'[h] = pc[h] /\ NextOp(h)' = NextOp(h)
  BY <1>2, AdvanceFacts, PlaceFacts DEF Operation
<1>3. ASSUME NEW g \in Goroutine, RLock(g) PROVE IInv'
  <2> DEFINE l == NextOp(g).lock
  <2>1. pc[g] > 0 /\ NextOp(g).kind = "RLock" /\ Advance(g) /\ call' = call
        /\ writer[l] = {} /\ waiting[l] = {} /\ UNCHANGED <<writer, waiting>>
        /\ readers' = [readers EXCEPT ![l][g] = @ + 1]
    BY <1>3 DEF RLock, At
  <2>2. l \in Lock
    BY <1>2, <2>1
  <2>3. \A k \in Lock : g \notin waiting[k]
    BY <2>1 DEF PlacesOK, Op
  <2>4. \A k \in Lock, h \in Goroutine :
          readers'[k][h] = IF k = l /\ h = g THEN readers[k][h] + 1 ELSE readers[k][h]
    BY <2>1, <2>2 DEF Types
  <2>5. Types'
    BY <1>2, <2>1, <2>2 DEF Types
  <2>6. Has(g)' = After(NextOp(g), Has(g))
    BY <1>2, <2>1
  <2>7. PlacesOK'
    <3> SUFFICES ASSUME NEW k \in Lock, NEW h \in Goroutine
                 PROVE  /\ readers'[k][h] = Has(h)'.reads[k]
                        /\ h \in writer'[k] <=> k \in Has(h)'.writes
                        /\ h \in waiting'[k] => pc'[h] > 0 /\ NextOp(h)' = Op("Lock", k)
      BY DEF PlacesOK
    <3>1. CASE h = g
      BY <2>1, <2>3, <2>4, <2>6, <3>1 DEF PlacesOK, After, Types
    <3>2. CASE h # g
      BY <1>2, <2>1, <2>4, <3>2 DEF PlacesOK
    <3> QED  BY <3>1, <3>2
  <2>8. MutualExclusion'
    BY <2>1, <2>4 DEF MutualExclusion
  <2> QED  BY <2>5, <2>7, <2>8
<1>4. ASSUME NEW g \in Goroutine, RUnlock(g) PROVE IInv'
  <2> DEFINE l == NextOp(g).lock
  <2>1. pc[g] > 0 /\ NextOp(g).kind = "RUnlock" /\ Advance(g) /\ call' = call
        /\ UNCHANGED <<writer, waiting>>
        /\ readers' = [readers EXCEPT ![l][g] = @ - 1]
    BY <1>4 DEF RUnlock, At
  <2>2. l \in Lock /\ readers[l][g] > 0
    BY <1>2, <2>1 DEF Legal, PlacesOK
  <2>3. \A k \in Lock : g \notin waiting[k]
    BY <2>1 DEF PlacesOK, Op
  <2>4. \A k \in Lock, h \in Goroutine :
          readers'[k][h] = IF k = l /\ h = g THEN readers[k][h] - 1 ELSE readers[k][h]
    BY <2>1, <2>2 DEF Types
  <2>5. Types'
    <3>1. readers[l][g] - 1 \in Nat
      BY <2>2 DEF Types
    <3>2. readers' \in [Lock -> [Goroutine -> Nat]]
      BY <2>1, <2>2, <3>1 DEF Types
    <3> QED  BY <1>2, <2>1, <3>2 DEF Types
  <2>6. Has(g)' = After(NextOp(g), Has(g))
    BY <1>2, <2>1
  <2>7. PlacesOK'
    <3> SUFFICES ASSUME NEW k \in Lock, NEW h \in Goroutine
                 PROVE  /\ readers'[k][h] = Has(h)'.reads[k]
                        /\ h \in writer'[k] <=> k \in Has(h)'.writes
                        /\ h \in waiting'[k] => pc'[h] > 0 /\ NextOp(h)' = Op("Lock", k)
      BY DEF PlacesOK
    <3>1. CASE h = g
      BY <2>1, <2>3, <2>4, <2>6, <3>1 DEF PlacesOK, After, Types
    <3>2. CASE h # g
      BY <1>2, <2>1, <2>4, <3>2 DEF PlacesOK
    <3> QED  BY <3>1, <3>2
  <2>8. MutualExclusion'
    BY <2>1, <2>2, <2>4 DEF MutualExclusion
  <2> QED  BY <2>5, <2>7, <2>8
<1>5. ASSUME NEW g \in Goroutine, AnnounceLock(g) PROVE IInv'
  <2> DEFINE l == NextOp(g).lock
  <2>1. pc[g] > 0 /\ NextOp(g).kind = "Lock" /\ UNCHANGED <<readers, writer, call, pc>>
        /\ writer[l] = {} /\ waiting[l] = {} /\ waiting' = [waiting EXCEPT ![l] = {g}]
    BY <1>5 DEF AnnounceLock, At
  <2>2. l \in Lock /\ NextOp(g) = Op("Lock", l)
    BY <2>1, PlaceFacts DEF Operation, Op
  <2>3. Types'
    BY <2>1, <2>2 DEF Types
  <2>4. \A h \in Goroutine : Has(h)' = Has(h) /\ NextOp(h)' = NextOp(h)
    BY <2>1 DEF Has, NextOp
  <2>5. \A k \in Lock : waiting'[k] = IF k = l THEN {g} ELSE waiting[k]
    BY <2>1, <2>2 DEF Types
  <2>6. PlacesOK'
    BY <2>1, <2>2, <2>4, <2>5 DEF PlacesOK
  <2>7. MutualExclusion'
    BY <2>1, <2>5 DEF MutualExclusion
  <2> QED  BY <2>3, <2>6, <2>7
<1>6. ASSUME NEW g \in Goroutine, AcquireLock(g) PROVE IInv'
  <2> DEFINE l == NextOp(g).lock
  <2>1. pc[g] > 0 /\ NextOp(g).kind = "Lock" /\ Advance(g) /\ call' = call
        /\ g \in waiting[l] /\ ~Held(l) /\ readers' = readers
        /\ waiting' = [waiting EXCEPT ![l] = {}] /\ writer' = [writer EXCEPT ![l] = {g}]
    BY <1>6 DEF AcquireLock, At
  <2>2. l \in Lock
    BY <1>2, <2>1
  <2>3. writer[l] = {} /\ \A h \in Goroutine : readers[l][h] = 0
    <3> HIDE DEF l
    <3>1. writer[l] = {}
      BY <2>1, <2>2 DEF MutualExclusion
    <3>2. \A h \in Goroutine : readers[l][h] \in Nat /\ ~(readers[l][h] > 0)
      BY <2>1, <2>2 DEF Held, Types
    <3> QED  BY <3>1, <3>2
  <2>4. \A k \in Lock : /\ waiting'[k] = IF k = l THEN {} ELSE waiting[k]
                       /\ writer'[k] = IF k = l THEN {g} ELSE writer[k]
    BY <2>1, <2>2 DEF Types
  <2>5. Types'
    BY <1>2, <2>1, <2>2 DEF Types
  <2>6. Has(g)' = After(NextOp(g), Has(g))
    BY <1>2, <2>1
  <2>7. \A k \in Lock \ {l} : g \notin waiting[k]
    BY <2>1 DEF PlacesOK, Op
  <2>8. PlacesOK'
    <3> SUFFICES ASSUME NEW k \in Lock, NEW h \in Goroutine
                 PROVE  /\ readers'[k][h] = Has(h)'.reads[k]
                        /\ h \in writer'[k] <=> k \in Has(h)'.writes
                        /\ h \in waiting'[k] => pc'[h] > 0 /\ NextOp(h)' = Op("Lock", k)
      BY DEF PlacesOK
    <3>1. CASE h = g
      <4>1. /\ Has(h)'.reads = [m \in Lock |-> Has(g).reads[m] + 0]
            /\ Has(h)'.writes = Has(g).writes \cup {l}
        BY <2>1, <2>6, <3>1 DEF After
      <4>2. readers'[k][h] = Has(h)'.reads[k]
        BY <2>1, <3>1, <4>1 DEF PlacesOK, Types
      <4>3. h \in writer'[k] <=> k \in Has(h)'.writes
        BY <2>3, <2>4, <3>1, <4>1 DEF PlacesOK
      <4> QED  BY <2>4, <2>7, <3>1, <4>2, <4>3
    <3>2. CASE h # g
      BY <1>2, <2>1, <2>3, <2>4, <3>2 DEF PlacesOK
    <3> QED  BY <3>1, <3>2
  <2>9. MutualExclusion'
    BY <2>1, <2>3, <2>4 DEF MutualExclusion
  <2> QED  BY <2>5, <2>8, <2>9
<1>7. ASSUME NEW g \in Goroutine, Unlock(g) PROVE IInv'
  <2> DEFINE l == NextOp(g).lock
  <2>1. pc[g] > 0 /\ NextOp(g).kind = "Unlock" /\ Advance(g) /\ call' = call
        /\ UNCHANGED <<readers, waiting>> /\ writer' = [writer EXCEPT ![l] = {}]
    BY <1>7 DEF Unlock, At
  <2>2. l \in Lock /\ g \in writer[l]
    BY <1>2, <2>1 DEF Legal, PlacesOK
  <2>3. \A k \in Lock : g \notin waiting[k]
    BY <2>1 DEF PlacesOK, Op
  <2>4. \A k \in Lock : writer'[k] = IF k = l THEN {} ELSE writer[k]
    BY <2>1, <2>2 DEF Types
  <2>5. Types'
    BY <1>2, <2>1, <2>2 DEF Types
  <2>6. Has(g)' = After(NextOp(g), Has(g))
    BY <1>2, <2>1
  <2>7. PlacesOK'
    <3> SUFFICES ASSUME NEW k \in Lock, NEW h \in Goroutine
                 PROVE  /\ readers'[k][h] = Has(h)'.reads[k]
                        /\ h \in writer'[k] <=> k \in Has(h)'.writes
                        /\ h \in waiting'[k] => pc'[h] > 0 /\ NextOp(h)' = Op("Lock", k)
      BY DEF PlacesOK
    <3>1. CASE h = g
      <4>1. /\ Has(h)'.reads = [m \in Lock |-> Has(g).reads[m] + 0]
            /\ Has(h)'.writes = Has(g).writes \ {l}
        BY <2>1, <2>6, <3>1 DEF After
      <4>2. readers'[k][h] = Has(h)'.reads[k]
        BY <2>1, <3>1, <4>1 DEF PlacesOK, Types
      <4>3. h \in writer'[k] <=> k \in Has(h)'.writes
        BY <2>4, <3>1, <4>1 DEF PlacesOK
      <4> QED  BY <2>1, <2>3, <3>1, <4>2, <4>3
    <3>2. CASE h # g
      BY <1>2, <2>1, <2>2, <2>4, <3>2 DEF PlacesOK, MutualExclusion
    <3> QED  BY <3>1, <3>2
  <2>8. MutualExclusion'
    BY <2>1, <2>4 DEF MutualExclusion
  <2> QED  BY <2>5, <2>7, <2>8
<1> QED
  BY <1>0, <1>1, <1>3, <1>4, <1>5, <1>6, <1>7 DEF Next, Step

\* Read locks nest at most twice.
DepthOK == \A l \in Lock, g \in Goroutine : readers[l][g] <= 2

LEMMA DepthStep ==
    ASSUME IInv, DepthOK, [Next]_vars
    PROVE  DepthOK'
<1>1. CASE readers' = readers
  BY <1>1 DEF DepthOK
<1>2. ASSUME NEW g \in Goroutine, RLock(g) PROVE DepthOK'
  <2> DEFINE l == NextOp(g).lock
  <2>1. pc[g] > 0 /\ NextOp(g).kind = "RLock" /\ readers' = [readers EXCEPT ![l][g] = @ + 1]
    BY <1>2 DEF RLock, At
  <2>2. l \in Lock /\ Legal(NextOp(g), Has(g))
    BY <2>1, PlaceFacts DEF IInv, Operation
  <2>3. readers[l][g] <= 1
    BY <2>1, <2>2 DEF Legal, IInv, PlacesOK
  <2> QED  BY <2>1, <2>2, <2>3 DEF DepthOK, IInv, Types
<1>3. ASSUME NEW g \in Goroutine, RUnlock(g) PROVE DepthOK'
  <2> DEFINE l == NextOp(g).lock
  <2>1. pc[g] > 0 /\ readers' = [readers EXCEPT ![l][g] = @ - 1]
    BY <1>3 DEF RUnlock, At
  <2>2. l \in Lock
    BY <2>1, PlaceFacts DEF IInv, Operation
  <2> QED  BY <2>1, <2>2 DEF DepthOK, IInv, Types
<1> QED
  BY <1>1, <1>2, <1>3 DEF Next, Step, Call, AnnounceLock, AcquireLock, Unlock, locks, vars

-----------------------------------------------------------------------------
\* The waiting

\* The nested read of the store and the announced writer are covered by the
\* blockchain's lock, unless one of the two calls is not.
LEMMA Starvation == IInv => OnlyStoreCallersStarve
<1> SUFFICES ASSUME IInv, NEW g \in Goroutine, Starved(g),
                    \A h \in {g} \cup waiting["st"] : call[h] \notin StoreCallers
             PROVE  FALSE
  BY DEF OnlyStoreCallersStarve
<1>1. "st" \in Lock /\ "bc" \in Lock
  BY DEF Lock
<1>2. pc[g] > 0 /\ NextOp(g) = Op("RLock", "st") /\ readers["st"][g] > 0
  <2>1. pc[g] > 0 /\ NextOp(g).kind = "RLock" /\ NextOp(g).lock = "st" /\ readers["st"][g] > 0
    BY DEF Starved, At
  <2>2. NextOp(g) \in Operation
    BY <2>1, PlaceFacts DEF IInv
  <2> QED  BY <2>1, <2>2 DEF Operation, Op
<1>3. PICK w \in waiting["st"] : TRUE
  BY DEF Starved
<1>4. w \in Goroutine /\ pc[w] > 0 /\ NextOp(w) = Op("Lock", "st")
  BY <1>1, <1>3 DEF IInv, Types, PlacesOK
<1>5. w \in writer["bc"]
  <2>1. Covered(NextOp(w), Has(w))
    BY <1>3, <1>4, PlaceFacts DEF IInv
  <2> QED  BY <1>1, <1>4, <2>1 DEF Covered, IInv, PlacesOK
<1>6. readers["bc"][g] > 0 \/ g \in writer["bc"]
  <2>1. Covered(NextOp(g), Has(g))
    BY <1>2, PlaceFacts DEF IInv
  <2> QED  BY <1>1, <1>2, <2>1 DEF Covered, Holds, IInv, PlacesOK
<1>7. g = w
  BY <1>1, <1>5, <1>6 DEF IInv, MutualExclusion
<1> QED  BY <1>2, <1>4, <1>7 DEF Op

LEMMA NoCycle == IInv => NoCircularWait
<1> SUFFICES ASSUME IInv,
                    NEW part \in (SUBSET Goroutine) \ {{}},
                    \A g \in part : WaitsFor(g) \cap part # {},
                    \A g \in part : ~Stuck(g)
             PROVE  FALSE
  BY DEF NoCircularWait
<1> DEFINE wants(g) == NextOp(g).lock
           holds(g, l) == readers[l][g] > 0 \/ g \in writer[l]
<1>1. "st" \in Lock /\ "bc" \in Lock
  BY DEF Lock
\* Everyone in part is about to take a lock, as the order of the locks allows.
<1>2. ASSUME NEW g \in part
      PROVE  /\ pc[g] > 0 /\ wants(g) \in Lock /\ NextOp(g) \in Operation
             /\ At(g, "RLock") \/ At(g, "Lock")
             /\ Ordered(NextOp(g), Has(g))
  <2>1. At(g, "RLock") \/ At(g, "Lock")
    BY DEF WaitsFor
  <2> QED  BY <2>1, PlaceFacts DEF At, IInv, Operation
<1>3. ASSUME NEW g \in part, NEW l \in Lock
      PROVE  holds(g, l) <=> Holds(Has(g), l)
  BY DEF IInv, PlacesOK, Holds
\* Who holds a lock in part holds the blockchain's, and wants another.
<1>4. ASSUME NEW g \in part, NEW l \in Lock, holds(g, l)
      PROVE  l = "bc" /\ wants(g) # "bc"
  <2>1. \/ l = "bc" /\ wants(g) # "bc"
        \/ At(g, "RLock") /\ l = wants(g) /\ l \in Has(g).writes
        \/ At(g, "RLock") /\ l = wants(g) /\ l = "st" /\ Has(g).reads["st"] > 0
    BY <1>2, <1>3, <1>4 DEF Ordered, Acquires, At
  <2>2. CASE At(g, "RLock") /\ l = wants(g) /\ l \in Has(g).writes
    BY <2>2 DEF Stuck, Hung, IInv, PlacesOK
  <2>3. CASE At(g, "RLock") /\ l = wants(g) /\ l = "st" /\ Has(g).reads["st"] > 0
    <3>1. readers["st"][g] > 0
      BY <1>1, <2>3 DEF IInv, PlacesOK
    <3>2. writer["st"] = {}
      BY <1>1, <3>1 DEF IInv, MutualExclusion
    <3>3. waiting["st"] # {}
      BY <2>3, <3>2 DEF WaitsFor
    <3> QED  BY <2>3, <3>1, <3>3 DEF Stuck, Starved
  <2> QED  BY <2>1, <2>2, <2>3
\* What anyone in part wants, somebody in part holds.
<1>5. ASSUME NEW g \in part PROVE \E h \in part : holds(h, wants(g))
  <2> DEFINE l == wants(g)
  <2>1. PICK h \in part : h \in WaitsFor(g)
    OBVIOUS
  <2>2. holds(h, l) \/ h \in waiting[l]
    BY <2>1 DEF WaitsFor
  <2>3. CASE h \in waiting[l]
    <3>1. NextOp(h) = Op("Lock", l) /\ pc[h] > 0 /\ waiting[l] \subseteq {h}
      <4>1. NextOp(h) = Op("Lock", l) /\ pc[h] > 0
        BY <1>2, <2>3 DEF IInv, PlacesOK
      <4>2. \A k \in Lock : \A a, b \in waiting[k] : a = b
        BY DEF IInv, MutualExclusion
      <4>3. waiting[l] \subseteq {h}
        BY <1>2, <2>3, <4>2
      <4> QED  BY <4>1, <4>3
    <3>2. PICK k \in part : k \in WaitsFor(h)
      OBVIOUS
    <3>3. holds(k, l)
      BY <3>1, <3>2 DEF WaitsFor, At, Op
    <3> QED  BY <3>3
  <2> QED  BY <2>2, <2>3
<1>6. PICK g \in part : TRUE
  <2>1. part # {}
    OBVIOUS
  <2> QED  BY <2>1
<1>7. PICK h \in part : holds(h, wants(g))
  BY <1>5
<1>8. PICK k \in part : holds(k, wants(h))
  BY <1>5
<1> QED  BY <1>2, <1>4, <1>7, <1>8

-----------------------------------------------------------------------------
\* Theorems

\* For any goroutines and menus: a lock has one writer and one announced writer
\* at most, and read locks nest at most twice (storage.GetBalance).
THEOREM NodeLocksTyping == Spec => []TypeOK
<1>1. Init => IInv /\ DepthOK
  <2>1. Init => DepthOK
    BY DEF Init, DepthOK
  <2> QED  BY <2>1, InitInv
<1>2. IInv /\ DepthOK /\ [Next]_vars => (IInv /\ DepthOK)'
  BY StepInv, DepthStep
<1>3. IInv /\ DepthOK => TypeOK
  <2> SUFFICES ASSUME IInv, DepthOK PROVE TypeOK
    OBVIOUS
  <2>1. ASSUME NEW S, \A g, h \in S : g = h PROVE Cardinality(S) <= 1
    <3>1. CASE S = {}
      BY <3>1, FS_EmptySet
    <3>2. CASE S # {}
      <4>1. PICK g : S = {g}
        BY <2>1, <3>2
      <4> QED  BY <4>1, FS_Singleton
    <3> QED  BY <3>1, <3>2
  <2>2. \A l \in Lock : Cardinality(writer[l]) <= 1 /\ Cardinality(waiting[l]) <= 1
    BY <2>1 DEF IInv, MutualExclusion
  <2>3. \A g \in Goroutine : Len(Program[call[g]]) \in Nat
    BY TraceFacts DEF IInv, Types
  <2> QED  BY <2>2, <2>3 DEF TypeOK, IInv, Types, DepthOK
<1> QED  BY <1>1, <1>2, <1>3, PTL DEF Spec

\* A writer keeps readers and other writers out of its lock, whatever nests.
THEOREM NodeLocksExclusion == Spec => []MutualExclusion
<1>1. Init => IInv
  BY InitInv
<1>2. IInv /\ [Next]_vars => IInv'
  BY StepInv
<1>3. IInv => MutualExclusion
  BY DEF IInv
<1> QED  BY <1>1, <1>2, <1>3, PTL DEF Spec

\* However many goroutines make whichever calls: a nested read of the store
\* meets an announced writer only if one of the two calls goes to the store
\* beside core.Blockchain.
THEOREM NodeLocksStarvation == Spec => []OnlyStoreCallersStarve
<1>1. IInv /\ [Next]_vars => IInv'
  BY StepInv
<1> QED  BY <1>1, InitInv, Starvation, PTL DEF Spec

\* However many goroutines make whichever calls, nobody waits in a cycle, except
\* with one that reads what it holds the write lock of, or one whose nested read
\* of the store meets an announced writer.
THEOREM NodeLocksNoCircularWait == Spec => []NoCircularWait
<1>1. IInv /\ [Next]_vars => IInv'
  BY StepInv
<1> QED  BY <1>1, InitInv, NoCycle, PTL DEF Spec

=============================================================================
