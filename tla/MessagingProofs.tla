--------------------------- MODULE MessagingProofs ---------------------------
(***************************************************************************)
(* The invariants of Group for any users, groups and limit, and those of   *)
(* RateLimit for any receivers, limits and lengths of minute and hour.     *)
(*                                                                         *)
(* Those of Group lean on each other: SwapRemove takes away the element it *)
(* names only if nobody is twice in the slice, and the creator is kept by  *)
(* the guards.                                                             *)
(*                                                                         *)
(* RateLimit's invariant ties the counters to the messages sent: for every *)
(* minute of the last hour, the messages counted from it on are as many as *)
(* those sent from it on.  What is older may be dropped or kept, as the    *)
(* cleanup was last done, so nothing can be said of the counters as a      *)
(* whole.                                                                  *)
(***************************************************************************)
EXTENDS Group, RateLimit, FiniteSetTheorems, TLAPS


\* What a sequence without repetitions is after SwapRemove: the removal of
\* Group.RemoveMember and Group.RemoveAdmin is exact.
LEMMA SwapRemoveExact ==
    ASSUME NEW S, NEW s \in Seq(S), Distinct(s), NEW x \in Elements(s)
    PROVE  /\ SwapRemove(s, x) \in Seq(S)
           /\ Distinct(SwapRemove(s, x))
           /\ Elements(SwapRemove(s, x)) = Elements(s) \ {x}
<1> DEFINE i == CHOOSE i \in DOMAIN s : s[i] = x
           n == Len(s)
           r == [j \in 1..(n - 1) |-> IF j = i THEN s[n] ELSE s[j]]
<1>1. n \in Nat /\ DOMAIN s = 1..n /\ \A j \in 1..n : s[j] \in S
  OBVIOUS
<1>2. i \in 1..n /\ s[i] = x
  <2>1. \E j \in DOMAIN s : s[j] = x
    BY DEF Elements
  <2> QED  BY <1>1, <2>1
<1>3. r = SwapRemove(s, x)
  BY DEF SwapRemove
<1> HIDE DEF i
<1>4. n - 1 \in Nat /\ \A j \in 1..(n - 1) : r[j] \in S
  BY <1>1, <1>2
<1>5. r \in Seq(S) /\ Len(r) = n - 1 /\ DOMAIN r = 1..(n - 1)
  BY <1>4
<1>6. \A j \in 1..(n - 1) : r[j] = IF j = i THEN s[n] ELSE s[j]
  OBVIOUS
<1> HIDE DEF n, r
<1>7. n >= 1 /\ n \in 1..n /\ \A j \in 1..(n - 1) : j \in 1..n /\ j # n
  BY <1>1, <1>2
<1>8. \A j \in 1..n : j # n => j \in 1..(n - 1)
  BY <1>1
<1>9. Distinct(r)
  <2> SUFFICES ASSUME NEW j \in 1..(n - 1), NEW k \in 1..(n - 1), r[j] = r[k]
               PROVE  j = k
    BY <1>5 DEF Distinct
  <2>1. s[IF j = i THEN n ELSE j] = s[IF k = i THEN n ELSE k]
    BY <1>6
  <2>2. (IF j = i THEN n ELSE j) \in 1..n /\ (IF k = i THEN n ELSE k) \in 1..n
    BY <1>7
  <2>3. (IF j = i THEN n ELSE j) = (IF k = i THEN n ELSE k)
    BY <1>1, <2>1, <2>2 DEF Distinct
  <2> QED  BY <1>7, <2>3
<1>10. Elements(r) \subseteq Elements(s) \ {x}
  <2> SUFFICES ASSUME NEW j \in 1..(n - 1)
               PROVE  r[j] \in Elements(s) /\ r[j] # x
    BY <1>5 DEF Elements
  <2>1. CASE j = i
    <3>1. r[j] = s[n] /\ n \in 1..n /\ n # i
      BY <1>6, <1>7, <2>1
    <3> QED  BY <1>1, <1>2, <3>1 DEF Distinct, Elements
  <2>2. CASE j # i
    <3>1. r[j] = s[j] /\ j \in 1..n
      BY <1>6, <1>7, <2>2
    <3> QED  BY <1>1, <1>2, <2>2, <3>1 DEF Distinct, Elements
  <2> QED  BY <2>1, <2>2
<1>11. Elements(s) \ {x} \subseteq Elements(r)
  <2> SUFFICES ASSUME NEW j \in 1..n, s[j] # x
               PROVE  s[j] \in Elements(r)
    BY <1>1 DEF Elements
  <2>1. j # i
    BY <1>2
  <2>2. CASE j = n
    <3>1. i \in 1..(n - 1) /\ r[i] = s[j]
      BY <1>6, <1>8, <1>2, <2>1, <2>2
    <3> QED  BY <1>5, <3>1 DEF Elements
  <2>3. CASE j # n
    <3>1. j \in 1..(n - 1) /\ r[j] = s[j]
      BY <1>6, <1>8, <2>1, <2>3
    <3> QED  BY <1>5, <3>1 DEF Elements
  <2> QED  BY <2>2, <2>3
<1> QED  BY <1>3, <1>5, <1>9, <1>10, <1>11

\* What a sequence without repetitions is after the append of a new element:
\* Group.AddMember and Group.AddAdmin.
LEMMA AppendNew ==
    ASSUME NEW S, NEW s \in Seq(S), Distinct(s), NEW x \in S, x \notin Elements(s)
    PROVE  /\ Append(s, x) \in Seq(S)
           /\ Distinct(Append(s, x))
           /\ Elements(Append(s, x)) = Elements(s) \cup {x}
<1>1. /\ Len(s) \in Nat /\ DOMAIN s = 1..Len(s)
      /\ DOMAIN Append(s, x) = 1..(Len(s) + 1)
      /\ \A j \in 1..Len(s) : Append(s, x)[j] = s[j]
      /\ Append(s, x)[Len(s) + 1] = x
      /\ Append(s, x) \in Seq(S)
  OBVIOUS
<1>2. \A j \in 1..(Len(s) + 1) : j \in 1..Len(s) \/ j = Len(s) + 1
  BY <1>1
<1>3. Distinct(Append(s, x))
  BY <1>1, <1>2 DEF Distinct, Elements
<1>4. Elements(Append(s, x)) = Elements(s) \cup {x}
  BY <1>1, <1>2 DEF Elements
<1> QED  BY <1>1, <1>3, <1>4

-----------------------------------------------------------------------------
\* What makes one group sound, and with it the invariant.
SoundGroup(g) ==
    /\ g \in GroupRecord
    /\ Distinct(g.members) /\ Distinct(g.admins)
    /\ Elements(g.admins) \subseteq Elements(g.members)
    /\ g.creator \in Elements(g.admins)

IInv == /\ TypeOK
        /\ \A id \in GroupId : Exists(id) => SoundGroup(groups[id])

\* Whatever happens to one group, if it stays sound the others do.
LEMMA OneGroupChanges ==
    ASSUME IInv, NEW id \in GroupId, NEW g, SoundGroup(g),
           groups' = [groups EXCEPT ![id] = g],
           userGroups' \in [User -> Seq(GroupId)],
           \A u \in User : Len(userGroups'[u]) <= MaxUserGroups,
           joined' = joined
    PROVE  IInv'
<1>1. groups' \in [GroupId -> GroupRecord \cup {NoGroup}]
  BY DEF IInv, TypeOK, SoundGroup
<1>2. \A k \in GroupId : groups'[k] = IF k = id THEN g ELSE groups[k]
  BY DEF IInv, TypeOK
<1>3. TypeOK'
  BY <1>1 DEF IInv, TypeOK
<1>4. \A k \in GroupId : Exists(k)' => SoundGroup(groups'[k])
  BY <1>2 DEF IInv, Exists
<1> QED  BY <1>3, <1>4 DEF IInv

LEMMA NewGroupIsSound ==
    ASSUME NEW u \in User, NEW public \in BOOLEAN, NEW saved \in BOOLEAN
    PROVE  SoundGroup(NewGroup(u, public, saved))
<1>1. /\ <<u>> \in Seq(User) /\ DOMAIN <<u>> = {1} /\ <<u>>[1] = u
  OBVIOUS
<1>2. Distinct(<<u>>) /\ Elements(<<u>>) = {u}
  BY <1>1 DEF Distinct, Elements
<1>3. NewGroup(u, public, saved) \in GroupRecord
  BY <1>1 DEF NewGroup, GroupRecord
<1> QED  BY <1>2, <1>3 DEF SoundGroup, NewGroup

LEMMA InitInv == Init => IInv
<1> SUFFICES ASSUME Init PROVE IInv
  OBVIOUS
<1>1. \A u \in User : Len(userGroups[u]) = 0
  BY DEF Init
<1>2. TypeOK
  BY <1>1, LimitAssumption DEF Init, TypeOK
<1> QED  BY <1>2 DEF Init, IInv, Exists

LEMMA NextInv == IInv /\ [Next]_vars => IInv'
<1> SUFFICES ASSUME IInv, [Next]_vars PROVE IInv'
  OBVIOUS
<1> USE DEF InManager
<1>0. CASE UNCHANGED vars
  BY <1>0 DEF vars, IInv, TypeOK, Exists, SoundGroup
<1>1. ASSUME NEW id \in GroupId, NEW u \in User, NEW public \in BOOLEAN,
             CreateGroup(u, id, public)
      PROVE  IInv'
  <2>1. SoundGroup(NewGroup(u, public, FALSE))
    BY NewGroupIsSound
  <2>2. userGroups' \in [User -> Seq(GroupId)]
    BY <1>1 DEF CreateGroup, IInv, TypeOK
  <2>3. ASSUME NEW v \in User PROVE Len(userGroups'[v]) <= MaxUserGroups
    <3>1. CASE v = u
      <4>1. userGroups'[v] = Append(userGroups[u], id) /\ userGroups[u] \in Seq(GroupId)
        BY <1>1, <3>1 DEF CreateGroup, IInv, TypeOK
      <4>2. Len(userGroups'[v]) = Len(userGroups[u]) + 1 /\ Len(userGroups[u]) \in Nat
        BY <4>1
      <4> QED  BY <1>1, <4>2, LimitAssumption DEF CreateGroup
    <3>2. CASE v # u
      BY <1>1, <3>2 DEF CreateGroup, IInv, TypeOK
    <3> QED  BY <3>1, <3>2
  <2> QED  BY <1>1, <2>1, <2>2, <2>3, OneGroupChanges DEF CreateGroup
<1>2. ASSUME NEW id \in GroupId, NEW u \in User, NEW public \in BOOLEAN,
             SaveGroup(u, id, public)
      PROVE  IInv'
  <2>1. SoundGroup(NewGroup(u, public, TRUE))
    BY NewGroupIsSound
  <2> QED  BY <1>2, <2>1, OneGroupChanges DEF SaveGroup, IInv, TypeOK
<1>3. ASSUME NEW id \in GroupId, NEW u \in User, JoinGroup(u, id)
      PROVE  IInv'
  <2>1. TypeOK'
    BY <1>3 DEF JoinGroup, IInv, TypeOK
  <2> QED  BY <1>3, <2>1 DEF JoinGroup, IInv, Exists
<1>4. ASSUME NEW id \in GroupId, NEW u \in User, AddMember(id, u)
      PROVE  IInv'
  <2> DEFINE g == [groups[id] EXCEPT !.members = Append(@, u)]
  <2>1. SoundGroup(groups[id]) /\ u \notin Elements(groups[id].members)
    BY <1>4 DEF AddMember, IInv, IsMember
  <2>2. /\ Append(groups[id].members, u) \in Seq(User)
        /\ Distinct(Append(groups[id].members, u))
        /\ Elements(Append(groups[id].members, u)) = Elements(groups[id].members) \cup {u}
    BY <2>1, AppendNew DEF SoundGroup, GroupRecord
  <2>3. SoundGroup(g)
    BY <2>1, <2>2 DEF SoundGroup, GroupRecord
  <2>4. groups' = [groups EXCEPT ![id] = g]
    BY <1>4 DEF AddMember
  <2> QED  BY <1>4, <2>3, <2>4, OneGroupChanges DEF AddMember, IInv, TypeOK
<1>5. ASSUME NEW id \in GroupId, NEW u \in User, NEW by \in User, RemoveMember(id, u, by)
      PROVE  IInv'
  <2> DEFINE M == SwapRemove(groups[id].members, u)
             A == IF IsAdmin(id, u) THEN SwapRemove(groups[id].admins, u)
                  ELSE groups[id].admins
             g == [groups[id] EXCEPT !.members = M, !.admins = A]
  <2>1. SoundGroup(groups[id]) /\ u \in Elements(groups[id].members)
        /\ u # groups[id].creator
    BY <1>5 DEF RemoveMember, IInv, IsMember
  <2>2. M \in Seq(User) /\ Distinct(M) /\ Elements(M) = Elements(groups[id].members) \ {u}
    BY <2>1, SwapRemoveExact DEF SoundGroup, GroupRecord
  <2>3. A \in Seq(User) /\ Distinct(A) /\ Elements(A) = Elements(groups[id].admins) \ {u}
    BY <2>1, SwapRemoveExact DEF SoundGroup, GroupRecord, IsAdmin
  <2> HIDE DEF M, A
  <2>4. SoundGroup(g)
    BY <2>1, <2>2, <2>3 DEF SoundGroup, GroupRecord
  <2>5. groups' = [groups EXCEPT ![id] = g]
    BY <1>5 DEF RemoveMember, M, A
  <2> QED  BY <1>5, <2>4, <2>5, OneGroupChanges DEF RemoveMember, IInv, TypeOK
<1>6. ASSUME NEW id \in GroupId, NEW u \in User, NEW by \in User, AddAdmin(id, u, by)
      PROVE  IInv'
  <2> DEFINE g == [groups[id] EXCEPT !.admins = Append(@, u)]
  <2>1. SoundGroup(groups[id]) /\ u \notin Elements(groups[id].admins)
        /\ u \in Elements(groups[id].members)
    BY <1>6 DEF AddAdmin, IInv, IsMember, IsAdmin
  <2>2. /\ Append(groups[id].admins, u) \in Seq(User)
        /\ Distinct(Append(groups[id].admins, u))
        /\ Elements(Append(groups[id].admins, u)) = Elements(groups[id].admins) \cup {u}
    BY <2>1, AppendNew DEF SoundGroup, GroupRecord
  <2>3. SoundGroup(g)
    BY <2>1, <2>2 DEF SoundGroup, GroupRecord
  <2>4. groups' = [groups EXCEPT ![id] = g]
    BY <1>6 DEF AddAdmin
  <2> QED  BY <1>6, <2>3, <2>4, OneGroupChanges DEF AddAdmin, IInv, TypeOK
<1>7. ASSUME NEW id \in GroupId, NEW u \in User, NEW by \in User, RemoveAdmin(id, u, by)
      PROVE  IInv'
  <2> DEFINE A == SwapRemove(groups[id].admins, u)
             g == [groups[id] EXCEPT !.admins = A]
  <2>1. SoundGroup(groups[id]) /\ u \in Elements(groups[id].admins)
        /\ u # groups[id].creator
    BY <1>7 DEF RemoveAdmin, IInv, IsAdmin
  <2>2. A \in Seq(User) /\ Distinct(A) /\ Elements(A) = Elements(groups[id].admins) \ {u}
    BY <2>1, SwapRemoveExact DEF SoundGroup, GroupRecord
  <2> HIDE DEF A
  <2>3. SoundGroup(g)
    BY <2>1, <2>2 DEF SoundGroup, GroupRecord
  <2>4. groups' = [groups EXCEPT ![id] = g]
    BY <1>7 DEF RemoveAdmin, A
  <2> QED  BY <1>7, <2>3, <2>4, OneGroupChanges DEF RemoveAdmin, IInv, TypeOK
<1> QED  BY <1>0, <1>1, <1>2, <1>3, <1>4, <1>5, <1>6, <1>7 DEF Next

LEMMA AlwaysInv == Spec => []IInv
<1> QED  BY InitInv, NextInv, PTL DEF Spec

\* Groups are groups and within the manager's limit, for any number of users.
THEOREM GroupTyping == Spec => []TypeOK
<1>1. IInv => TypeOK
  BY DEF IInv
<1> QED  BY <1>1, AlwaysInv, PTL

\* However members and admins come and go, admins are members.
THEOREM GroupAdmins == Spec => []AdminsAreMembers
<1>1. IInv => AdminsAreMembers
  BY DEF IInv, AdminsAreMembers, SoundGroup
<1> QED  BY <1>1, AlwaysInv, PTL

\* The creator of a group is an admin of it for good.
THEOREM GroupCreator == Spec => []CreatorStaysAdmin
<1>1. IInv => CreatorStaysAdmin
  BY DEF IInv, CreatorStaysAdmin, SoundGroup, IsAdmin
<1> QED  BY <1>1, AlwaysInv, PTL

\* No slice ever holds an address twice.
THEOREM GroupNobodyTwice == Spec => []NobodyTwice
<1>1. IInv => NobodyTwice
  BY DEF IInv, NobodyTwice, SoundGroup
<1> QED  BY <1>1, AlwaysInv, PTL

\* A removal takes away the one it names and nobody else.
THEOREM GroupRemovals == Spec => RemovalsAreExact
<1>1. ASSUME IInv, NEW id \in GroupId, NEW u \in User, NEW by \in User,
             RemoveMember(id, u, by)
      PROVE  Elements(groups'[id].members) = Elements(groups[id].members) \ {u}
  <2>1. SoundGroup(groups[id]) /\ u \in Elements(groups[id].members)
    BY <1>1 DEF RemoveMember, IInv, IsMember, InManager
  <2>2. groups'[id].members = SwapRemove(groups[id].members, u)
    BY <1>1, <2>1 DEF RemoveMember, IInv, TypeOK, SoundGroup, GroupRecord
  <2> QED  BY <2>1, <2>2, SwapRemoveExact DEF SoundGroup, GroupRecord
<1>2. IInv => \A id \in GroupId, u, by \in User :
        RemoveMember(id, u, by) =>
            Elements(groups'[id].members) = Elements(groups[id].members) \ {u}
  BY <1>1
<1> QED  BY <1>2, AlwaysInv, PTL DEF RemovalsAreExact

-----------------------------------------------------------------------------
\* The counters of RateLimit

\* Counters by minutes, without empty ones and without end.
IsBuckets(B) ==
    /\ B = [m \in DOMAIN B |-> B[m]] /\ DOMAIN B \subseteq Nat
    /\ \A m \in DOMAIN B : B[m] \in Nat \ {0}
    /\ IsFiniteSet(Slots(B))

SlotsFrom(B, b) == {s \in Slots(B) : s[1] >= b}

LEMMA SlotsOf ==
    ASSUME NEW B, IsBuckets(B)
    PROVE  /\ \A m, k : <<m, k>> \in Slots(B) <=> m \in DOMAIN B /\ k \in 1..B[m]
           /\ \A s \in Slots(B) : s = <<s[1], s[2]>> /\ s[1] \in DOMAIN B /\ s[1] \in Nat
  BY DEF IsBuckets, Slots

LEMMA SlotsFromFinite ==
    ASSUME NEW B, IsBuckets(B), NEW b
    PROVE  IsFiniteSet(SlotsFrom(B, b)) /\ Cardinality(SlotsFrom(B, b)) \in Nat
           /\ Cardinality(SlotsFrom(B, b)) <= Cardinality(Slots(B))
<1>1. SlotsFrom(B, b) \subseteq Slots(B) /\ IsFiniteSet(Slots(B))
  BY DEF SlotsFrom, IsBuckets
<1> QED  BY <1>1, FS_Subset, FS_CardinalityType

\* Keeping the minutes from b on keeps the messages from b on.
LEMMA KeepSlots ==
    ASSUME NEW B, IsBuckets(B), NEW b \in Int
    PROVE  IsBuckets(Keep(B, b)) /\ Slots(Keep(B, b)) = SlotsFrom(B, b)
<1> DEFINE K == Keep(B, b)
<1>1. /\ DOMAIN K = {m \in DOMAIN B : m >= b} /\ K = [m \in DOMAIN K |-> K[m]]
      /\ \A m \in DOMAIN K : K[m] = B[m]
  BY DEF Keep
<1> HIDE DEF K
<1>2. Slots(K) = SlotsFrom(B, b)
  <2>1. \A s : s \in Slots(K) <=> \E m \in DOMAIN K : s \in {m} \X (1..B[m])
    BY <1>1 DEF Slots
  <2>2. \A s : s \in Slots(B) <=> \E m \in DOMAIN B : s \in {m} \X (1..B[m])
    BY DEF Slots
  <2>3. \A s : s \in SlotsFrom(B, b) <=> s \in Slots(B) /\ s[1] >= b
    BY DEF SlotsFrom
  <2>4. ASSUME NEW s PROVE s \in Slots(K) <=> s \in SlotsFrom(B, b)
    BY <1>1, <2>1, <2>2, <2>3
  <2> QED  BY <2>4
<1>3. IsBuckets(K)
  BY <1>1, <1>2, SlotsFromFinite DEF IsBuckets
<1> QED  BY <1>2, <1>3 DEF K

\* Counting a message adds one at its minute.
NextSlot(B, m) == <<m, (IF m \in DOMAIN B THEN B[m] ELSE 0) + 1>>

LEMMA BumpSlots ==
    ASSUME NEW B, IsBuckets(B), NEW m \in Nat
    PROVE  /\ IsBuckets(Bump(B, m)) /\ DOMAIN Bump(B, m) = DOMAIN B \cup {m}
           /\ NextSlot(B, m)[1] = m /\ NextSlot(B, m) \notin Slots(B)
           /\ Slots(Bump(B, m)) = Slots(B) \cup {NextSlot(B, m)}
<1> DEFINE N == Bump(B, m)
           k == (IF m \in DOMAIN B THEN B[m] ELSE 0) + 1
<1>1. k \in Nat \ {0} /\ (m \in DOMAIN B => B[m] = k - 1) /\ (m \notin DOMAIN B => k = 1)
  BY DEF IsBuckets
<1>2. /\ DOMAIN N = DOMAIN B \cup {m} /\ N = [x \in DOMAIN N |-> N[x]]
      /\ \A x \in DOMAIN B : x # m => N[x] = B[x] + 0
      /\ N[m] = k
  BY DEF Bump
<1> HIDE DEF N, k
<1>3. \A x \in DOMAIN B \ {m} : N[x] = B[x]
  BY <1>2 DEF IsBuckets
<1>4. <<m, k>> \notin Slots(B)
  BY <1>1, SlotsOf
<1>5. Slots(N) = Slots(B) \cup {<<m, k>>}
  <2>1. \A s : s \in Slots(N) <=> \E x \in DOMAIN N : s \in {x} \X (1..N[x])
    BY DEF Slots
  <2>2. \A s : s \in Slots(B) <=> \E x \in DOMAIN B : s \in {x} \X (1..B[x])
    BY DEF Slots
  <2>3. 1..k = (1..(k - 1)) \cup {k}
    BY <1>1
  <2>4. ASSUME NEW s, s \in Slots(N) PROVE s \in Slots(B) \cup {<<m, k>>}
    <3>1. PICK x \in DOMAIN N : s \in {x} \X (1..N[x])
      BY <2>1, <2>4
    <3>2. CASE x = m
      <4>1. PICK i \in 1..k : s = <<m, i>>
        BY <1>2, <3>1, <3>2
      <4>2. CASE i = k
        BY <4>1, <4>2
      <4>3. CASE i # k
        <5>1. i \in 1..(k - 1)
          BY <1>1, <4>1, <4>3
        <5>2. m \in DOMAIN B /\ i \in 1..B[m]
          BY <1>1, <5>1
        <5> QED  BY <2>2, <4>1, <5>2
      <4> QED  BY <4>2, <4>3
    <3>3. CASE x # m
      BY <1>2, <1>3, <2>2, <3>1, <3>3
    <3> QED  BY <3>2, <3>3
  <2>5. ASSUME NEW s, s \in Slots(B) PROVE s \in Slots(N)
    <3>1. PICK x \in DOMAIN B : s \in {x} \X (1..B[x])
      BY <2>2, <2>5
    <3>2. CASE x = m
      <4>1. 1..B[x] \subseteq 1..N[x]
        BY <1>1, <1>2, <2>3, <3>2
      <4> QED  BY <1>2, <2>1, <3>1, <4>1
    <3>3. CASE x # m
      BY <1>2, <1>3, <2>1, <3>1, <3>3
    <3> QED  BY <3>2, <3>3
  <2>6. <<m, k>> \in Slots(N)
    BY <1>1, <1>2, <2>1
  <2> QED  BY <2>4, <2>5, <2>6
<1>6. IsFiniteSet(Slots(N))
  <2>1. IsFiniteSet(Slots(B))
    BY DEF IsBuckets
  <2> QED  BY <1>5, <2>1, FS_AddElement
<1>7. IsBuckets(N)
  BY <1>1, <1>2, <1>3, <1>6 DEF IsBuckets
<1>8. NextSlot(B, m) = <<m, k>>
  BY DEF NextSlot, k
<1> QED  BY <1>2, <1>4, <1>5, <1>7, <1>8 DEF N

LEMMA EmptySlots == IsBuckets(Empty) /\ Slots(Empty) = {} /\ DOMAIN Empty = {}
<1>1. DOMAIN Empty = {} /\ Empty = [m \in DOMAIN Empty |-> Empty[m]]
  BY DEF Empty
<1>2. Slots(Empty) = {}
  BY <1>1 DEF Slots
<1> QED  BY <1>1, <1>2, FS_EmptySet DEF IsBuckets

LEMMA TruncateFacts ==
    ASSUME NEW t \in Nat
    PROVE  Truncate(t) \in Nat /\ Truncate(t) <= t /\ Truncate(t) > t - Minute
           /\ Truncate(t) % Minute = 0
<1>1. Minute \in Nat /\ Minute > 0
  BY TimeAssumption
<1>2. t % Minute \in 0..(Minute - 1) /\ t % Minute <= t
  BY <1>1
<1>3. Truncate(t) % Minute = 0
  BY <1>1 DEF Truncate
<1> QED  BY <1>1, <1>2, <1>3 DEF Truncate

\* How a count from a minute on grows by one message.
LEMMA BumpCounts ==
    ASSUME NEW B, IsBuckets(B), NEW m \in Nat, NEW b \in Int
    PROVE  Cardinality(SlotsFrom(Bump(B, m), b))
             = Cardinality(SlotsFrom(B, b)) + IF m >= b THEN 1 ELSE 0
<1> DEFINE x == NextSlot(B, m)
<1>1. x[1] = m /\ x \notin Slots(B) /\ Slots(Bump(B, m)) = Slots(B) \cup {x}
  BY BumpSlots
<1> HIDE DEF x
<1>2. IsFiniteSet(SlotsFrom(B, b)) /\ Cardinality(SlotsFrom(B, b)) \in Nat
  BY SlotsFromFinite
<1>3. CASE m >= b
  <2>1. SlotsFrom(Bump(B, m), b) = SlotsFrom(B, b) \cup {x}
    BY <1>1, <1>3 DEF SlotsFrom
  <2>2. x \notin SlotsFrom(B, b)
    BY <1>1 DEF SlotsFrom
  <2>3. Cardinality(SlotsFrom(B, b) \cup {x}) = Cardinality(SlotsFrom(B, b)) + 1
    BY <1>2, <2>2, FS_AddElement
  <2> QED  BY <1>3, <2>1, <2>3
<1>4. CASE ~(m >= b)
  <2>1. SlotsFrom(Bump(B, m), b) = SlotsFrom(B, b)
    BY <1>1, <1>4 DEF SlotsFrom
  <2> QED  BY <1>2, <1>4, <2>1
<1> QED  BY <1>3, <1>4

\* The first minute of those from b on that a cleanup now leaves.
From(b) == IF CleanupDue /\ b < now - Hour THEN now - Hour ELSE b

LEMMA CleanedSlots ==
    ASSUME NEW B, IsBuckets(B), now \in Nat
    PROVE  /\ IsBuckets(Cleaned(B)) /\ DOMAIN Cleaned(B) \subseteq DOMAIN B
           /\ CleanupDue => \A m \in DOMAIN Cleaned(B) : m >= now - Hour
           /\ \A b \in Int : SlotsFrom(Cleaned(B), b) = SlotsFrom(B, From(b))
<1>1. now - Hour \in Int
  BY TimeAssumption
<1>2. CASE CleanupDue
  <2>1. Cleaned(B) = Keep(B, now - Hour)
    BY <1>2 DEF Cleaned
  <2>2. DOMAIN Keep(B, now - Hour) = {m \in DOMAIN B : m >= now - Hour}
    BY DEF Keep
  <2>3. Slots(Cleaned(B)) = SlotsFrom(B, now - Hour) /\ IsBuckets(Cleaned(B))
    BY <1>1, <2>1, KeepSlots
  <2>4. ASSUME NEW b \in Int
        PROVE  SlotsFrom(Cleaned(B), b) = SlotsFrom(B, From(b))
    <3>1. \A s \in Slots(B) : s[1] \in Int
      BY SlotsOf
    <3>2. \A s \in Slots(B) : s[1] >= From(b) <=> s[1] >= now - Hour /\ s[1] >= b
      BY <1>1, <1>2, <3>1 DEF From
    <3> QED  BY <2>3, <3>2 DEF SlotsFrom
  <2> QED  BY <2>1, <2>2, <2>3, <2>4
<1>3. CASE ~CleanupDue
  BY <1>3 DEF Cleaned, From
<1> QED  BY <1>2, <1>3

-----------------------------------------------------------------------------
\* The messages of RateLimit

\* Those of the messages J of q that were counted at b or later.
Since(q, J, b) == {j \in J : Truncate(q[j].at) >= b}

IsHistory(q) == q \in Seq([at : Nat, to : Receivers, free : BOOLEAN])

LEMMA HistoryFacts ==
    ASSUME NEW q, IsHistory(q)
    PROVE  \A j \in DOMAIN q : q[j].at \in Nat
<1> DEFINE R == [at : Nat, to : Receivers, free : BOOLEAN]
<1>1. q \in Seq(R)
  BY DEF IsHistory
<1> HIDE DEF R
<1>2. \A j \in DOMAIN q : q[j] \in R
  BY <1>1
<1> QED  BY <1>2 DEF R

LEMMA EmptyHistory == IsHistory(<< >>) /\ DOMAIN << >> = {}
<1> DEFINE R == [at : Nat, to : Receivers, free : BOOLEAN]
<1> HIDE DEF R
<1>1. << >> \in Seq(R) /\ DOMAIN << >> = {}
  OBVIOUS
<1> QED  BY <1>1 DEF R, IsHistory

LEMMA SinceFinite ==
    ASSUME NEW q, IsHistory(q), NEW J, J \subseteq DOMAIN q, NEW b
    PROVE  IsFiniteSet(Since(q, J, b)) /\ Cardinality(Since(q, J, b)) \in Nat
<1>1. Since(q, J, b) \subseteq 1..Len(q) /\ Len(q) \in Nat
  BY DEF Since, IsHistory
<1>2. IsFiniteSet(1..Len(q))
  BY <1>1, FS_Interval
<1> QED  BY <1>1, <1>2, FS_Subset, FS_CardinalityType

\* Another message adds one, when it is counted at b or later.
LEMMA SinceAppend ==
    ASSUME NEW q, IsHistory(q), NEW J, J \subseteq DOMAIN q,
           NEW x \in [at : Nat, to : Receivers, free : BOOLEAN], NEW b \in Int
    PROVE  /\ Since(Append(q, x), J, b) = Since(q, J, b)
           /\ Cardinality(Since(Append(q, x), J \cup {Len(q) + 1}, b))
                = Cardinality(Since(q, J, b)) + IF Truncate(x.at) >= b THEN 1 ELSE 0
<1> DEFINE p == Append(q, x)  n == Len(q)
<1>1. n \in Nat /\ DOMAIN q = 1..n /\ n + 1 \notin J
  BY DEF IsHistory
<1>2. p[n + 1] = x /\ \A j \in J : p[j] = q[j]
  BY <1>1 DEF IsHistory
<1> HIDE DEF p, n
<1>3. Since(p, J, b) = Since(q, J, b)
  BY <1>2 DEF Since
<1>4. IsFiniteSet(Since(q, J, b)) /\ Cardinality(Since(q, J, b)) \in Nat
  BY SinceFinite
<1>5. CASE Truncate(x.at) >= b
  <2>1. Since(p, J \cup {n + 1}, b) = Since(q, J, b) \cup {n + 1}
    BY <1>2, <1>5 DEF Since
  <2>2. n + 1 \notin Since(q, J, b)
    BY <1>1 DEF Since
  <2>3. Cardinality(Since(q, J, b) \cup {n + 1}) = Cardinality(Since(q, J, b)) + 1
    BY <1>4, <2>2, FS_AddElement
  <2> QED  BY <1>3, <1>5, <2>1, <2>3 DEF n, p
<1>6. CASE ~(Truncate(x.at) >= b)
  <2>1. Since(p, J \cup {n + 1}, b) = Since(q, J, b)
    BY <1>2, <1>6 DEF Since
  <2> QED  BY <1>3, <1>4, <1>6, <2>1 DEF n, p
<1> QED  BY <1>5, <1>6

SentTo(q, r) == {j \in DOMAIN q : q[j].to = r}

-----------------------------------------------------------------------------
\* The receivers' counters of RateLimit

PerReceiver(P) == P = [r \in Receivers |-> P[r]] /\ \A r \in Receivers : IsBuckets(P[r])

AllSlots(P) == UNION {{r} \X Slots(P[r]) : r \in Receivers}
AllFrom(P, b) == {x \in AllSlots(P) : x[2][1] >= b}

\* From every minute on, the counters B count what the counters P count together.
Agrees(B, P) ==
    /\ IsFiniteSet(AllSlots(P))
    /\ \A b \in Int : Cardinality(AllFrom(P, b)) = Cardinality(SlotsFrom(B, b))

LEMMA AgreesInAll ==
    ASSUME NEW B, IsBuckets(B), NEW P, PerReceiver(P), Agrees(B, P)
    PROVE  Cardinality(AllSlots(P)) = Cardinality(Slots(B))
<1>1. SlotsFrom(B, 0) = Slots(B)
  BY SlotsOf DEF SlotsFrom
<1>2. ASSUME NEW x \in AllSlots(P) PROVE x[2][1] >= 0
  <2>1. PICK r \in Receivers : x \in {r} \X Slots(P[r])
    BY DEF AllSlots
  <2>2. x[2] \in Slots(P[r]) /\ IsBuckets(P[r])
    BY <2>1 DEF PerReceiver
  <2>3. x[2][1] \in Nat
    BY <2>2, SlotsOf
  <2> QED  BY <2>3
<1>3. AllFrom(P, 0) = AllSlots(P)
  BY <1>2 DEF AllFrom
<1> QED  BY <1>1, <1>3 DEF Agrees

CleanedAll(P) == [r \in Receivers |-> Cleaned(P[r])]

\* They agree after a cleanup of both.
LEMMA AgreesCleaned ==
    ASSUME NEW B, IsBuckets(B), NEW P, PerReceiver(P), Agrees(B, P), now \in Nat
    PROVE  PerReceiver(CleanedAll(P)) /\ Agrees(Cleaned(B), CleanedAll(P))
<1>1. /\ CleanedAll(P) = [r \in Receivers |-> CleanedAll(P)[r]]
      /\ \A r \in Receivers : CleanedAll(P)[r] = Cleaned(P[r]) /\ IsBuckets(P[r])
  BY DEF CleanedAll, PerReceiver
<1>2. \A r \in Receivers : IsBuckets(CleanedAll(P)[r])
  BY <1>1, CleanedSlots
<1>3. \A b \in Int : From(b) \in Int
  BY TimeAssumption DEF From
<1>4. ASSUME NEW b \in Int PROVE AllFrom(CleanedAll(P), b) = AllFrom(P, From(b))
  <2>1. \A r \in Receivers : SlotsFrom(CleanedAll(P)[r], b) = SlotsFrom(P[r], From(b))
    BY <1>1, CleanedSlots
  <2>2. \A x : x \in AllFrom(CleanedAll(P), b)
                 <=> \E r \in Receivers : x \in {r} \X SlotsFrom(CleanedAll(P)[r], b)
    BY DEF AllFrom, AllSlots, SlotsFrom
  <2>3. \A x : x \in AllFrom(P, From(b))
                 <=> \E r \in Receivers : x \in {r} \X SlotsFrom(P[r], From(b))
    BY DEF AllFrom, AllSlots, SlotsFrom
  <2>4. \A x : x \in AllFrom(CleanedAll(P), b) <=> x \in AllFrom(P, From(b))
    BY <2>1, <2>2, <2>3
  <2> QED  BY <2>4
<1>5. AllSlots(CleanedAll(P)) \subseteq AllSlots(P)
  <2> SUFFICES ASSUME NEW x \in AllSlots(CleanedAll(P)) PROVE x \in AllSlots(P)
    OBVIOUS
  <2>1. PICK r \in Receivers : x \in {r} \X Slots(CleanedAll(P)[r])
    BY DEF AllSlots
  <2>2. x[2][1] \in Int
    BY <1>2, <2>1, SlotsOf
  <2>3. x[2] \in SlotsFrom(Cleaned(P[r]), x[2][1])
    BY <1>1, <2>1, <2>2 DEF SlotsFrom
  <2>4. x[2] \in Slots(P[r])
    BY <1>1, <2>2, <2>3, CleanedSlots DEF SlotsFrom
  <2> QED  BY <2>1, <2>4 DEF AllSlots
<1>6. \A b \in Int : Cardinality(AllFrom(CleanedAll(P), b)) = Cardinality(SlotsFrom(Cleaned(B), b))
  BY <1>3, <1>4, CleanedSlots DEF Agrees
<1> QED  BY <1>1, <1>2, <1>5, <1>6, FS_Subset DEF PerReceiver, Agrees

BumpedAt(P, to, m) == [r \in Receivers |-> IF r = to THEN Bump(P[r], m) ELSE P[r]]

\* They agree after a message counted in both.
LEMMA AgreesBumped ==
    ASSUME NEW B, IsBuckets(B), NEW P, PerReceiver(P), Agrees(B, P),
           NEW to \in Receivers, NEW m \in Nat
    PROVE  PerReceiver(BumpedAt(P, to, m)) /\ Agrees(Bump(B, m), BumpedAt(P, to, m))
<1> DEFINE Q == BumpedAt(P, to, m)
           s == NextSlot(P[to], m)
<1>1. /\ Q = [r \in Receivers |-> Q[r]]
      /\ Q[to] = Bump(P[to], m) /\ \A r \in Receivers \ {to} : Q[r] = P[r]
      /\ \A r \in Receivers : IsBuckets(P[r])
  BY DEF BumpedAt, PerReceiver
<1>2. /\ IsBuckets(Q[to]) /\ s[1] = m /\ s \notin Slots(P[to])
      /\ Slots(Q[to]) = Slots(P[to]) \cup {s}
  <2>1. IsBuckets(P[to])
    BY <1>1
  <2>2. /\ IsBuckets(Bump(P[to], m)) /\ s[1] = m /\ s \notin Slots(P[to])
        /\ Slots(Bump(P[to], m)) = Slots(P[to]) \cup {s}
    BY <2>1, BumpSlots
  <2> QED  BY <1>1, <2>2
<1> HIDE DEF Q, s
<1>3. AllSlots(Q) = AllSlots(P) \cup {<<to, s>>} /\ <<to, s>> \notin AllSlots(P)
  <2>1. \A x : x \in AllSlots(Q) <=> \E r \in Receivers : x \in {r} \X Slots(Q[r])
    BY DEF AllSlots
  <2>2. \A x : x \in AllSlots(P) <=> \E r \in Receivers : x \in {r} \X Slots(P[r])
    BY DEF AllSlots
  <2>3. \A r \in Receivers : Slots(P[r]) \subseteq Slots(Q[r])
    BY <1>1, <1>2
  <2>4. \A x \in AllSlots(P) : x \in AllSlots(Q)
    BY <2>1, <2>2, <2>3
  <2>5. <<to, s>> \in AllSlots(Q)
    BY <1>2, <2>1
  <2>6. \A x \in AllSlots(Q) : x \in AllSlots(P) \/ x = <<to, s>>
    <3> SUFFICES ASSUME NEW x \in AllSlots(Q) PROVE x \in AllSlots(P) \/ x = <<to, s>>
      OBVIOUS
    <3>1. PICK r \in Receivers : x \in {r} \X Slots(Q[r])
      BY <2>1
    <3>2. CASE r = to
      BY <1>2, <2>2, <3>1, <3>2
    <3>3. CASE r # to
      BY <1>1, <2>2, <3>1, <3>3
    <3> QED  BY <3>2, <3>3
  <2>7. <<to, s>> \notin AllSlots(P)
    BY <1>2, <2>2
  <2> QED  BY <2>4, <2>5, <2>6, <2>7
<1>4. IsFiniteSet(AllSlots(P))
  BY DEF Agrees
<1>5. IsFiniteSet(AllSlots(Q))
  BY <1>3, <1>4, FS_AddElement
<1>6. ASSUME NEW b \in Int
      PROVE  Cardinality(AllFrom(Q, b)) = Cardinality(SlotsFrom(Bump(B, m), b))
  <2>1. /\ IsFiniteSet(AllFrom(P, b)) /\ Cardinality(AllFrom(P, b)) \in Nat
        /\ Cardinality(AllFrom(P, b)) = Cardinality(SlotsFrom(B, b))
    <3>1. AllFrom(P, b) \subseteq AllSlots(P)
      BY DEF AllFrom
    <3> QED  BY <1>4, <3>1, FS_Subset, FS_CardinalityType DEF Agrees
  <2>2. Cardinality(SlotsFrom(Bump(B, m), b))
          = Cardinality(AllFrom(P, b)) + IF m >= b THEN 1 ELSE 0
    BY <2>1, BumpCounts
  <2>3. CASE m >= b
    <3>1. AllFrom(Q, b) = AllFrom(P, b) \cup {<<to, s>>} /\ <<to, s>> \notin AllFrom(P, b)
      BY <1>2, <1>3, <2>3 DEF AllFrom
    <3>2. Cardinality(AllFrom(P, b) \cup {<<to, s>>}) = Cardinality(AllFrom(P, b)) + 1
      BY <2>1, <3>1, FS_AddElement
    <3> QED  BY <2>2, <2>3, <3>1, <3>2
  <2>4. CASE ~(m >= b)
    <3>1. AllFrom(Q, b) = AllFrom(P, b)
      BY <1>2, <1>3, <2>4 DEF AllFrom
    <3> QED  BY <2>1, <2>2, <2>4, <3>1
  <2> QED  BY <2>3, <2>4
<1>7. \A r \in Receivers : IsBuckets(Q[r])
  BY <1>1, <1>2
<1> QED  BY <1>1, <1>5, <1>6, <1>7 DEF Q, PerReceiver, Agrees

-----------------------------------------------------------------------------
\* The inductive invariant of RateLimit

\* No counter is of a minute an hour older than the cleanup at c, or later than
\* every message of q.
Fresh(B, q, c) ==
    \A m \in DOMAIN B : /\ m % Minute = 0 /\ m >= c - Hour
                         /\ \E j \in DOMAIN q : m <= q[j].at

\* At t, B counts exactly the messages J of q for every minute of the last hour.
CountIs(B, q, J, t) ==
    \A b \in Int : b >= t - Hour
        => Cardinality(SlotsFrom(B, b)) = Cardinality(Since(q, J, b))

RateShape ==
    /\ now \in Nat /\ now <= MaxTime /\ lastCleanup \in Nat /\ lastCleanup <= now
    /\ tracked \in BOOLEAN /\ (~tracked => sent = << >>)
    /\ IsBuckets(total) /\ PerReceiver(perAddress)
    /\ IsHistory(sent) /\ \A j \in DOMAIN sent : sent[j].at <= now
    /\ whitelists \subseteq stored /\ stored \subseteq Pairs

Counters(B, P, q, c, t) ==
    /\ Fresh(B, q, c)
    /\ CountIs(B, q, DOMAIN q, t)
    /\ \A r \in Receivers : CountIs(P[r], q, SentTo(q, r), t)
    /\ Agrees(B, P)

RateInv ==
    /\ RateShape
    /\ Counters(total, perAddress, sent, lastCleanup, now)
    /\ LimitHoldsForAnHourLessAMinute

\* lastCleanup after getting the counters.
NewCleanup == IF ~tracked \/ CleanupDue THEN now ELSE lastCleanup

LEMMA CleanupKeepsCounters ==
    ASSUME RateInv
    PROVE  /\ IsBuckets(Cleaned(total)) /\ PerReceiver(CleanedAll(perAddress))
           /\ NewCleanup \in Nat /\ NewCleanup <= now /\ NewCleanup > now - Minute
           /\ Counters(Cleaned(total), CleanedAll(perAddress), sent, NewCleanup, now)
<1>1. /\ now \in Nat /\ lastCleanup \in Nat /\ lastCleanup <= now /\ tracked \in BOOLEAN
      /\ IsBuckets(total) /\ PerReceiver(perAddress) /\ (~tracked => sent = << >>)
      /\ Fresh(total, sent, lastCleanup) /\ CountIs(total, sent, DOMAIN sent, now)
      /\ \A r \in Receivers : CountIs(perAddress[r], sent, SentTo(sent, r), now)
      /\ Agrees(total, perAddress)
  BY DEF RateInv, RateShape, Counters
<1>2. Minute \in Nat \ {0} /\ Hour \in Nat
  BY TimeAssumption
<1>3. NewCleanup \in Nat /\ NewCleanup <= now /\ NewCleanup > now - Minute
  BY <1>1, <1>2 DEF NewCleanup, CleanupDue
<1>4. IsBuckets(Cleaned(total))
  BY <1>1, CleanedSlots
<1>5. PerReceiver(CleanedAll(perAddress)) /\ Agrees(Cleaned(total), CleanedAll(perAddress))
  BY <1>1, AgreesCleaned
<1>6. Fresh(Cleaned(total), sent, NewCleanup)
  <2> SUFFICES ASSUME NEW m \in DOMAIN Cleaned(total)
               PROVE  /\ m % Minute = 0 /\ m >= NewCleanup - Hour
                      /\ \E j \in DOMAIN sent : m <= sent[j].at
    BY DEF Fresh
  <2>1. m \in DOMAIN total /\ (CleanupDue => m >= now - Hour)
    BY <1>1, CleanedSlots
  <2>2. /\ m % Minute = 0 /\ m >= lastCleanup - Hour
        /\ \E j \in DOMAIN sent : m <= sent[j].at
    BY <1>1, <2>1 DEF Fresh
  <2>3. tracked
    BY <1>1, <2>2
  <2> QED  BY <2>1, <2>2, <2>3 DEF NewCleanup
<1>7. ASSUME NEW B, IsBuckets(B), NEW J, CountIs(B, sent, J, now)
      PROVE  CountIs(Cleaned(B), sent, J, now)
  <2> SUFFICES ASSUME NEW b \in Int, b >= now - Hour
               PROVE  Cardinality(SlotsFrom(Cleaned(B), b)) = Cardinality(Since(sent, J, b))
    BY DEF CountIs
  <2>1. From(b) = b
    BY <1>1, <1>2 DEF From
  <2>2. SlotsFrom(Cleaned(B), b) = SlotsFrom(B, b)
    BY <1>1, <1>7, <2>1, CleanedSlots
  <2> QED  BY <1>7, <2>2 DEF CountIs
<1>8. CountIs(Cleaned(total), sent, DOMAIN sent, now)
  BY <1>1, <1>7
<1>9. \A r \in Receivers : CountIs(CleanedAll(perAddress)[r], sent, SentTo(sent, r), now)
  BY <1>1, <1>7 DEF CleanedAll, PerReceiver
<1> QED  BY <1>3, <1>4, <1>5, <1>6, <1>8, <1>9 DEF Counters

\* A message counted now, and sent.
LEMMA MessageKeepsCounters ==
    ASSUME NEW t \in Nat, NEW c \in Nat, c <= t, NEW B, IsBuckets(B), NEW P, PerReceiver(P),
           NEW q, IsHistory(q), Counters(B, P, q, c, t),
           NEW to \in Receivers, NEW free \in BOOLEAN
    PROVE  LET m == Truncate(t)
               p == Append(q, [at |-> t, to |-> to, free |-> free])
           IN  /\ IsBuckets(Bump(B, m)) /\ PerReceiver(BumpedAt(P, to, m)) /\ IsHistory(p)
               /\ Counters(Bump(B, m), BumpedAt(P, to, m), p, c, t)
<1> DEFINE m == Truncate(t)
           x == [at |-> t, to |-> to, free |-> free]
           p == Append(q, x)
           n == Len(q)
<1>1. /\ x \in [at : Nat, to : Receivers, free : BOOLEAN] /\ x.at = t /\ x.to = to
      /\ n \in Nat /\ DOMAIN q = 1..n
      /\ IsHistory(p) /\ DOMAIN p = 1..(n + 1)
      /\ p[n + 1] = x /\ \A j \in 1..n : p[j] = q[j]
  BY DEF IsHistory
<1>2. m \in Nat /\ m <= t /\ m > t - Minute /\ m % Minute = 0
  BY TruncateFacts
<1> HIDE DEF x, p, n, m
<1>3. IsBuckets(Bump(B, m)) /\ DOMAIN Bump(B, m) = DOMAIN B \cup {m}
  BY <1>2, BumpSlots
<1>4. /\ Fresh(B, q, c) /\ CountIs(B, q, DOMAIN q, t) /\ Agrees(B, P)
      /\ \A r \in Receivers : CountIs(P[r], q, SentTo(q, r), t) /\ IsBuckets(P[r])
  BY DEF Counters, PerReceiver
<1>5. PerReceiver(BumpedAt(P, to, m)) /\ Agrees(Bump(B, m), BumpedAt(P, to, m))
  BY <1>2, <1>4, AgreesBumped
<1>6. Fresh(Bump(B, m), p, c)
  <2>1. ASSUME NEW k \in DOMAIN B
        PROVE  k % Minute = 0 /\ k >= c - Hour /\ \E j \in DOMAIN p : k <= p[j].at
    <3>1. k % Minute = 0 /\ k >= c - Hour /\ \E j \in DOMAIN q : k <= q[j].at
      BY <1>4, <2>1 DEF Fresh
    <3>2. PICK j \in 1..n : k <= q[j].at
      BY <1>1, <3>1
    <3>3. j \in DOMAIN p /\ p[j] = q[j]
      BY <1>1
    <3> QED  BY <3>1, <3>2, <3>3
  <2>2. m >= c - Hour
    BY <1>2, TimeAssumption
  <2>3. n + 1 \in DOMAIN p /\ m <= p[n + 1].at
    BY <1>1, <1>2
  <2> QED  BY <1>2, <1>3, <2>1, <2>2, <2>3 DEF Fresh
<1>7. ASSUME NEW D, IsBuckets(D), NEW J, J \subseteq DOMAIN q, CountIs(D, q, J, t)
      PROVE  CountIs(D, p, J, t) /\ CountIs(Bump(D, m), p, J \cup {n + 1}, t)
  <2>1. ASSUME NEW b \in Int, b >= t - Hour
        PROVE  /\ Cardinality(SlotsFrom(D, b)) = Cardinality(Since(p, J, b))
               /\ Cardinality(SlotsFrom(Bump(D, m), b))
                    = Cardinality(Since(p, J \cup {n + 1}, b))
    <3>1. Cardinality(SlotsFrom(D, b)) = Cardinality(Since(q, J, b))
      BY <1>7, <2>1 DEF CountIs
    <3>2. Cardinality(SlotsFrom(Bump(D, m), b))
            = Cardinality(SlotsFrom(D, b)) + IF m >= b THEN 1 ELSE 0
      BY <1>2, <1>7, BumpCounts
    <3>3. /\ Since(p, J, b) = Since(q, J, b)
          /\ Cardinality(Since(p, J \cup {n + 1}, b))
               = Cardinality(Since(q, J, b)) + IF m >= b THEN 1 ELSE 0
      BY <1>1, <1>7, SinceAppend DEF p, n, m
    <3> QED  BY <3>1, <3>2, <3>3
  <2> QED  BY <2>1 DEF CountIs
<1>8. CountIs(Bump(B, m), p, DOMAIN p, t)
  <2>1. DOMAIN p = DOMAIN q \cup {n + 1}
    BY <1>1
  <2> QED  BY <1>4, <1>7, <2>1
<1>9. ASSUME NEW r \in Receivers
      PROVE  CountIs(BumpedAt(P, to, m)[r], p, SentTo(p, r), t)
  <2>1. CASE r = to
    <3>1. SentTo(p, r) = SentTo(q, r) \cup {n + 1}
      BY <1>1, <2>1 DEF SentTo
    <3>2. SentTo(q, r) \subseteq DOMAIN q /\ BumpedAt(P, to, m)[r] = Bump(P[r], m)
      BY <2>1 DEF SentTo, BumpedAt
    <3> QED  BY <1>4, <1>7, <3>1, <3>2
  <2>2. CASE r # to
    <3>1. SentTo(p, r) = SentTo(q, r)
      BY <1>1, <2>2 DEF SentTo
    <3>2. SentTo(q, r) \subseteq DOMAIN q /\ BumpedAt(P, to, m)[r] = P[r]
      BY <2>2 DEF SentTo, BumpedAt
    <3> QED  BY <1>4, <1>7, <3>1, <3>2
  <2> QED  BY <2>1, <2>2
<1> QED  BY <1>1, <1>3, <1>5, <1>6, <1>8, <1>9 DEF Counters, p, x, m

-----------------------------------------------------------------------------
\* The steps of RateLimit

\* The messages of the hour less a minute before now are among those counted
\* in the minutes that began less than an hour ago.
LEMMA RecentAreCounted ==
    ASSUME NEW q, IsHistory(q), NEW t \in Nat, NEW J, J \subseteq DOMAIN q,
           NEW B, IsBuckets(B), CountIs(B, q, J, t), NEW Max \in Nat, CountIn(B) < Max,
           NEW W, W \subseteq J \cup {Len(q) + 1},
           \A j \in W \cap J : q[j].at > t - (Hour - Minute)
    PROVE  Cardinality(W) <= Max
<1> DEFINE S == Since(q, J, t - Hour)  n == Len(q)
<1>1. Minute \in Nat /\ Hour \in Nat /\ n \in Nat /\ DOMAIN q = 1..n
  BY TimeAssumption DEF IsHistory
<1>2. \A j \in J : q[j].at \in Nat
  BY HistoryFacts
<1>3. \A j \in W \cap J : j \in S
  <2> SUFFICES ASSUME NEW j \in W \cap J PROVE Truncate(q[j].at) >= t - Hour
    BY DEF Since
  <2>1. q[j].at \in Nat /\ q[j].at > t - (Hour - Minute)
    BY <1>2
  <2>2. Truncate(q[j].at) \in Nat /\ Truncate(q[j].at) > q[j].at - Minute
    BY <2>1, TruncateFacts
  <2> QED  BY <1>1, <2>1, <2>2
<1>4. W \subseteq S \cup {n + 1}
  BY <1>3
<1>5. IsFiniteSet(S) /\ Cardinality(S) \in Nat
  BY SinceFinite
<1>6. IsFiniteSet(S \cup {n + 1}) /\ Cardinality(S \cup {n + 1}) <= Cardinality(S) + 1
  BY <1>5, FS_AddElement
<1>7. /\ Cardinality(W) <= Cardinality(S \cup {n + 1})
      /\ Cardinality(W) \in Nat /\ Cardinality(S \cup {n + 1}) \in Nat
  BY <1>4, <1>6, FS_Subset, FS_CardinalityType
<1>8. t - Hour \in Int /\ t - Hour >= t - Hour
  BY <1>1
<1>9. Cardinality(S) = Cardinality(SlotsFrom(B, t - Hour))
  BY <1>8 DEF CountIs
<1>10. Cardinality(S) <= CountIn(B) /\ CountIn(B) \in Nat
  BY <1>9, SlotsFromFinite, FS_CardinalityType DEF CountIn, IsBuckets
<1> QED  BY <1>5, <1>6, <1>7, <1>10

\* A message sent with the limit's leave is within the limit, and those before it are
\* where they were.
LEMMA SendKeepsLimit ==
    ASSUME RateInv, NEW to \in Receivers, SendMessage(to)
    PROVE  LimitHoldsForAnHourLessAMinute'
<1> DEFINE n == Len(sent)
           W(i) == {j \in 1..i : sent[j].at > sent[i].at - (Hour - Minute)}
           V(i) == {j \in 1..i : sent'[j].at > sent'[i].at - (Hour - Minute)}
<1>1. /\ n \in Nat /\ DOMAIN sent = 1..n /\ IsHistory(sent) /\ now \in Nat
      /\ sent' = Append(sent, [at |-> now, to |-> to, free |-> isWhitelisted(to)])
      /\ now' = now
  BY DEF RateInv, RateShape, IsHistory, SendMessage
<1>2. /\ DOMAIN sent' = 1..(n + 1) /\ \A j \in 1..n : sent'[j] = sent[j]
      /\ sent'[n + 1].at = now /\ sent'[n + 1].to = to
      /\ sent'[n + 1].free = isWhitelisted(to)
  BY <1>1 DEF IsHistory
<1> HIDE DEF n
<1>3. \A i \in 1..n : 1..i \subseteq 1..n /\ n + 1 \notin 1..n
  BY <1>1
<1>4. \A i \in 1..n : V(i) = W(i)
  BY <1>2, <1>3
<1>5. LimitHoldsForAnHourLessAMinute' <=>
        \A i \in DOMAIN sent' : ~sent'[i].free =>
            /\ Cardinality(V(i)) <= MaxTotal
            /\ Cardinality({j \in V(i) : sent'[j].to = sent'[i].to}) <= MaxPerAddr
  BY DEF LimitHoldsForAnHourLessAMinute, Within, InWindow
<1>6. \A i \in DOMAIN sent : ~sent[i].free =>
            /\ Cardinality(W(i)) <= MaxTotal
            /\ Cardinality({j \in W(i) : sent[j].to = sent[i].to}) <= MaxPerAddr
  BY DEF RateInv, LimitHoldsForAnHourLessAMinute, Within, InWindow
<1>7. ASSUME NEW i \in 1..n, ~sent'[i].free
      PROVE  /\ Cardinality(V(i)) <= MaxTotal
             /\ Cardinality({j \in V(i) : sent'[j].to = sent'[i].to}) <= MaxPerAddr
  <2>1. {j \in V(i) : sent'[j].to = sent'[i].to} = {j \in W(i) : sent[j].to = sent[i].to}
    BY <1>2, <1>3, <1>4
  <2> QED  BY <1>1, <1>2, <1>4, <1>6, <1>7, <2>1
<1>8. ASSUME ~isWhitelisted(to)
      PROVE  /\ Cardinality(V(n + 1)) <= MaxTotal
             /\ Cardinality({j \in V(n + 1) : sent'[j].to = to}) <= MaxPerAddr
  <2>1. /\ CountIn(Cleaned(total)) < MaxTotal
        /\ CountIn(Cleaned(perAddress[to])) < MaxPerAddr
    <3>1. ~exceedsRateLimit(to)
      BY <1>8 DEF SendMessage
    <3>2. /\ IsBuckets(Cleaned(total)) /\ IsBuckets(CleanedAll(perAddress)[to])
          /\ CleanedAll(perAddress)[to] = Cleaned(perAddress[to])
      BY CleanupKeepsCounters DEF PerReceiver, CleanedAll
    <3>3. CountIn(Cleaned(total)) \in Nat /\ CountIn(Cleaned(perAddress[to])) \in Nat
      BY <3>2, FS_CardinalityType DEF IsBuckets, CountIn
    <3> QED  BY <3>1, <3>3, LimitsAssumption DEF exceedsRateLimit
  <2>2. \A j \in V(n + 1) : j \in 1..n => sent[j].at > now - (Hour - Minute)
    BY <1>2
  <2>3. V(n + 1) \subseteq DOMAIN sent \cup {n + 1}
    BY <1>1
  <2>4. Cardinality(V(n + 1)) <= MaxTotal
    <3>1. /\ CountIs(Cleaned(total), sent, DOMAIN sent, now)
          /\ IsBuckets(Cleaned(total))
      BY CleanupKeepsCounters DEF Counters
    <3>2. MaxTotal \in Nat
      BY LimitsAssumption
    <3> HIDE DEF V
    <3> QED  BY <1>1, <2>1, <2>2, <2>3, <3>1, <3>2, RecentAreCounted DEF n
  <2>5. Cardinality({j \in V(n + 1) : sent'[j].to = to}) <= MaxPerAddr
    <3> DEFINE U == {j \in V(n + 1) : sent'[j].to = to}
    <3>1. /\ CountIs(Cleaned(perAddress[to]), sent, SentTo(sent, to), now)
          /\ IsBuckets(Cleaned(perAddress[to]))
      BY CleanupKeepsCounters DEF Counters, PerReceiver, CleanedAll
    <3>2. MaxPerAddr \in Nat
      BY LimitsAssumption
    <3>3. U \subseteq SentTo(sent, to) \cup {n + 1}
      BY <1>1, <1>2, <2>3 DEF SentTo
    <3>4. \A j \in U \cap SentTo(sent, to) : sent[j].at > now - (Hour - Minute)
      BY <1>1, <2>2 DEF SentTo
    <3>5. SentTo(sent, to) \subseteq DOMAIN sent
      BY DEF SentTo
    <3> HIDE DEF U
    <3>6. Cardinality(U) <= MaxPerAddr
      BY <1>1, <2>1, <3>1, <3>2, <3>3, <3>4, <3>5, RecentAreCounted DEF n
    <3> QED  BY <3>6 DEF U
  <2> QED  BY <2>4, <2>5
<1>9. \A i \in DOMAIN sent' : i \in 1..n \/ i = n + 1
  BY <1>1, <1>2
<1> QED  BY <1>2, <1>5, <1>7, <1>8, <1>9

\* The counters of a sender who is not tracked.
LEMMA EmptyCounters == IsBuckets(Empty) /\ PerReceiver([r \in Receivers |-> Empty])
  BY EmptySlots DEF PerReceiver

LEMMA NothingCounted ==
    ASSUME NEW c \in Nat, NEW t \in Nat
    PROVE  Counters(Empty, [r \in Receivers |-> Empty], << >>, c, t)
<1> DEFINE P == [r \in Receivers |-> Empty]
<1>1. /\ DOMAIN Empty = {} /\ Slots(Empty) = {}
      /\ \A r \in Receivers : P[r] = Empty
  BY EmptySlots
<1> HIDE DEF P
<1>2. /\ AllSlots(P) = {} /\ \A b \in Int : AllFrom(P, b) = {} /\ SlotsFrom(Empty, b) = {}
  BY <1>1 DEF AllSlots, AllFrom, SlotsFrom
<1>3. DOMAIN << >> = {} /\ \A r \in Receivers : SentTo(<< >>, r) = {}
  BY DEF SentTo
<1>4. \A b \in Int : Since(<< >>, {}, b) = {}
  BY DEF Since
<1>5. CountIs(Empty, << >>, {}, t)
  BY <1>2, <1>4 DEF CountIs
<1>6. Agrees(Empty, P)
  BY <1>2, FS_EmptySet DEF Agrees
<1> QED  BY <1>1, <1>3, <1>5, <1>6 DEF Counters, Fresh, P

LEMMA RateInitInv == RateInit => RateInv
<1> SUFFICES ASSUME RateInit PROVE RateInv
  OBVIOUS
<1>1. /\ now = 0 /\ tracked = FALSE /\ lastCleanup = 0 /\ total = Empty
      /\ perAddress = [r \in Receivers |-> Empty]
      /\ whitelists = {} /\ stored = {} /\ sent = << >>
  BY DEF RateInit
<1>2. /\ PerReceiver(perAddress) /\ IsBuckets(total) /\ IsHistory(sent) /\ DOMAIN sent = {}
  BY <1>1, EmptyCounters, EmptyHistory
<1>3. RateShape
  <2>1. /\ now \in Nat /\ now <= MaxTime /\ lastCleanup \in Nat /\ lastCleanup <= now
        /\ whitelists \subseteq stored /\ stored \subseteq Pairs
    BY <1>1, TimeAssumption
  <2>2. tracked \in BOOLEAN /\ (~tracked => sent = << >>)
    BY <1>1
  <2>3. \A j \in DOMAIN sent : sent[j].at <= now
    BY <1>2
  <2> QED  BY <1>2, <2>1, <2>2, <2>3 DEF RateShape
<1>4. Counters(total, perAddress, sent, lastCleanup, now)
  BY <1>1, NothingCounted
<1>5. LimitHoldsForAnHourLessAMinute
  BY <1>2 DEF LimitHoldsForAnHourLessAMinute, Within
<1> QED  BY <1>3, <1>4, <1>5 DEF RateInv

LEMMA RateNextInv == RateInv /\ [RateNext]_rateVars => RateInv'
<1> SUFFICES ASSUME RateInv, [RateNext]_rateVars PROVE RateInv'
  OBVIOUS
<1>1. /\ RateShape /\ LimitHoldsForAnHourLessAMinute
      /\ Counters(total, perAddress, sent, lastCleanup, now)
  BY DEF RateInv
<1>2. CASE \E to \in Receivers : SendMessage(to)
  <2>1. PICK to \in Receivers : SendMessage(to)
    BY <1>2
  <2> DEFINE free == isWhitelisted(to)
             m == Truncate(now)
             T == Cleaned(total)
             C == CleanedAll(perAddress)
  <2>2. /\ now \in Nat /\ now <= MaxTime /\ IsHistory(sent) /\ free \in BOOLEAN
        /\ \A j \in DOMAIN sent : sent[j].at <= now
        /\ whitelists \subseteq stored /\ stored \subseteq Pairs
    BY <1>1 DEF RateShape, isWhitelisted
  <2>3. /\ tracked' = TRUE /\ total' = Bump(T, m) /\ lastCleanup' = NewCleanup
        /\ sent' = Append(sent, [at |-> now, to |-> to, free |-> free])
        /\ UNCHANGED <<now, whitelists, stored>>
    BY <2>1 DEF SendMessage, Track, NewCleanup
  <2>4. perAddress' = BumpedAt(C, to, m)
    BY <2>1 DEF SendMessage, Track, BumpedAt, CleanedAll
  <2>5. /\ IsBuckets(T) /\ PerReceiver(C) /\ NewCleanup \in Nat /\ NewCleanup <= now
        /\ Counters(T, C, sent, NewCleanup, now)
    BY CleanupKeepsCounters
  <2> HIDE DEF T, C, m, free
  <2>6. /\ IsBuckets(total') /\ PerReceiver(perAddress') /\ IsHistory(sent')
        /\ Counters(total', perAddress', sent', lastCleanup', now')
    BY <2>2, <2>3, <2>4, <2>5, MessageKeepsCounters DEF m
  <2>7. \A j \in DOMAIN sent' : sent'[j].at <= now
    <3>1. /\ Len(sent) \in Nat /\ DOMAIN sent = 1..Len(sent)
          /\ DOMAIN sent' = 1..(Len(sent) + 1) /\ sent'[Len(sent) + 1].at = now
          /\ \A j \in 1..Len(sent) : sent'[j] = sent[j]
      BY <2>2, <2>3 DEF IsHistory
    <3>2. \A j \in DOMAIN sent' : j \in 1..Len(sent) \/ j = Len(sent) + 1
      BY <3>1
    <3> QED  BY <2>2, <3>1, <3>2
  <2>8. RateShape'
    BY <2>2, <2>3, <2>5, <2>6, <2>7 DEF RateShape
  <2> QED  BY <2>1, <2>6, <2>8, SendKeepsLimit DEF RateInv
<1>3. CASE \E to \in Receivers : RefuseMessage(to)
  <2>1. PICK to \in Receivers : RefuseMessage(to)
    BY <1>3
  <2>2. /\ tracked' = TRUE /\ total' = Cleaned(total)
        /\ perAddress' = CleanedAll(perAddress) /\ lastCleanup' = NewCleanup
        /\ UNCHANGED <<now, whitelists, stored, sent>>
    BY <2>1 DEF RefuseMessage, Track, CleanedAll, NewCleanup
  <2>3. /\ RateShape' /\ Counters(total, perAddress, sent, lastCleanup, now)'
    BY <1>1, <2>2, CleanupKeepsCounters DEF RateShape
  <2>4. LimitHoldsForAnHourLessAMinute'
    BY <1>1, <2>2 DEF LimitHoldsForAnHourLessAMinute, Within, InWindow
  <2> QED  BY <2>3, <2>4 DEF RateInv
<1>4. CASE \E pair \in Pairs : WhitelistAddress(pair[1], pair[2])
  <2>1. PICK pair \in Pairs : WhitelistAddress(pair[1], pair[2])
    BY <1>4
  <2>2. /\ whitelists' = whitelists \cup {pair} /\ stored' = stored \cup {pair}
        /\ UNCHANGED <<now, rates, sent>>
    BY <2>1, PairsAssumption DEF WhitelistAddress
  <2>3. RateShape'
    BY <1>1, <2>2 DEF RateShape, rates
  <2>4. LimitHoldsForAnHourLessAMinute'
    BY <1>1, <2>2 DEF LimitHoldsForAnHourLessAMinute, Within, InWindow
  <2>5. Counters(total, perAddress, sent, lastCleanup, now)'
    BY <1>1, <2>2 DEF rates
  <2> QED  BY <2>3, <2>4, <2>5 DEF RateInv
<1>5. CASE Restart
  <2>1. /\ tracked' = FALSE /\ lastCleanup' = 0 /\ total' = Empty /\ sent' = << >>
        /\ perAddress' = [r \in Receivers |-> Empty] /\ whitelists' = {}
        /\ UNCHANGED <<now, stored>>
    BY <1>5 DEF Restart
  <2>2. /\ PerReceiver(perAddress') /\ IsBuckets(total')
        /\ IsHistory(sent') /\ DOMAIN sent' = {}
    BY <2>1, EmptyCounters, EmptyHistory
  <2>3. RateShape'
    <3>1. /\ now' \in Nat /\ now' <= MaxTime /\ lastCleanup' \in Nat /\ lastCleanup' <= now'
          /\ whitelists' \subseteq stored' /\ stored' \subseteq Pairs
      BY <1>1, <2>1 DEF RateShape
    <3>2. tracked' \in BOOLEAN /\ (~tracked' => sent' = << >>)
      BY <2>1
    <3>3. \A j \in DOMAIN sent' : sent'[j].at <= now'
      BY <2>2
    <3> QED  BY <2>2, <3>1, <3>2, <3>3 DEF RateShape
  <2>4. Counters(total, perAddress, sent, lastCleanup, now)'
    BY <1>1, <2>1, NothingCounted DEF RateShape
  <2>5. LimitHoldsForAnHourLessAMinute'
    BY <2>2 DEF LimitHoldsForAnHourLessAMinute, Within
  <2> QED  BY <2>3, <2>4, <2>5 DEF RateInv
<1>6. CASE Tick
  <2>1. /\ now < MaxTime /\ now' = now + 1
        /\ UNCHANGED <<rates, whitelists, stored, sent>>
    BY <1>6 DEF Tick
  <2>2. now \in Nat /\ \A j \in DOMAIN sent : sent[j].at \in Nat
    BY <1>1, HistoryFacts DEF RateShape
  <2>3. RateShape'
    BY <1>1, <2>1, <2>2, TimeAssumption DEF RateShape, rates
  <2>4. ASSUME NEW B, NEW J, CountIs(B, sent, J, now)
        PROVE  CountIs(B, sent, J, now + 1)
    <3>1. now \in Nat /\ Hour \in Nat
      BY <2>2, TimeAssumption
    <3> SUFFICES ASSUME NEW b \in Int, b >= (now + 1) - Hour
                 PROVE  Cardinality(SlotsFrom(B, b)) = Cardinality(Since(sent, J, b))
      BY DEF CountIs
    <3>2. b >= now - Hour
      BY <3>1
    <3> QED  BY <2>4, <3>2 DEF CountIs
  <2>5. Counters(total, perAddress, sent, lastCleanup, now)'
    BY <1>1, <2>1, <2>4 DEF Counters, rates
  <2>6. LimitHoldsForAnHourLessAMinute'
    BY <1>1, <2>1 DEF LimitHoldsForAnHourLessAMinute, Within, InWindow
  <2> QED  BY <2>3, <2>5, <2>6 DEF RateInv
<1>7. CASE UNCHANGED rateVars
  BY <1>1, <1>7 DEF rateVars, rates, RateInv, RateShape, LimitHoldsForAnHourLessAMinute,
                   Within, InWindow
<1> QED  BY <1>2, <1>3, <1>4, <1>5, <1>6, <1>7 DEF RateNext

\* RateLimit: the counters and the messages sent always correspond.
THEOREM RateInvariant == RateSpec => []RateInv
  BY RateInitInv, RateNextInv, PTL DEF RateSpec

\* The counters have their type, and the whitelists in memory are on the disk.
THEOREM RateTyping == RateSpec => []RateTypeOK
<1>1. RateInv => RateTypeOK
  <2> SUFFICES ASSUME RateInv PROVE RateTypeOK
    OBVIOUS
  <2>1. /\ now \in Nat /\ now <= MaxTime /\ lastCleanup \in Nat /\ lastCleanup <= now
        /\ IsBuckets(total) /\ Fresh(total, sent, lastCleanup)
        /\ perAddress = [r \in Receivers |-> perAddress[r]]
        /\ whitelists \subseteq stored /\ stored \subseteq Pairs
    BY DEF RateInv, RateShape, Counters, PerReceiver
  <2>2. \A m \in DOMAIN total : m % Minute = 0 /\ total[m] > 0
    BY <2>1 DEF Fresh, IsBuckets
  <2> QED  BY <2>1, <2>2, TimeAssumption DEF RateTypeOK
<1> QED  BY <1>1, RateInvariant, PTL

\* SendMessage's limit: of the messages that needed its leave, none is more than
\* the MaxTotal-th of the hour less a minute, nor the MaxPerAddr-th to its receiver.
THEOREM RateLimitHolds == RateSpec => []LimitHoldsForAnHourLessAMinute
<1>1. RateInv => LimitHoldsForAnHourLessAMinute
  BY DEF RateInv
<1> QED  BY <1>1, RateInvariant, PTL

\* A sender whose messages are all older than an hour and a minute is refused nothing.
THEOREM RateQuietServed == RateSpec => []QuietSenderIsServed
<1>1. RateInv => QuietSenderIsServed
  <2> SUFFICES ASSUME RateInv, NEW to \in Receivers,
                      \A i \in DOMAIN sent : now - sent[i].at > Hour + Minute
               PROVE  ~exceedsRateLimit(to)
    BY DEF QuietSenderIsServed
  <2> DEFINE T == Cleaned(total)  C == CleanedAll(perAddress)
  <2>1. /\ now \in Nat /\ \A i \in DOMAIN sent : sent[i].at \in Nat
    BY HistoryFacts DEF RateInv, RateShape
  <2>2. /\ IsBuckets(T) /\ PerReceiver(C) /\ Fresh(T, sent, NewCleanup) /\ Agrees(T, C)
        /\ NewCleanup \in Nat /\ NewCleanup > now - Minute
    BY CleanupKeepsCounters DEF Counters
  <2>3. C[to] = Cleaned(perAddress[to])
    BY DEF CleanedAll
  <2> HIDE DEF T, C
  <2>4. ASSUME NEW m \in DOMAIN T PROVE FALSE
    <3>1. m >= NewCleanup - Hour /\ \E j \in DOMAIN sent : m <= sent[j].at
      BY <2>2 DEF Fresh
    <3>2. m \in Nat
      BY <2>2 DEF IsBuckets
    <3> QED  BY <2>1, <2>2, <3>1, <3>2, TimeAssumption
  <2>5. Slots(T) = {}
    BY <2>4 DEF Slots
  <2>6. CountIn(T) = 0
    BY <2>5, FS_EmptySet DEF CountIn
  <2>7. Cardinality(AllSlots(C)) = 0 /\ IsFiniteSet(AllSlots(C))
    BY <2>2, <2>6, AgreesInAll DEF CountIn, Agrees
  <2>8. AllSlots(C) = {}
    BY <2>7, FS_EmptySet
  <2>9. Slots(C[to]) = {}
    <3> SUFFICES ASSUME NEW y \in Slots(C[to]) PROVE FALSE
      OBVIOUS
    <3>1. <<to, y>> \in AllSlots(C)
      BY DEF AllSlots
    <3> QED  BY <2>8, <3>1
  <2>10. CountIn(C[to]) = 0
    BY <2>9, FS_EmptySet DEF CountIn
  <2> QED  BY <2>3, <2>6, <2>10, LimitsAssumption DEF exceedsRateLimit, T
<1> QED  BY <1>1, RateInvariant, PTL

\* Both limits count the same messages.
THEOREM RateCountersAgree == RateSpec => []CountersAgree
<1>1. RateInv => CountersAgree
  BY AgreesInAll DEF RateInv, RateShape, Counters, CountersAgree, AllSlots, CountIn
<1> QED  BY <1>1, RateInvariant, PTL
==============================================================================
