-------------------------------- MODULE Group --------------------------------
(***************************************************************************)
(* Messaging groups: the GroupManager and the Group objects of             *)
(* messaging/group.go, and the groups core.Blockchain saves in the store   *)
(* and lets addresses join.  Members and Admins are slices; an element is  *)
(* removed by overwriting it with the last one and truncating.             *)
(***************************************************************************)
EXTENDS Naturals, Sequences, FiniteSets

CONSTANTS User,
          GroupId,
          MaxUserGroups,   \* 20: maxUserGroups
          NoGroup

GroupRecord == [creator : User, public : BOOLEAN, saved : BOOLEAN,
                members : Seq(User), admins : Seq(User)]

ASSUME NoGroupAssumption == NoGroup \notin GroupRecord
ASSUME LimitAssumption == MaxUserGroups \in Nat

VARIABLES
    groups,      \* id -> the group, in the manager or (saved) in the store
    userGroups,  \* user -> ids of the groups the manager counts for it
    joined       \* group_member_ keys: pairs <<id, user>>

vars == <<groups, userGroups, joined>>

Elements(s) == {s[i] : i \in DOMAIN s}
Distinct(s) == \A i, j \in DOMAIN s : s[i] = s[j] => i = j

\* Mutants: the slice is not truncated; the last element is lost instead.
SwapRemoveKeepingLength(s, x) ==
    LET i == CHOOSE i \in DOMAIN s : s[i] = x
    IN  [s EXCEPT ![i] = s[Len(s)]]
SwapRemoveWithoutSwap(s, x) == [j \in 1..(Len(s) - 1) |-> s[j]]

\* The first occurrence is overwritten by the last element.
SwapRemove(s, x) ==
    LET i == CHOOSE i \in DOMAIN s : s[i] = x
    IN  [j \in 1..(Len(s) - 1) |-> IF j = i THEN s[Len(s)] ELSE s[j]]

Exists(id) == groups[id] # NoGroup
IsMember(id, u) == u \in Elements(groups[id].members)
IsAdmin(id, u) == u \in Elements(groups[id].admins)

\* The objects Group's methods change are the manager's: a saved group is
\* read from the store for each call and never saved again.
InManager(id) == Exists(id) /\ ~groups[id].saved

NewGroup(u, public, saved) ==
    [creator |-> u, public |-> public, saved |-> saved,
     members |-> <<u>>, admins |-> <<u>>]

Init ==
    /\ groups = [id \in GroupId |-> NoGroup]
    /\ userGroups = [u \in User |-> << >>]
    /\ joined = {}

(***************************************************************************)
(* GroupManager and core.Blockchain                                        *)
(***************************************************************************)
\* Mutant: the limit is off by one.
CreateGroupOneTooMany(u, id, public) ==
    /\ ~Exists(id)
    /\ Len(userGroups[u]) <= MaxUserGroups
    /\ groups' = [groups EXCEPT ![id] = NewGroup(u, public, FALSE)]
    /\ userGroups' = [userGroups EXCEPT ![u] = Append(@, id)]
    /\ UNCHANGED joined

CreateGroup(u, id, public) ==
    /\ ~Exists(id)
    /\ Len(userGroups[u]) < MaxUserGroups
    /\ groups' = [groups EXCEPT ![id] = NewGroup(u, public, FALSE)]
    /\ userGroups' = [userGroups EXCEPT ![u] = Append(@, id)]
    /\ UNCHANGED joined

\* core.Blockchain.CreateGroup: saved, without a limit and without a manager.
SaveGroup(u, id, public) ==
    /\ ~Exists(id)
    /\ groups' = [groups EXCEPT ![id] = NewGroup(u, public, TRUE)]
    /\ UNCHANGED <<userGroups, joined>>

\* core.Blockchain.JoinGroup of a saved group: a key of its own is written.
JoinGroup(u, id) ==
    /\ Exists(id) /\ groups[id].saved
    /\ groups[id].public \/ groups[id].creator = u
    /\ joined' = joined \cup {<<id, u>>}
    /\ UNCHANGED <<groups, userGroups>>

(***************************************************************************)
(* Group                                                                   *)
(***************************************************************************)
\* Mutant: members are added again.
AddMemberTwice(id, u) ==
    /\ InManager(id)
    /\ groups' = [groups EXCEPT ![id].members = Append(@, u)]
    /\ UNCHANGED <<userGroups, joined>>

AddMember(id, u) ==
    /\ InManager(id) /\ ~IsMember(id, u)
    /\ groups' = [groups EXCEPT ![id].members = Append(@, u)]
    /\ UNCHANGED <<userGroups, joined>>

\* Mutant: an admin who leaves stays an admin.
RemoveMemberOnly(id, u, by) ==
    /\ InManager(id)
    /\ IsAdmin(id, by) \/ by = u
    /\ u # groups[id].creator
    /\ IsMember(id, u)
    /\ groups' = [groups EXCEPT ![id].members = SwapRemove(@, u)]
    /\ UNCHANGED <<userGroups, joined>>

RemoveMember(id, u, by) ==
    /\ InManager(id)
    /\ IsAdmin(id, by) \/ by = u
    /\ u # groups[id].creator
    /\ IsMember(id, u)
    /\ groups' = [groups EXCEPT
                    ![id].members = SwapRemove(@, u),
                    ![id].admins = IF IsAdmin(id, u) THEN SwapRemove(@, u) ELSE @]
    /\ UNCHANGED <<userGroups, joined>>

AddAdmin(id, u, by) ==
    /\ InManager(id)
    /\ IsAdmin(id, by) /\ ~IsAdmin(id, u) /\ IsMember(id, u)
    /\ groups' = [groups EXCEPT ![id].admins = Append(@, u)]
    /\ UNCHANGED <<userGroups, joined>>

\* Mutant: the creator is not spared.
RemoveAnyAdmin(id, u, by) ==
    /\ InManager(id)
    /\ IsAdmin(id, by) /\ IsAdmin(id, u)
    /\ groups' = [groups EXCEPT ![id].admins = SwapRemove(@, u)]
    /\ UNCHANGED <<userGroups, joined>>

RemoveAdmin(id, u, by) ==
    /\ InManager(id)
    /\ IsAdmin(id, by) /\ IsAdmin(id, u)
    /\ u # groups[id].creator
    /\ groups' = [groups EXCEPT ![id].admins = SwapRemove(@, u)]
    /\ UNCHANGED <<userGroups, joined>>

Next ==
    \E id \in GroupId, u \in User :
        \/ \E public \in BOOLEAN : CreateGroup(u, id, public) \/ SaveGroup(u, id, public)
        \/ JoinGroup(u, id)
        \/ AddMember(id, u)
        \/ \E by \in User : RemoveMember(id, u, by) \/ AddAdmin(id, u, by)
                            \/ RemoveAdmin(id, u, by)

Spec == Init /\ [][Next]_vars

(***************************************************************************)
(* Properties                                                              *)
(***************************************************************************)
\* Groups are groups, and nobody created more of them in the manager than the
\* limit of messaging.CreateGroup.
TypeOK ==
    /\ groups \in [GroupId -> GroupRecord \cup {NoGroup}]
    /\ userGroups \in [User -> Seq(GroupId)]
    /\ \A u \in User : Len(userGroups[u]) <= MaxUserGroups
    /\ joined \subseteq GroupId \X User

\* However members and admins come and go, by themselves or by others, the
\* admins of a group are members of it (AddAdmin, and the second removal in
\* RemoveMember).
AdminsAreMembers ==
    \A id \in GroupId : Exists(id) =>
        Elements(groups[id].admins) \subseteq Elements(groups[id].members)

\* The creator of a group stays an admin: a group can always be administered.
CreatorStaysAdmin == \A id \in GroupId : Exists(id) => IsAdmin(id, groups[id].creator)

\* Nobody is twice in a group: what lets RemoveMember stop at the first find.
NobodyTwice ==
    \A id \in GroupId : Exists(id) =>
        Distinct(groups[id].members) /\ Distinct(groups[id].admins)

\* A removal takes away the one it names and nobody else, whatever the order
\* of the slice (the swap with the last element).
RemovalsAreExact ==
    [][\A id \in GroupId, u, by \in User :
        RemoveMember(id, u, by) =>
            Elements(groups'[id].members) = Elements(groups[id].members) \ {u}]_vars
=============================================================================
