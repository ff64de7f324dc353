------------------------------- MODULE MCGroup -------------------------------
\* Instances of Group for TLC: users are interchangeable, and so are ids.
EXTENDS Group, TLC

UsersAndIds == Permutations(User) \cup Permutations(GroupId)
=============================================================================
