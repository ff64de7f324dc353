SPECIFICATION Spec
CONSTANTS
    User = {u1, u2, u3}
    GroupId = {g1, g2}
    MaxUserGroups = 1
    NoGroup = NoGroup
SYMMETRY UsersAndIds
INVARIANTS TypeOK AdminsAreMembers CreatorStaysAdmin NobodyTwice
PROPERTY RemovalsAreExact
CHECK_DEADLOCK FALSE
