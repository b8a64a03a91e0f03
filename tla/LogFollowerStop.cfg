CONSTANTS
    n1 = n1
    Names <- OneName
    MaxFollowers = 1
    MaxChanges = 4
SPECIFICATION FollowersSpec
PROPERTY StopEndsEveryFollower
CHECK_DEADLOCK FALSE
