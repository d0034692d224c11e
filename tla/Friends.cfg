\* Two players whose requests overlap, fail, and are cut off by a crash.
SPECIFICATION Spec
CONSTANTS
    Player = {p1,p2}
    Offline = Offline
    Followed = {p1}
    MaxSocialID = 3
    MaxRows = 2
    MaxOverlap = 2
    Disruption = {"logout", "fail", "crash"}
INVARIANT SocialIDsUnique
INVARIANT AskedOnce
INVARIANT MutualFriends
INVARIANT TwiceAtMost
INVARIANT PanelAgrees
CHECK_DEADLOCK FALSE
