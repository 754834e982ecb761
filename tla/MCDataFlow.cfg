CONSTANTS
    Width = 2
    LowerCase <- MCLowerCase
    Offsets <- MCOffsets
    Values <- MCValues
    Following <- MCFollowing
SPECIFICATION Spec
INVARIANT RegistersMeanTheMachine
INVARIANT ReturnsTheRegister
INVARIANT ConditionsAgree
PROPERTY NodesKeepTheirMeaning
CHECK_DEADLOCK FALSE
