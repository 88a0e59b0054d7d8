SPECIFICATION FairSpec
CONSTANTS
    Msg = {beat, result, inventory}
    Periodic = {beat}
    Loop = {l1, l2, l3}
    NoLoop = NoLoop
    NoMsg = NoMsg
INVARIANTS
    EachInOnePlace
    NoMissedWakeup
PROPERTIES
    OvertakenOnlyAfterFailure
    EveryMessageIsSent
    LostConnectionIsGivenUp
