SPECIFICATION ConnFairSpec
CONSTANTS
    UserCommands <- MCUserCommands
    Line <- MCLine
    Replies <- MCReplies
    Hosts = {"h1", "h2"}
    Ports = {8000, 8001}
    Limit <- LimitWhole
CHECK_DEADLOCK FALSE
INVARIANTS ConnTypeOK NeverStranded TimerOnlyWhileOffline NoIdleQueue SlotWillBeReleased
PROPERTIES IsFifo BackoffFollowsTheLink GetsBackOnline QueueDrains
