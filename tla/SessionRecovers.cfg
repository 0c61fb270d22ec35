SPECIFICATION SessionFairSpec
CONSTANTS
    Poller = poll
    Users = {}
    Nobody = nobody
    SplitBanners = FALSE
    LateReplies = FALSE
    Limit <- LimitDrop
CHECK_DEADLOCK FALSE
PROPERTY PollsSucceedAgain
