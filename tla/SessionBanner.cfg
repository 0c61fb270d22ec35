SPECIFICATION SessionSpec
CONSTANTS
    Poller = poll
    Users = {}
    Nobody = nobody
    SplitBanners = TRUE
    LateReplies = FALSE
    Limit <- LimitBanner
CHECK_DEADLOCK FALSE
INVARIANT RepliesAreClean
