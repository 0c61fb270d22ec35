SPECIFICATION SessionFairSpec
CONSTANTS
    Poller = poll
    Users = {u1, u2}
    Nobody = nobody
    SplitBanners = FALSE
    LateReplies = FALSE
    Limit <- LimitAll
CHECK_DEADLOCK FALSE
INVARIANTS SessionInv OneReader RepliesAreClean
PROPERTIES EveryCallReturns KeepsItsPromise
