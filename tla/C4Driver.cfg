SPECIFICATION DriverFairSpec
CONSTANTS
    UserCommands <- MCUserCommands
    Line <- ReplyLine
    Replies <- MCReplies
    Hosts = {"h1"}
    Ports = {8000}
    Limit <- LimitRoutes
    Outputs = {1, 2}
    Inputs = {1}
    Lockout = 1
    WholeReports = TRUE
    FullReports = FALSE
    MaxOutstanding = 2
    MaxOutOfBand = 1
CHECK_DEADLOCK FALSE
INVARIANTS DriverTypeOK RoomsFollowTheTracker OnePollTimer
PROPERTIES LockoutHolds NotificationsWereTrue SettlesOnMatrix ReportsShowInRooms
