SPECIFICATION DriverSpec
CONSTANTS
    UserCommands <- MCUserCommands
    Line <- ReplyLine
    Replies <- MCReplies
    Hosts = {"h1"}
    Ports = {8000}
    Limit <- LimitDrop
    Outputs = {1, 2}
    Inputs = {1}
    Lockout = 1
    WholeReports = FALSE
    FullReports = FALSE
    MaxOutstanding = 1
    MaxOutOfBand = 0
CHECK_DEADLOCK FALSE
PROPERTIES NotificationsWereTrue
