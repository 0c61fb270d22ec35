----------------------------- MODULE MCC4Driver -----------------------------
(* Instances of C4Driver for TLC.                                          *)
EXTENDS C4Driver

MCUserCommands ==
    { FormatRoute(o, i) : o \in Outputs, i \in Inputs }
    \cup { FormatOutputRemove(o, i) : o \in Outputs, i \in Inputs }

MCReplies ==
    [cmd \in Command |-> IF cmd = StatusCommand THEN { Report(r) : r \in Routing }
                         ELSE { << <<"text">> >> }]

MCLimit(selects, refreshes, drops, failures) ==
    [k \in EventKind |-> CASE k = "send" -> selects [] k = "poll" -> refreshes
                           [] k = "drop" -> drops [] k = "failure" -> failures
                           [] k = "edit" -> 0]
LimitRoutes == MCLimit(1, 1, 1, 1)
LimitDrop == MCLimit(0, 0, 1, 0)
=============================================================================
