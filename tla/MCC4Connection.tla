--------------------------- MODULE MCC4Connection ---------------------------
(* Instances of C4Connection for TLC.                                      *)
EXTENDS C4Connection

\* One routing command: the init sequence and the poll are the others.
MCUserCommands == { <<"OUT", 1, 1>> }

\* A plain command is answered with one marker line, STATUS with several:
\* two lines tell the last line of a reply from an earlier one.
MCLine == {"line"}
MCReplies ==
    [cmd \in Command |-> IF cmd = StatusCommand THEN { <<"line", "line">> }
                         ELSE { <<"line">> }]

\* Bounds.  With the drop, five failed attempts are one more than the backoff
\* table has entries.
MCLimit(sends, polls, drops, failures, edits) ==
    [k \in EventKind |-> CASE k = "send" -> sends [] k = "poll" -> polls
                           [] k = "drop" -> drops [] k = "failure" -> failures
                           [] k = "edit" -> edits]
LimitWhole == MCLimit(1, 1, 1, 5, 1)
=============================================================================
