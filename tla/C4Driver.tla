------------------------------ MODULE C4Driver ------------------------------
(***************************************************************************)
(* The whole Control4 driver: the ConnectionStateMachine (C4Connection),   *)
(* the OptimisticStateTracker, the STATUS parser, the ProxyHandler         *)
(* (proxy_handler.lua), the PollingCoordinator (polling_coordinator.lua)   *)
(* and the callbacks of driver.lua that join them.  Every callback is one  *)
(* action, made of the actions of the parts it calls.  Outside stand the   *)
(* Rooms bound to the driver's output bindings, and the matrix, whose      *)
(* routing other controllers change too.                                   *)
(*                                                                         *)
(* Chunks here are of whole lines.  What the parser makes of a text that   *)
(* ends inside a line is the subject of StatusText.                        *)
(*                                                                         *)
(* Some operators are preceded by a wrong variant of themselves, which no  *)
(* action uses: put in its place, it makes a property fail (README.md).    *)
(***************************************************************************)
EXTENDS C4Connection, OptimisticTracker, StatusParser

CONSTANTS
    WholeReports,   \* no chunk ends inside the part of a reply that matters
    FullReports,    \* a STATUS reply has its Output Settings section
    MaxOutstanding, \* bound: requests still open when the poll timer may fire
    MaxOutOfBand    \* bound: routing changes made by other controllers

ASSUME DriverAssumption ==
    /\ WholeReports \in BOOLEAN /\ FullReports \in BOOLEAN
    /\ MaxOutstanding \in Nat /\ MaxOutOfBand \in Nat
    /\ \E n \in 1 .. 8 : Outputs = 1 .. n
    /\ Inputs \subseteq 1 .. 16

OUTPUT_BINDING_BASE == 2001
INPUT_BINDING_BASE == 1001
UNBIND_SENTINEL == 0

OutputIndex(binding) == binding - OUTPUT_BINDING_BASE + 1
InputIndex(binding) ==
    IF binding = UNBIND_SENTINEL THEN 0 ELSE binding - INPUT_BINDING_BASE + 1
OutputBindings == { b \in 2001 .. 2008 : OutputIndex(b) \in Outputs }
InputBindings ==
    { b \in {UNBIND_SENTINEL} \cup 1001 .. 1016 : InputIndex(b) \in Inputs \cup {0} }

\* notify_routing_change: the bindings named to Composer.
InputBindingFromZero(i) == IF i = 0 THEN UNBIND_SENTINEL ELSE INPUT_BINDING_BASE + i
InputBinding(i) == IF i = 0 THEN UNBIND_SENTINEL ELSE INPUT_BINDING_BASE + i - 1

FormatRoute(o, i) == <<"OUT", o, i>>
FormatOutputRemove(o, i) == <<"REM", o, i>>

\* The lines of the replies.
RouteLine(o, i) == <<"route", o, "L", i>>
ReplyLine ==
    { <<"text">>, <<"header">>, <<"data">>, <<"matrix">> }
    \cup { RouteLine(o, i) : o \in Outputs, i \in Inputs \cup {0} }
    \cup { <<"outset", o>> : o \in Outputs }
ASSUME LineAssumption == ReplyLine \subseteq Line

VARIABLES
    polling,        \* PollingCoordinator._running
    pollTimer,      \* PollingCoordinator._timer_token ~= nil
    pollTimers,     \* the timers Composer runs for the coordinator
    statusBuffer,   \* status_buffer, as far as it can still affect a parse
    rooms,          \* the source Composer shows for each output binding
    matrix,         \* the routing of the matrix
    matrixHad,      \* history: every <<output, input>> it ever had
    outOfBand       \* how many changes other controllers made

poller == <<polling, pollTimer, pollTimers>>
shell == <<poller, statusBuffer, rooms>>
truth == <<matrix, matrixHad, outOfBand>>
driverVars == <<connVars, trackerVars, shell, truth>>

DriverTypeOK ==
    /\ TrackerTypeOK
    /\ polling \in BOOLEAN /\ pollTimer \in BOOLEAN /\ pollTimers \in Nat
    /\ statusBuffer \in Seq(Line)
    /\ rooms \in [OutputBindings -> InputBindings]
    /\ matrix \in Routing
    /\ matrixHad \subseteq Outputs \X (Inputs \cup {0})
    /\ outOfBand \in 0 .. MaxOutOfBand

DriverInit ==
    /\ ConnInit
    /\ TrackerInit
    /\ polling = FALSE /\ pollTimer = FALSE /\ pollTimers = 0
    /\ statusBuffer = <<>>
    /\ rooms = [b \in OutputBindings |-> UNBIND_SENTINEL]
    /\ matrix \in Routing
    /\ matrixHad = { <<o, matrix[o]>> : o \in Outputs }
    /\ outOfBand = 0

-----------------------------------------------------------------------------
(* _arm: cancel the timer the token stands for, and start one.             *)
ArmAgain(token, timers) == pollTimer' = TRUE /\ pollTimers' = timers + 1
Arm(token, timers) ==
    /\ pollTimer' = TRUE
    /\ pollTimers' = IF token THEN timers ELSE timers + 1

StartPolling ==
    \/ ~polling /\ polling' = TRUE /\ Arm(pollTimer, pollTimers)
    \/ polling /\ UNCHANGED poller

StopPolling ==
    /\ polling' = FALSE
    /\ pollTimer' = FALSE
    /\ pollTimers' = IF pollTimer THEN pollTimers - 1 ELSE pollTimers

(* OnDriverLateInit: cs:start() and pc:start().  OnDriverDestroyed: both   *)
(* stop.                                                                   *)
DriverLateInit ==
    /\ LateInit
    /\ StartPolling
    /\ UNCHANGED <<events, trackerVars, statusBuffer, rooms, truth>>

DriverUnloads ==
    /\ DriverDestroyed
    /\ StopPolling
    /\ statusBuffer' = <<>>
    /\ UNCHANGED <<events, trackerVars, rooms, truth>>

(* The callback of the poll timer: the token is dropped, and _fire sends   *)
(* STATUS and arms again, whatever is still unanswered.  The bound counts  *)
(* the commands waiting or unanswered and the replies not yet begun.       *)
Outstanding ==
    Len(queue) + Len(inbox) + Cardinality(OfKind(stream, {"header"}))

PollTimerFires ==
    /\ pollTimers > 0
    /\ Outstanding < MaxOutstanding
    /\ IF polling
       THEN Send(StatusCommand) /\ Arm(FALSE, pollTimers - 1)
       ELSE UNCHANGED wireVars /\ pollTimer' = FALSE /\ pollTimers' = pollTimers - 1
    /\ UNCHANGED <<events, polling, trackerVars, statusBuffer, rooms, truth>>

(* ExecuteCommand("Refresh Matrix State"), refresh_now: the timer, if the  *)
(* coordinator runs, is armed afresh.                                      *)
RefreshNow ==
    /\ Counted("poll")
    /\ RefreshMatrixState
    /\ IF polling THEN Arm(pollTimer, pollTimers) ELSE UNCHANGED <<pollTimer, pollTimers>>
    /\ UNCHANGED <<polling, trackerVars, statusBuffer, rooms, truth>>

(* ReceivedFromProxy, SELECT_AUDIO_DEVICE for a valid pair of bindings.    *)
(* Any other call changes nothing.                                         *)
Route(o, i) == Send(FormatRoute(o, i)) /\ NoteCommand(o, i)

UnrouteUnnoted(o) ==
    \/ /\ routing[o] # 0
       /\ Send(FormatOutputRemove(o, routing[o]))
       /\ UNCHANGED trackerVars
    \/ /\ routing[o] = 0
       /\ ~destroyed
       /\ UNCHANGED <<wireVars, trackerVars>>
Unroute(o) ==
    \/ /\ routing[o] # 0
       /\ Send(FormatOutputRemove(o, routing[o]))
       /\ NoteCommand(o, 0)
    \/ /\ routing[o] = 0
       /\ ~destroyed
       /\ UNCHANGED <<wireVars, trackerVars>>

SelectAudioDevice(idBinding, bindId) ==
    /\ Counted("send")
    /\ rooms' = [rooms EXCEPT ![idBinding] = bindId]
    /\ IF bindId = UNBIND_SENTINEL
       THEN Unroute(OutputIndex(idBinding))
       ELSE Route(OutputIndex(idBinding), InputIndex(bindId))
    /\ UNCHANGED <<poller, statusBuffer, truth>>

(* PollingCoordinator:on_status, with notify_routing_change per change.    *)
OnStatus(rows) ==
    \E polled \in {CollapseRouting(rows, Outputs)} :
       /\ Reconcile(polled)
       /\ rooms' = [b \in OutputBindings |->
                       IF OutputIndex(b) \in Changes(polled)
                       THEN InputBinding(polled[OutputIndex(b)]) ELSE rooms[b]]

(* What of status_buffer can still matter: of a text with no header, none  *)
(* (a matrix title only ever follows one); the header with the line that   *)
(* follows it, which decides whether a parse ever succeeds; and, if it     *)
(* does, whether rows of the matrix section may follow.                    *)
Unreadable(text) == After(text, "header") # <<>> /\ ~LuaReadable(text)
Kept(text) ==
    IF OfKind(text, {"header"}) = {} THEN <<>>
    ELSE IF After(text, "header") = <<>> THEN << <<"header">> >>
    ELSE IF Unreadable(text) THEN << <<"header">>, <<"text">> >>
    ELSE << <<"header">>, After(text, "header")[1] >>
         \o IF OfKind(text, {"matrix"}) = {} THEN <<>> ELSE << <<"matrix">> >>

\* Where chunks may end: anywhere or, with WholeReports, not before a line
\* that continues the header of a reply.
ChunkMayEnd(n) ==
    WholeReports /\ n < Len(stream)
        => Kind(stream[n + 1]) \notin {"data", "matrix", "route"}

(* ReceivedFromNetwork, for a chunk that completes n lines.                *)
ReceivedFromNetwork(n) ==
    /\ ChunkMayEnd(n)
    /\ OnReceived(n)
    /\ \E text \in {statusBuffer \o SubSeq(stream, 1, n)} :
       \E rows \in {LuaParse(text).routing} :
          \/ /\ rows # <<>>
             /\ OnStatus(rows)
             /\ statusBuffer' = <<>>
          \/ /\ rows = <<>>
             /\ statusBuffer' = Kept(text)
             /\ UNCHANGED <<trackerVars, rooms>>
    /\ UNCHANGED <<events, poller, truth>>

(* The reconnect timer, OnConnectionStatusChanged and property edits       *)
(* concern the connection alone; so do the events of the link.             *)
ConnectionAlone ==
    /\ \/ (StatusOnline \/ StatusOffline \/ ReconnectTimerFires \/ NetOpens)
             /\ UNCHANGED events
       \/ Counted("failure") /\ (NetFails \/ NetReportsOfflineAgain)
       \/ Counted("drop") /\ NetDrops
    /\ UNCHANGED <<trackerVars, shell, truth>>

ClockTicks == Tick /\ UNCHANGED <<connVars, shell, truth>>

-----------------------------------------------------------------------------
(* The matrix.  REM takes an input off an output only if it is on it.      *)
MatrixBecomes(r) ==
    /\ matrix' = r
    /\ matrixHad' = matrixHad \cup { <<o, r[o]>> : o \in Outputs }

Obeyed(cmd) ==
    IF cmd[1] = "OUT" THEN [matrix EXCEPT ![cmd[2]] = cmd[3]]
    ELSE IF cmd[1] = "REM" /\ matrix[cmd[2]] = cmd[3]
         THEN [matrix EXCEPT ![cmd[2]] = 0]
    ELSE matrix

\* A STATUS reply lists the outputs in order; R rows are ignored by the driver.
Report(r) ==
    << <<"header">>, <<"data">>, <<"matrix">> >>
    \o [o \in Outputs |-> RouteLine(o, r[o])]
    \o IF FullReports THEN [o \in Outputs |-> <<"outset", o>>] ELSE <<>>

\* What the connection is told of the driver that uses it: the commands it is
\* given and the replies they may get.
ASSUME UseAssumption ==
    /\ \A o \in Outputs, i \in Inputs :
          {FormatRoute(o, i), FormatOutputRemove(o, i)} \subseteq UserCommands
    /\ \A r \in Routing : Report(r) \in Replies[StatusCommand]
    /\ \A cmd \in Command \ {StatusCommand} : << <<"text">> >> \in Replies[cmd]

MatrixAnswers ==
    /\ inbox # <<>>
    /\ LET cmd == Head(inbox)
       IN /\ MatrixBecomes(Obeyed(cmd))
          /\ DeviceAnswers(IF cmd = StatusCommand THEN Report(matrix)
                           ELSE << <<"text">> >>)
    /\ UNCHANGED <<events, trackerVars, shell, outOfBand>>

OutOfBandChange(o, i) ==
    /\ outOfBand < MaxOutOfBand
    /\ outOfBand' = outOfBand + 1
    /\ MatrixBecomes([matrix EXCEPT ![o] = i])
    /\ UNCHANGED <<connVars, trackerVars, shell>>

DriverNext ==
    \/ DriverLateInit
    \/ DriverUnloads
    \/ PollTimerFires
    \/ RefreshNow
    \/ \E b \in OutputBindings, c \in InputBindings : SelectAudioDevice(b, c)
    \/ \E n \in 1 .. Len(stream) : ReceivedFromNetwork(n)
    \/ ConnectionAlone
    \/ ClockTicks
    \/ MatrixAnswers
    \/ \E o \in Outputs, i \in Inputs \cup {0} : OutOfBandChange(o, i)

DriverSpec == DriverInit /\ [][DriverNext]_driverVars

(* As for the connection: Composer delivers what it owes and runs the      *)
(* timers, time passes, and the matrix answers.                            *)
DriverFairness ==
    /\ WF_driverVars(DriverLateInit)
    /\ WF_driverVars(PollTimerFires)
    /\ WF_driverVars(\E n \in 1 .. Len(stream) : ReceivedFromNetwork(n))
    /\ WF_driverVars((StatusOnline \/ StatusOffline)
                     /\ UNCHANGED <<events, trackerVars, shell, truth>>)
    /\ WF_driverVars(ReconnectTimerFires
                     /\ UNCHANGED <<events, trackerVars, shell, truth>>)
    /\ WF_driverVars(NetOpens /\ UNCHANGED <<events, trackerVars, shell, truth>>)
    /\ WF_driverVars(ClockTicks)
    /\ WF_driverVars(MatrixAnswers)

DriverFairSpec == DriverSpec /\ DriverFairness

-----------------------------------------------------------------------------
(* Composer shows what the tracker believes, in Composer's own binding     *)
(* numbers, whichever way the belief changed: a Room's request, a skipped  *)
(* deselection or a poll (proxy_handler.lua:126-172, driver.lua:126-141).  *)
RoomsFollowTheTracker ==
    \A b \in OutputBindings : rooms[b] = InputBinding(routing[OutputIndex(b)])

(* The poll loop runs from late init to unloading, on one timer: whatever  *)
(* refreshes, polls and lost links come in between, no timer is started    *)
(* beside one that still runs, which would double the rate of the polls    *)
(* for good, and none is left behind (polling_coordinator.lua:89-136,      *)
(* driver.lua:177-202).                                                    *)
OnePollTimer == pollTimers = IF created /\ ~destroyed THEN 1 ELSE 0

(* A poll step: data came in.                                              *)
PollStep == stream' # stream /\ net' = net /\ Len(stream') < Len(stream)

(* During the lockout nothing a poll says changes an output                *)
(* (optimistic_tracker.lua:58-62, 86-114).                                 *)
LockoutHolds ==
    [][PollStep => \A o \in Outputs : IsLocked(o) => routing'[o] = routing[o]]_driverVars

(* Rooms are told only what was true at some time: a poll never moves an   *)
(* output to a source the matrix never had there (driver.lua:230-247).     *)
NotificationsWereTrue ==
    [][PollStep => \A o \in Outputs :
          routing'[o] # routing[o] => <<o, routing'[o]>> \in matrixHad]_driverVars

(* A poll that ends with the report of the routing the matrix has shows it *)
(* in every Room whose output is out of the lockout, an unrouted one       *)
(* included, whatever came before it (polling_coordinator.lua:139-176,     *)
(* status_parser.lua:117-150, driver.lua:126-141).                         *)
EndsWith(s, tail) ==
    Len(tail) <= Len(s) /\ SubSeq(s, Len(s) - Len(tail) + 1, Len(s)) = tail
Polled == SubSeq(stream, 1, Len(stream) - Len(stream'))
ReportsShowInRooms ==
    [][PollStep /\ ~destroyed' /\ EndsWith(Polled, Report(matrix)) =>
          \A b \in OutputBindings : ~IsLocked(OutputIndex(b)) =>
              rooms'[b] = InputBinding(matrix[OutputIndex(b)])]_driverVars

(* Once users and other controllers are done, Composer shows the matrix's  *)
(* routing for good.  docs/adr/0004-c4-polling-with-optimistic-lockout.md: *)
(* "out-of-band routing changes must be reflected in Control4's view".     *)
Settled ==
    \A b \in OutputBindings : rooms[b] = InputBinding(matrix[OutputIndex(b)])
SettlesOnMatrix == <>[](destroyed \/ Settled)

(* driver.lua:230-235: the parser tolerates junk in the buffer, and it is  *)
(* cleared "once a valid (non-empty routing) response lands".              *)
BufferRecovers == statusBuffer # <<>> ~> statusBuffer = <<>> \/ destroyed
=============================================================================
