---------------------------- MODULE C4Connection ----------------------------
(***************************************************************************)
(* The ConnectionStateMachine (CSM) of the Control4 driver:                *)
(* control4/dmp168/src/connection.lua, driven by the lifecycle hooks of    *)
(* driver.lua.  The driver runs on Composer's single Lua thread, so every  *)
(* callback is one atomic action.  Around it stand the parts the driver    *)
(* does not control: the TCP link Composer owns (net, notices) and the     *)
(* matrix at the far end (inbox, stream).                                  *)
(*                                                                         *)
(* _buffer is not modelled: after on_received it never holds a newline, so *)
(* only the number of complete lines a chunk carries can change anything.  *)
(*                                                                         *)
(* Some operators are preceded by a wrong variant of themselves, which no  *)
(* action uses: put in its place, it makes a property fail (README.md).    *)
(***************************************************************************)
EXTENDS Integers, Sequences, SequencesExt

CONSTANTS
    UserCommands,   \* wires callers pass to send(): the OUT/FR/REM commands
    Line,           \* a complete line of a reply
    Replies,        \* for each command, the replies the matrix may give
    Hosts, Ports,   \* values of the Host and Port driver Properties
    Limit           \* bound: how often each kind of event may happen

\* M.INIT_SEQUENCE and M.BACKOFF_SCHEDULE_MS
StatusCommand == <<"STATUS">>
INIT_SEQUENCE ==
    << <<"PON">>, <<"STANDBY 0">>, <<"AUTO STB 0">>, StatusCommand >>
BACKOFF_SCHEDULE_MS == <<1000, 2000, 5000, 15000, 30000>>

Command == UserCommands \cup ToSet(INIT_SEQUENCE)

ASSUME CommandsAssumption == UserCommands \cap ToSet(INIT_SEQUENCE) = {}
ASSUME RepliesAssumption ==
    \A cmd \in Command : \A r \in Replies[cmd] : r \in Seq(Line) /\ r # <<>>
ASSUME PropertiesAssumption == Hosts # {} /\ Ports # {}

\* Events nothing in the driver limits: user commands and STATUS requests
\* accepted, live links lost, OFFLINE reports of a link that is not open, and
\* edits of the Host and Port properties.
EventKind == {"send", "poll", "drop", "failure", "edit"}
ASSUME LimitAssumption == Limit \in [EventKind -> Nat]

VARIABLES
    state,          \* _state
    queue,          \* _queue
    inflight,       \* _inflight
    created,        \* _created
    reconnectIdx,   \* _reconnect_idx
    reconnectTimer, \* _reconnect_token ~= nil: the one-shot timer is armed
    host, port,     \* _host, _port
    destroyed,      \* OnDriverDestroyed has run: cs = nil
    boundHost,      \* the host given to CreateNetworkConnection
    net,            \* the link Composer owns
    connPort,       \* the port of the last NetConnect
    notices,        \* status changes Composer has yet to call back about
    inbox,          \* commands the matrix has not answered yet
    stream,         \* reply lines not yet delivered to ReceivedFromNetwork
    misdirected,    \* the last write named a port with no connection
    lastWrite,      \* the last command given to SendToNetwork, <<>> if none
    events          \* how often each kind of bounded event has happened

csm == <<state, queue, inflight, created, reconnectIdx, reconnectTimer,
         host, port, destroyed>>
link == <<boundHost, net, connPort, notices>>
device == <<inbox, stream, misdirected>>
wireVars == <<csm, link, device, lastWrite>>
connVars == <<wireVars, events>>

\* Of the connection alone, however often it is used.
WireTypeOK ==
    /\ state \in {"OFFLINE", "CONNECTING", "ONLINE"}
    /\ queue \in Seq(Command)
    /\ inflight \in BOOLEAN
    /\ created \in BOOLEAN
    /\ reconnectIdx \in 0 .. Len(BACKOFF_SCHEDULE_MS)
    /\ reconnectTimer \in BOOLEAN
    /\ host \in Hosts /\ port \in Ports
    /\ destroyed \in BOOLEAN
    /\ boundHost \in Hosts /\ connPort \in Ports
    /\ net \in {"closed", "opening", "open"}
    /\ notices \in Seq({"ONLINE", "OFFLINE"})
    /\ inbox \in Seq(Command)
    /\ stream \in Seq(Line)
    /\ misdirected \in BOOLEAN
    /\ lastWrite \in Command \cup {<<>>}

ConnTypeOK == WireTypeOK /\ events \in [EventKind -> Nat]

-----------------------------------------------------------------------------
(* M.new: OnDriverInit builds the machine from the Properties.             *)
WireInit ==
    /\ state = "OFFLINE"
    /\ queue = <<>>
    /\ inflight = FALSE
    /\ created = FALSE
    /\ reconnectIdx = 0
    /\ reconnectTimer = FALSE
    /\ host \in Hosts /\ port \in Ports
    /\ destroyed = FALSE
    /\ boundHost = host /\ connPort = port
    /\ net = "closed"
    /\ notices = <<>>
    /\ inbox = <<>> /\ stream = <<>> /\ misdirected = FALSE
    /\ lastWrite = <<>>

ConnInit == WireInit /\ events = [k \in EventKind |-> 0]

(* C4:SendToNetwork: the bytes reach the matrix only over an open link on  *)
(* the port they are addressed to.                                         *)
SendToNetwork(cmd) ==
    /\ inbox' = IF net = "open" /\ port = connPort
                THEN Append(inbox, cmd) ELSE inbox
    /\ misdirected' = (port # connPort)
    /\ lastWrite' = cmd

\* _cancel_reconnect, and the index _schedule_reconnect moves on to.
CancelReconnectForgotten == UNCHANGED reconnectTimer
CancelReconnect == reconnectTimer' = FALSE

NextBackoffUncapped == reconnectIdx + 1
NextBackoffRestarts == (reconnectIdx + 1) % Len(BACKOFF_SCHEDULE_MS)
NextBackoff == IF reconnectIdx < Len(BACKOFF_SCHEDULE_MS)
               THEN reconnectIdx + 1 ELSE reconnectIdx

ScheduleReconnectAfterDrops ==
    /\ reconnectIdx' = NextBackoff
    /\ reconnectTimer' = (state = "ONLINE")
ScheduleReconnect ==
    /\ reconnectIdx' = NextBackoff
    /\ reconnectTimer' = TRUE

\* _prepend_init_sequence
AppendInitSequence(q) == q \o INIT_SEQUENCE
PrependInitSequence(q) == INIT_SEQUENCE \o q

(* _pump, run in state st with the queue q and the in-flight flag busy     *)
(* that the calling handler has just computed.                             *)
PumpOffByOne(st, q, busy) ==
    \/ /\ st = "ONLINE" /\ ~busy /\ Len(q) > 1
       /\ queue' = Tail(q)
       /\ inflight' = TRUE
       /\ SendToNetwork(Head(q))
    \/ /\ st # "ONLINE" \/ busy \/ Len(q) <= 1
       /\ queue' = q
       /\ inflight' = busy
       /\ UNCHANGED <<inbox, misdirected, lastWrite>>
Pump(st, q, busy) ==
    \/ /\ st = "ONLINE" /\ ~busy /\ q # <<>>
       /\ queue' = Tail(q)
       /\ inflight' = TRUE
       /\ SendToNetwork(Head(q))
    \/ /\ st # "ONLINE" \/ busy \/ q = <<>>
       /\ queue' = q
       /\ inflight' = busy
       /\ UNCHANGED <<inbox, misdirected, lastWrite>>

(* start: the binding is created once, then every call reissues NetConnect *)
StartConnection ==
    /\ created' = TRUE
    /\ boundHost' = IF created THEN boundHost ELSE host
    /\ CancelReconnect
    /\ state' = "CONNECTING"
    /\ net' = IF net = "closed" THEN "opening" ELSE net
    /\ connPort' = IF net = "closed" THEN port ELSE connPort

(* OnDriverLateInit: runs once, after Composer has filled the Properties.  *)
LateInit ==
    /\ ~created /\ ~destroyed
    /\ StartConnection
    /\ UNCHANGED <<queue, inflight, reconnectIdx, host, port, destroyed,
                   notices, device, lastWrite>>

(* OnDriverDestroyed: stop(), then cs = nil, so no later callback arrives. *)
DriverDestroyed ==
    /\ ~destroyed
    /\ destroyed' = TRUE
    /\ CancelReconnect
    /\ net' = IF state # "OFFLINE" THEN "closed" ELSE net
    /\ state' = "OFFLINE"
    /\ inflight' = FALSE
    /\ notices' = <<>> /\ inbox' = <<>> /\ stream' = <<>>
    /\ UNCHANGED <<queue, created, reconnectIdx, host, port, boundHost,
                   connPort, misdirected, lastWrite>>

(* on_connection_status("ONLINE"): the init sequence goes to the front.    *)
StatusOnline ==
    /\ ~destroyed
    /\ notices # <<>> /\ Head(notices) = "ONLINE"
    /\ notices' = Tail(notices)
    /\ \/ /\ state = "ONLINE"
          /\ UNCHANGED <<csm, device, lastWrite>>
       \/ /\ state # "ONLINE"
          /\ reconnectIdx' = 0
          /\ CancelReconnect
          /\ state' = "ONLINE"
          /\ Pump("ONLINE", PrependInitSequence(queue), FALSE)
          /\ UNCHANGED <<created, host, port, destroyed, stream>>
    /\ UNCHANGED <<boundHost, net, connPort>>

(* on_connection_status("OFFLINE") and _schedule_reconnect.  It also runs  *)
(* when the machine is OFFLINE already: the timer is re-armed one step     *)
(* further along the backoff schedule.                                     *)
StatusOffline ==
    /\ ~destroyed
    /\ notices # <<>> /\ Head(notices) = "OFFLINE"
    /\ notices' = Tail(notices)
    /\ inflight' = FALSE
    /\ state' = "OFFLINE"
    /\ ScheduleReconnect
    /\ UNCHANGED <<queue, created, host, port, destroyed, boundHost, net,
                   connPort, device, lastWrite>>

(* The callback of the reconnect timer.                                    *)
ReconnectTimerFires ==
    /\ reconnectTimer
    /\ \/ state = "OFFLINE" /\ StartConnection
       \/ /\ state # "OFFLINE"
          /\ reconnectTimer' = FALSE
          /\ UNCHANGED <<created, boundHost, state, net, connPort>>
    /\ UNCHANGED <<queue, inflight, reconnectIdx, host, port, destroyed,
                   notices, device, lastWrite>>

(* on_received: a chunk completing n lines.  Any complete line frees the   *)
(* in-flight slot, whichever command it answers; the queue is pumped once. *)
SlotKept(n) == inflight
StillInFlight(n) == inflight /\ n = 0

OnReceived(n) ==
    /\ ~destroyed /\ net = "open" /\ notices = <<>>
    /\ n \in 0 .. Len(stream) /\ stream # <<>>
    /\ stream' = SubSeq(stream, n + 1, Len(stream))
    /\ Pump(state, queue, StillInFlight(n))
    /\ UNCHANGED <<state, created, reconnectIdx, reconnectTimer, host, port,
                   destroyed, link>>

(* send: enqueue a wire string; it goes out at once if the link is idle.   *)
Send(cmd) ==
    /\ ~destroyed
    /\ Pump(state, Append(queue, cmd), inflight)
    /\ UNCHANGED <<state, created, reconnectIdx, reconnectTimer, host, port,
                   destroyed, link, stream>>

RefreshMatrixState == Send(StatusCommand)

(* OnPropertyChanged("Host") and OnPropertyChanged("Port").                *)
SetHost(h) ==
    /\ ~destroyed /\ h # host
    /\ host' = h
    /\ UNCHANGED <<state, queue, inflight, created, reconnectIdx,
                   reconnectTimer, port, destroyed, link, device, lastWrite>>

SetPort(p) ==
    /\ ~destroyed /\ p # port
    /\ port' = p
    /\ UNCHANGED <<state, queue, inflight, created, reconnectIdx,
                   reconnectTimer, host, destroyed, link, device, lastWrite>>

-----------------------------------------------------------------------------
(* The link.  NetConnect is answered later, by ONLINE or by OFFLINE; an    *)
(* open link may drop at any time, even before ONLINE was delivered; a     *)
(* closed link may be reported OFFLINE again (connection.lua:196 allows    *)
(* for it).  A new link starts with nothing in transit.                    *)
NetOpens ==
    /\ net = "opening"
    /\ net' = "open"
    /\ notices' = Append(notices, "ONLINE")
    /\ inbox' = <<>> /\ stream' = <<>> /\ misdirected' = FALSE
    /\ UNCHANGED <<csm, boundHost, connPort, lastWrite>>

NetFails ==
    /\ net = "opening"
    /\ net' = "closed"
    /\ notices' = Append(notices, "OFFLINE")
    /\ UNCHANGED <<csm, boundHost, connPort, device, lastWrite>>

NetDrops ==
    /\ net = "open"
    /\ net' = "closed"
    /\ notices' = Append(notices, "OFFLINE")
    /\ inbox' = <<>> /\ stream' = <<>>
    /\ UNCHANGED <<csm, boundHost, connPort, misdirected, lastWrite>>

NetReportsOfflineAgain ==
    /\ ~destroyed /\ state = "OFFLINE" /\ reconnectTimer
    /\ net = "closed" /\ notices = <<>>
    /\ notices' = <<"OFFLINE">>
    /\ UNCHANGED <<csm, boundHost, net, connPort, device, lastWrite>>

(* The matrix takes the oldest command and answers it with reply.          *)
DeviceAnswers(reply) ==
    /\ inbox # <<>>
    /\ inbox' = Tail(inbox)
    /\ stream' = stream \o reply
    /\ UNCHANGED <<csm, link, misdirected, lastWrite>>

DeviceStep ==
    inbox # <<>> /\ \E reply \in Replies[Head(inbox)] : DeviceAnswers(reply)

-----------------------------------------------------------------------------
(* One event of a bounded kind, and the steps that need no bound.          *)
Counted(kind) ==
    events[kind] < Limit[kind] /\ events' = [events EXCEPT ![kind] = @ + 1]

Callback ==
    /\ \/ LateInit
       \/ StatusOnline
       \/ StatusOffline
       \/ ReconnectTimerFires
       \/ DriverDestroyed
       \/ \E n \in 0 .. Len(stream) : OnReceived(n)
    /\ UNCHANGED events

Request ==
    \/ Counted("send") /\ \E cmd \in UserCommands : Send(cmd)
    \/ Counted("poll") /\ RefreshMatrixState
    \/ Counted("edit") /\ \E h \in Hosts : SetHost(h)
    \/ Counted("edit") /\ \E p \in Ports : SetPort(p)

Environment ==
    \/ (NetOpens \/ DeviceStep) /\ UNCHANGED events
    \/ Counted("failure") /\ (NetFails \/ NetReportsOfflineAgain)
    \/ Counted("drop") /\ NetDrops

ConnNext == Callback \/ Request \/ Environment

ConnSpec == ConnInit /\ [][ConnNext]_connVars

(* Composer runs every callback and timer it owes, every NetConnect has an *)
(* outcome, the matrix answers what reaches it and complete lines arrive.  *)
(* Nothing obliges a link to drop, a user to act or the driver to unload.  *)
LineArrives == \E n \in 1 .. Len(stream) : OnReceived(n)
Outcome == NetOpens \/ NetFails
ConnFairness ==
    /\ WF_wireVars(StatusOnline \/ StatusOffline)
    /\ WF_wireVars(ReconnectTimerFires)
    /\ WF_wireVars(LineArrives)
    /\ WF_wireVars(Outcome)
    /\ WF_wireVars(DeviceStep)

ConnFairSpec == ConnSpec /\ ConnFairness

-----------------------------------------------------------------------------
(* The reconnect loop is never lost: whatever the order of drops, failed   *)
(* attempts, repeated OFFLINE reports and timers, a started driver always  *)
(* has something pending that moves it on (connection.lua:183-248).        *)
NeverStranded ==
    created /\ ~destroyed =>
        \/ state = "OFFLINE" /\ reconnectTimer
        \/ state = "CONNECTING" /\ (net = "opening" \/ notices # <<>>)
        \/ state = "ONLINE" /\ (net = "open" \/ "OFFLINE" \in ToSet(notices))

(* At most one path leads back to ONLINE: the timer runs only while        *)
(* OFFLINE, and unloading the driver leaves no timer to reopen the link    *)
(* (connection.lua:154-201, driver.lua:190-202).                           *)
TimerOnlyWhileOffline ==
    /\ reconnectTimer => state = "OFFLINE"
    /\ destroyed => state = "OFFLINE" /\ ~reconnectTimer

(* _pump is called wherever it must be: no command waits behind a free     *)
(* slot (connection.lua:138-146, 192, 215, 224).                           *)
NoIdleQueue == state = "ONLINE" /\ queue # <<>> => inflight

(* A taken slot will be released: while it is taken the matrix still owes  *)
(* a line, or the loss of the link is on its way, or the write was sent to *)
(* a port nothing is connected to (connection.lua:183-216).                *)
SlotWillBeReleased ==
    inflight => /\ state = "ONLINE"
                /\ \/ inbox # <<>> \/ stream # <<>>
                   \/ "OFFLINE" \in ToSet(notices)
                   \/ misdirected

(* The queue is the FIFO its callers rely on, across any reconnects: each  *)
(* command is written once, in the order accepted, and every session opens *)
(* with PON, STANDBY 0, AUTO STB 0, STATUS ahead of whatever waited        *)
(* (connection.lua:123-146, 207-226).                                      *)
Fifo == INSTANCE CommandFifo
            WITH Commands <- Command, Greeting <- INIT_SEQUENCE, pending <- queue
IsFifo == Fifo!FifoSpec

(* The backoff follows the link: each loss or failure the driver hears of  *)
(* takes it exactly one step further, to 30 s and no further; hearing that *)
(* the link is up takes it back to 1 s; and nothing else moves it          *)
(* (connection.lua:186, 192, 236-240).                                     *)
Hears(status) ==
    /\ notices # <<>> /\ Head(notices) = status
    /\ notices' = Tail(notices) /\ ~destroyed'
BackoffMove ==
    /\ Hears("OFFLINE") => \/ reconnectIdx' = reconnectIdx + 1
                           \/ /\ reconnectIdx = Len(BACKOFF_SCHEDULE_MS)
                              /\ reconnectIdx' = reconnectIdx
    /\ Hears("ONLINE") => reconnectIdx' = 0
    /\ reconnectIdx' # reconnectIdx => Hears("ONLINE") \/ Hears("OFFLINE")
BackoffFollowsTheLink == [][BackoffMove]_connVars

(* A started driver gets back ONLINE unless it is unloaded.                *)
GetsBackOnline == created /\ state # "ONLINE" ~> state = "ONLINE" \/ destroyed

(* Once started, everything queued is eventually written, through drops    *)
(* and reconnects (connection.lua:138-146, 207-216), with one exception.   *)
(* An edit of Port under an open link (connection.lua:92, driver.lua:209)  *)
(* neither reopens the link nor waits for it: the next command goes to a   *)
(* port nothing is connected to, nobody answers it, and its slot stays     *)
(* taken, the queue behind it, for as long as that link lasts.  Once the   *)
(* link is lost this queue drains too.                                     *)
SlotLost == state = "ONLINE" /\ inflight /\ misdirected
QueueDrains == created ~> queue = <<>> \/ destroyed \/ []SlotLost
=============================================================================
