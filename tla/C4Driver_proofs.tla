--------------------------- MODULE C4Driver_proofs ---------------------------
(***************************************************************************)
(* Proofs about the whole Control4 driver, for any outputs, inputs,        *)
(* lockout and bounds.                                                     *)
(***************************************************************************)
EXTENDS C4Driver, C4Connection_proofs, StatusParser_proofs

-----------------------------------------------------------------------------
(* The bindings of Composer number the outputs and inputs.                 *)
LEMMA OutputNumbers ==
    /\ \A b \in OutputBindings : OutputIndex(b) \in Outputs /\ b \in Int
    /\ \A b, c \in OutputBindings : OutputIndex(b) = OutputIndex(c) => b = c
  BY DEF OutputBindings, OutputIndex, OUTPUT_BINDING_BASE

(* What Composer names an input by, ReceivedFromProxy finds it by.         *)
LEMMA InputNumbers ==
    /\ \A c \in InputBindings \ {UNBIND_SENTINEL} :
          InputIndex(c) \in Inputs /\ InputBinding(InputIndex(c)) = c
    /\ InputBinding(0) = UNBIND_SENTINEL /\ UNBIND_SENTINEL \in InputBindings
    /\ \A i \in Inputs \cup {0} : InputBinding(i) \in InputBindings
<1>1. Inputs \subseteq 1 .. 16
  BY DriverAssumption
<1>2. ASSUME NEW c \in InputBindings \ {UNBIND_SENTINEL}
      PROVE  InputIndex(c) \in Inputs /\ InputBinding(InputIndex(c)) = c
  <2>1. c \in 1001 .. 1016 /\ InputIndex(c) = c - 1000
    BY DEF InputBindings, InputIndex, INPUT_BINDING_BASE, UNBIND_SENTINEL
  <2>2. InputIndex(c) \in Inputs
    BY <2>1 DEF InputBindings
  <2>3. QED BY <2>1, <2>2 DEF InputBinding, INPUT_BINDING_BASE
<1>3. ASSUME NEW i \in Inputs PROVE InputBinding(i) \in InputBindings
  <2>1. i \in 1 .. 16 /\ InputBinding(i) = 1000 + i
    BY <1>1 DEF InputBinding, INPUT_BINDING_BASE
  <2>2. InputIndex(1000 + i) = i
    BY <2>1 DEF InputIndex, INPUT_BINDING_BASE, UNBIND_SENTINEL
  <2>3. QED BY <2>1, <2>2 DEF InputBindings
<1>4. InputBinding(0) = UNBIND_SENTINEL /\ UNBIND_SENTINEL \in InputBindings
  BY DEF InputBinding, InputBindings, InputIndex, UNBIND_SENTINEL
<1>5. QED BY <1>2, <1>3, <1>4

-----------------------------------------------------------------------------
\* As much of the types as the Rooms need.
ViewShape ==
    /\ routing = [o \in Outputs |-> routing[o]]
    /\ rooms = [b \in OutputBindings |-> rooms[b]]

(* Every change of belief is shown.                                        *)
LEMMA RoomsStep ==
    ASSUME ViewShape, RoomsFollowTheTracker, [DriverNext]_driverVars
    PROVE  ViewShape' /\ RoomsFollowTheTracker'
<1> USE DEF ViewShape, RoomsFollowTheTracker
<1>1. ASSUME UNCHANGED <<routing, rooms>> PROVE ViewShape' /\ RoomsFollowTheTracker'
  BY <1>1
<1>2. ASSUME NEW b \in OutputBindings, NEW c \in InputBindings, SelectAudioDevice(b, c)
      PROVE  ViewShape' /\ RoomsFollowTheTracker'
  <2> DEFINE o == OutputIndex(b)
  <2>1. rooms' = [rooms EXCEPT ![b] = c] /\ o \in Outputs
    BY <1>2, OutputNumbers DEF SelectAudioDevice
  <2>2. \E i : routing' = [routing EXCEPT ![o] = i] /\ InputBinding(i) = c
    <3>1. CASE c = UNBIND_SENTINEL
      <4>1. Unroute(o)
        BY <1>2, <3>1 DEF SelectAudioDevice
      <4>2. routing' = [routing EXCEPT ![o] = 0]
        BY <4>1, <2>1 DEF Unroute, NoteCommand, trackerVars
      <4>3. QED BY <3>1, <4>2, InputNumbers
    <3>2. CASE c # UNBIND_SENTINEL
      <4>1. NoteCommand(o, InputIndex(c))
        BY <1>2, <3>2 DEF SelectAudioDevice, Route
      <4>2. QED BY <3>2, <4>1, InputNumbers DEF NoteCommand
    <3>3. QED BY <3>1, <3>2
  <2>3. PICK i : routing' = [routing EXCEPT ![o] = i] /\ InputBinding(i) = c
    BY <2>2
  <2>4. ViewShape'
    BY <2>1, <2>3
  <2>5. ASSUME NEW d \in OutputBindings
        PROVE  rooms'[d] = InputBinding(routing'[OutputIndex(d)])
    BY <2>1, <2>3, OutputNumbers
  <2>6. QED BY <2>4, <2>5
<1>3. ASSUME NEW rows, OnStatus(rows) PROVE ViewShape' /\ RoomsFollowTheTracker'
  <2>1. PICK polled :
           /\ routing' = [o \in Outputs |->
                             IF o \in Changes(polled) THEN polled[o] ELSE routing[o]]
           /\ rooms' = [b \in OutputBindings |->
                           IF OutputIndex(b) \in Changes(polled)
                           THEN InputBinding(polled[OutputIndex(b)]) ELSE rooms[b]]
    BY <1>3 DEF OnStatus, Reconcile
  <2>2. QED BY <2>1, OutputNumbers
<1>4. ASSUME NEW n, ReceivedFromNetwork(n) PROVE ViewShape' /\ RoomsFollowTheTracker'
  BY <1>1, <1>3, <1>4 DEF ReceivedFromNetwork, trackerVars
<1>5. QED
  BY <1>1, <1>2, <1>4
  DEF DriverNext, DriverLateInit, DriverUnloads, PollTimerFires, RefreshNow,
      ConnectionAlone, ClockTicks, Tick, MatrixAnswers, OutOfBandChange, trackerVars,
      shell, driverVars

(* Composer always shows what the tracker believes, in its own numbers     *)
(* (proxy_handler.lua:126-172, driver.lua:126-141).                        *)
THEOREM RoomsShowTheBelief == DriverSpec => []RoomsFollowTheTracker
<1>1. DriverInit => ViewShape /\ RoomsFollowTheTracker
  BY OutputNumbers, InputNumbers
  DEF DriverInit, TrackerInit, ViewShape, RoomsFollowTheTracker
<1>2. QED BY <1>1, RoomsStep, PTL DEF DriverSpec

(* In its lockout no output follows a poll (optimistic_tracker.lua:58-62,  *)
(* 86-114).                                                                *)
THEOREM LockoutIsKept == DriverSpec => LockoutHolds
<1>1. ASSUME [DriverNext]_driverVars, PollStep, NEW o \in Outputs, IsLocked(o)
      PROVE  routing'[o] = routing[o]
  <2>1. CASE UNCHANGED routing
    BY <2>1
  <2>2. ASSUME NEW n, ReceivedFromNetwork(n) PROVE routing'[o] = routing[o]
    BY <1>1, <2>1, <2>2
    DEF ReceivedFromNetwork, OnStatus, Reconcile, Changes, trackerVars
  <2>3. ASSUME NEW b, NEW c, SelectAudioDevice(b, c) PROVE FALSE
    BY <1>1, <2>3 DEF SelectAudioDevice, Route, Unroute, Send, PollStep, wireVars, device
  <2>4. QED
    BY <1>1, <2>1, <2>2, <2>3
    DEF DriverNext, DriverLateInit, DriverUnloads, PollTimerFires, RefreshNow,
        ConnectionAlone, ClockTicks, Tick, MatrixAnswers, OutOfBandChange, trackerVars,
        driverVars
<1>2. [DriverNext]_driverVars =>
         [PollStep =>
             \A o \in Outputs : IsLocked(o) => routing'[o] = routing[o]]_driverVars
  BY <1>1
<1>3. QED BY <1>2, PTL DEF DriverSpec, LockoutHolds

-----------------------------------------------------------------------------
\* Nothing of a connection is there before it was started.
StartedFirst ==
    ~created => ~reconnectTimer /\ net = "closed" /\ notices = <<>>

\* Composer runs the timer of the token, while the coordinator runs, and no other.
PollerInv ==
    /\ polling <=> created /\ ~destroyed
    /\ pollTimer <=> created /\ ~destroyed
    /\ OnePollTimer

(* A request for STATUS leaves what the poll loop rests on alone.          *)
LEMMA SendKeepsTheLink ==
    ASSUME NEW cmd, Send(cmd)
    PROVE  UNCHANGED <<created, destroyed, reconnectTimer, net, notices>>
  BY DEF Send, link

(* The timer is armed when the connection is started and when it fired,    *)
(* and replaced by a refresh.                                              *)
LEMMA PollLoopStep ==
    ASSUME StartedFirst, PollerInv, [DriverNext]_driverVars
    PROVE  StartedFirst' /\ PollerInv'
<1>1. ASSUME UNCHANGED <<created, destroyed, poller, reconnectTimer, net, notices>>
      PROVE  StartedFirst' /\ PollerInv'
  <2>1. StartedFirst'
    BY <1>1 DEF StartedFirst
  <2>2. PollerInv'
    BY <1>1, Zenon DEF PollerInv, OnePollTimer, poller
  <2>3. QED BY <2>1, <2>2
<1> USE DEF StartedFirst, PollerInv, OnePollTimer, Arm
<1>2. CASE DriverLateInit
  BY <1>2 DEF DriverLateInit, LateInit, StartConnection, StartPolling
<1>3. CASE DriverUnloads
  BY <1>3 DEF DriverUnloads, DriverDestroyed, StopPolling, CancelReconnect
<1>4. CASE PollTimerFires
  <2>1. polling /\ Send(StatusCommand) /\ Arm(FALSE, pollTimers - 1) /\ polling' = polling
    BY <1>4 DEF PollTimerFires
  <2>2. UNCHANGED <<created, destroyed, reconnectTimer, net, notices>>
    BY <2>1, SendKeepsTheLink
  <2>3. pollTimers = 1 /\ pollTimers' = 1 /\ pollTimer' = TRUE
    BY <2>1
  <2>4. QED BY <2>1, <2>2, <2>3
<1>5. CASE RefreshNow
  <2>1. UNCHANGED <<created, destroyed, reconnectTimer, net, notices>>
    BY <1>5, SendKeepsTheLink DEF RefreshNow, RefreshMatrixState
  <2>2. polling' = polling /\ pollTimer' = pollTimer /\ pollTimers' = pollTimers
    BY <1>5 DEF RefreshNow
  <2>3. QED BY <1>1, <2>1, <2>2 DEF poller
<1>6. ASSUME NEW b, NEW c, SelectAudioDevice(b, c) PROVE StartedFirst' /\ PollerInv'
  BY <1>1, <1>6, SendKeepsTheLink DEF SelectAudioDevice, Route, Unroute, wireVars, csm, link
<1>7. ASSUME NEW n, ReceivedFromNetwork(n) PROVE StartedFirst' /\ PollerInv'
  <2>1. UNCHANGED <<created, destroyed, poller, reconnectTimer, net, notices>>
    BY <1>7, Zenon DEF ReceivedFromNetwork, OnReceived, link
  <2>2. QED BY <1>1, <2>1
<1>8. CASE ConnectionAlone
  <2>1. UNCHANGED poller
    BY <1>8 DEF ConnectionAlone, shell
  <2>2. ASSUME UNCHANGED <<created, destroyed>> PROVE PollerInv'
    BY <2>1, <2>2, Zenon DEF poller
  <2>3. CASE StatusOnline \/ StatusOffline
    <3>1. created /\ UNCHANGED <<created, destroyed>>
      BY <2>3 DEF StatusOnline, StatusOffline, csm
    <3>2. QED BY <2>2, <3>1, Zenon
  <2>4. CASE ReconnectTimerFires
    <3>1. created /\ UNCHANGED <<created, destroyed>>
      BY <2>4 DEF ReconnectTimerFires, StartConnection
    <3>2. QED BY <2>2, <3>1, Zenon
  <2>5. CASE NetOpens \/ NetFails \/ NetReportsOfflineAgain \/ NetDrops
    <3>1. StartedFirst' /\ UNCHANGED <<created, destroyed>>
      BY <2>5 DEF NetOpens, NetFails, NetReportsOfflineAgain, NetDrops, csm
    <3>2. QED BY <2>2, <3>1, Zenon
  <2>6. QED BY <1>8, <2>3, <2>4, <2>5 DEF ConnectionAlone
<1>9. CASE ClockTicks \/ MatrixAnswers \/ UNCHANGED driverVars
           \/ \E o \in Outputs, i \in Inputs \cup {0} : OutOfBandChange(o, i)
  BY <1>1, <1>9 DEF ClockTicks, MatrixAnswers, DeviceAnswers, OutOfBandChange, driverVars,
     connVars, wireVars, csm, link, shell
<1>10. QED BY <1>2, <1>3, <1>4, <1>5, <1>6, <1>7, <1>8, <1>9 DEF DriverNext

(* Exactly one poll timer runs from late init to unloading, however often  *)
(* it fires or a refresh replaces it (polling_coordinator.lua:89-136,      *)
(* driver.lua:177-202).                                                    *)
THEOREM PollingGoesOn == DriverSpec => []OnePollTimer
<1>1. DriverInit => StartedFirst /\ PollerInv
  BY DEF DriverInit, ConnInit, WireInit, StartedFirst, PollerInv, OnePollTimer
<1>2. PollerInv => OnePollTimer
  BY DEF PollerInv
<1>3. QED BY <1>1, <1>2, PollLoopStep, PTL DEF DriverSpec

-----------------------------------------------------------------------------
\* The commands the driver gives, the types of what travels between it and the
\* matrix, and what the matrix had.
DriverCommand ==
    ToSet(INIT_SEQUENCE)
    \cup { FormatRoute(o, i) : o \in Outputs, i \in Inputs }
    \cup { FormatOutputRemove(o, i) : o \in Outputs, i \in Inputs }

WireShape ==
    /\ queue \in Seq(DriverCommand) /\ inbox \in Seq(DriverCommand)
    /\ stream \in Seq(ReplyLine) /\ statusBuffer \in Seq(ReplyLine)

MatrixShape ==
    /\ matrix \in Routing
    /\ matrixHad \subseteq Outputs \X (Inputs \cup {0})
    /\ \A o \in Outputs : <<o, matrix[o]>> \in matrixHad

TimerShape ==
    /\ polling \in BOOLEAN /\ pollTimer \in BOOLEAN /\ pollTimers \in Nat
    /\ pollTimer => pollTimers > 0

DriverShape == DriverTypeOK /\ TimerShape /\ WireShape /\ MatrixShape

(* The outputs are numbered from 1, so a reply can list them in order.     *)
LEMMA OutputsAreNumbered ==
    \E n \in Nat : n > 0 /\ Outputs = 1 .. n
  BY DriverAssumption

(* What the driver asks for are commands it knows.                         *)
LEMMA CommandsKnown ==
    /\ INIT_SEQUENCE \in Seq(DriverCommand) /\ StatusCommand \in DriverCommand
    /\ \A o \in Outputs, i \in Inputs :
          /\ FormatRoute(o, i) \in DriverCommand
          /\ FormatOutputRemove(o, i) \in DriverCommand
<1>1. \A i \in 1 .. Len(INIT_SEQUENCE) : INIT_SEQUENCE[i] \in ToSet(INIT_SEQUENCE)
  BY InitCommands DEF ToSet
<1>2. Len(INIT_SEQUENCE) = 4 /\ INIT_SEQUENCE[4] = StatusCommand
  BY DEF INIT_SEQUENCE
<1>3. INIT_SEQUENCE \in Seq(ToSet(INIT_SEQUENCE))
  <2>1. INIT_SEQUENCE \in [1 .. Len(INIT_SEQUENCE) -> ToSet(INIT_SEQUENCE)]
    BY <1>1, InitCommands, LenProperties
  <2>2. QED BY <1>2, <2>1, SeqDef
<1>4. INIT_SEQUENCE \in Seq(DriverCommand)
  <2>1. ToSet(INIT_SEQUENCE) \subseteq DriverCommand
    BY DEF DriverCommand
  <2>2. QED BY <1>3, <2>1, SeqMonotonic
<1>5. StatusCommand \in DriverCommand
  BY <1>1, <1>2 DEF DriverCommand
<1>6. QED BY <1>4, <1>5 DEF DriverCommand

(* _pump neither makes up a command nor loses the type of the queue.       *)
LEMMA PumpShape ==
    ASSUME WireShape, NEW st, NEW q \in Seq(DriverCommand), NEW busy, Pump(st, q, busy)
    PROVE  queue' \in Seq(DriverCommand) /\ inbox' \in Seq(DriverCommand)
<1>1. CASE st = "ONLINE" /\ ~busy /\ q # <<>>
  <2>1. Head(q) \in DriverCommand /\ Tail(q) \in Seq(DriverCommand)
    BY <1>1
  <2>2. queue' = Tail(q) /\ SendToNetwork(Head(q))
    BY <1>1 DEF Pump
  <2>3. QED BY <2>1, <2>2 DEF SendToNetwork, WireShape
<1>2. CASE st # "ONLINE" \/ busy \/ q = <<>>
  BY <1>2 DEF Pump, WireShape
<1>3. QED BY <1>1, <1>2

(* So does anything that gives a command, or takes a chunk off the wire.   *)
LEMMA SendShape ==
    ASSUME WireShape, UNCHANGED statusBuffer, NEW cmd \in DriverCommand, Send(cmd)
    PROVE  WireShape'
<1>1. Pump(state, Append(queue, cmd), inflight) /\ stream' = stream
  BY DEF Send
<1>2. Append(queue, cmd) \in Seq(DriverCommand)
  BY DEF WireShape
<1>3. queue' \in Seq(DriverCommand) /\ inbox' \in Seq(DriverCommand)
  BY <1>1, <1>2, PumpShape
<1>4. QED BY <1>1, <1>3 DEF WireShape

-----------------------------------------------------------------------------
(* The columns of a reply are the inputs of the matrix, none of them a bus. *)
LEMMA ReplyColumns ==
    /\ \A i \in Inputs \cup {0} : FromInput(i) = i
    /\ \A line \in ReplyLine :
          /\ Kind(line) \in {"text", "header", "data", "matrix", "route", "outset"}
          /\ LuaRoute(line)[3] \in Inputs \cup {0}
<1>1. Inputs \subseteq 1 .. 16
  BY DriverAssumption
<1>2. \A i \in Inputs \cup {0} : FromInput(i) = i
  BY <1>1 DEF FromInput
<1>3. ASSUME NEW o \in Outputs, NEW i \in Inputs \cup {0}
      PROVE  Kind(RouteLine(o, i)) = "route" /\ LuaRoute(RouteLine(o, i)) = <<o, "L", i>>
  BY <1>2 DEF RouteLine, LuaRoute, Kind
<1>4. ASSUME NEW line \in ReplyLine,
             \A o \in Outputs, i \in Inputs \cup {0} : line # RouteLine(o, i)
      PROVE  /\ Kind(line) \in {"text", "header", "data", "matrix", "outset"}
             /\ LuaRoute(line)[3] = 0
  BY <1>4 DEF ReplyLine, LuaRoute, Kind
<1>5. QED BY <1>2, <1>3, <1>4

(* Whatever text is parsed, what the poll shows is a routing.              *)
LEMMA PollsAreRoutings ==
    ASSUME NEW text \in Seq(ReplyLine)
    PROVE  CollapseRouting(LuaParse(text).routing, Outputs) \in Routing
<1> DEFINE rows == LuaParse(text).routing
           rest == After(text, "matrix")
<1>1. rest \in Seq(ReplyLine)
  BY AfterLines
<1>2. rows = LuaRouting(text) \/ rows = <<>>
  BY DEF LuaParse
<1>3. /\ DOMAIN rows \subseteq 1 .. Len(rest)
      /\ \A k \in DOMAIN rows : rows[k][3] \in Inputs \cup {0}
  <2>1. CASE rows = <<>>
    BY <2>1
  <2>2. CASE rows = LuaRouting(text)
    <3>1. /\ DOMAIN rows \subseteq DOMAIN rest
          /\ \A k \in DOMAIN rows : rows[k] = LuaRoute(rest[k])
      BY <2>2, LuaRows
    <3>2. \A k \in DOMAIN rest : k \in 1 .. Len(rest) /\ rest[k] \in ReplyLine
      BY <1>1
    <3>3. QED BY <3>1, <3>2, ReplyColumns
  <2>3. QED BY <1>2, <2>1, <2>2
<1> HIDE DEF rows, rest
<1>4. ASSUME NEW o \in Outputs
      PROVE  CollapseRouting(rows, Outputs)[o] \in Inputs \cup {0}
  <2>1. Len(rest) \in Nat
    BY <1>1
  <2>2. QED BY <1>3, <2>1, CollapseTakesTheLast
<1>5. CollapseRouting(rows, Outputs) =
         [o \in Outputs |-> CollapseRouting(rows, Outputs)[o]]
  BY DEF CollapseRouting
<1>6. CollapseRouting(rows, Outputs) \in Routing
  BY <1>4, <1>5 DEF Routing
<1>7. QED BY <1>6 DEF rows

(* Of any buffer, what is kept is a buffer.                                *)
LEMMA KeptShape ==
    ASSUME NEW text \in Seq(ReplyLine)
    PROVE  Kept(text) \in Seq(ReplyLine)
<1>1. <<"header">> \in ReplyLine /\ <<"text">> \in ReplyLine /\ <<"matrix">> \in ReplyLine
  BY DEF ReplyLine
<1>2. After(text, "header") \in Seq(ReplyLine)
  BY AfterLines
<1>3. After(text, "header") # <<>> => After(text, "header")[1] \in ReplyLine
  BY <1>2
<1>4. QED BY <1>1, <1>3, EmptyIsSeq DEF Kept

-----------------------------------------------------------------------------
(* A STATUS reply is made of lines; without Output Settings it is the      *)
(* three titles and one row for each output.                               *)
LEMMA ReportLines ==
    ASSUME NEW r \in Routing, NEW n \in Nat, Outputs = 1 .. n
    PROVE  /\ Report(r) \in Seq(ReplyLine)
           /\ ~FullReports =>
                 /\ Len(Report(r)) = 3 + n
                 /\ Report(r)[1] = <<"header">> /\ Report(r)[2] = <<"data">>
                 /\ Report(r)[3] = <<"matrix">>
                 /\ \A o \in Outputs : Report(r)[3 + o] = RouteLine(o, r[o])
<1> DEFINE titles == << <<"header">>, <<"data">>, <<"matrix">> >>
           routes == [o \in Outputs |-> RouteLine(o, r[o])]
           rest == IF FullReports THEN [o \in Outputs |-> <<"outset", o>>] ELSE <<>>
<1>1. /\ titles \in Seq(ReplyLine) /\ Len(titles) = 3
      /\ titles[1] = <<"header">> /\ titles[2] = <<"data">> /\ titles[3] = <<"matrix">>
  BY DEF ReplyLine
<1>2. /\ routes \in Seq(ReplyLine) /\ Len(routes) = n
      /\ \A o \in 1 .. n : routes[o] = RouteLine(o, r[o])
  <2>1. \A o \in Outputs : RouteLine(o, r[o]) \in ReplyLine
    BY DEF Routing, ReplyLine
  <2>2. routes \in [1 .. n -> ReplyLine]
    BY <2>1
  <2>3. routes \in Seq(ReplyLine)
    BY <2>2, SeqDef
  <2>4. DOMAIN routes = 1 .. Len(routes) /\ Len(routes) \in Nat /\ DOMAIN routes = 1 .. n
    BY <2>3
  <2>5. Len(routes) = n
    BY <2>4
  <2>6. QED BY <2>3, <2>5
<1>3. rest \in Seq(ReplyLine)
  <2>1. \A o \in Outputs : <<"outset", o>> \in ReplyLine
    BY DEF ReplyLine
  <2>2. [o \in Outputs |-> <<"outset", o>>] \in [1 .. n -> ReplyLine]
    BY <2>1
  <2>3. [o \in Outputs |-> <<"outset", o>>] \in Seq(ReplyLine)
    BY <2>2, SeqDef
  <2>4. QED BY <2>3, EmptyIsSeq
<1>4. Report(r) = (titles \o routes) \o rest /\ (~FullReports => rest = <<>>)
  BY DEF Report
<1> HIDE DEF titles, routes, rest
<1>5. /\ titles \o routes \in Seq(ReplyLine) /\ Len(titles \o routes) = 3 + n
      /\ \A i \in 1 .. 3 + n :
            (titles \o routes)[i] = IF i <= 3 THEN titles[i] ELSE routes[i - 3]
  <2>1. /\ titles \o routes \in Seq(ReplyLine)
        /\ Len(titles \o routes) = Len(titles) + Len(routes)
        /\ \A i \in 1 .. Len(titles) + Len(routes) :
              (titles \o routes)[i] =
                  IF i <= Len(titles) THEN titles[i] ELSE routes[i - Len(titles)]
    BY <1>1, <1>2, ConcatProperties
  <2>2. QED BY <2>1, <1>1, <1>2
<1>6. Report(r) \in Seq(ReplyLine)
  BY <1>3, <1>4, <1>5, ConcatProperties
<1>7. ASSUME ~FullReports
      PROVE  /\ Len(Report(r)) = 3 + n
             /\ Report(r)[1] = <<"header">> /\ Report(r)[2] = <<"data">>
             /\ Report(r)[3] = <<"matrix">>
             /\ \A o \in Outputs : Report(r)[3 + o] = RouteLine(o, r[o])
  <2>1. Report(r) = titles \o routes
    BY <1>4, <1>5, <1>7, ConcatEmptySeq
  <2>2. \A o \in Outputs : (titles \o routes)[3 + o] = routes[o]
    BY <1>5
  <2>3. /\ (titles \o routes)[1] = titles[1] /\ (titles \o routes)[2] = titles[2]
        /\ (titles \o routes)[3] = titles[3]
    BY <1>5
  <2>4. QED BY <1>1, <1>2, <1>5, <2>1, <2>2, <2>3
<1>8. QED BY <1>6, <1>7

(* The matrix obeys a command of the driver with a routing.                *)
LEMMA ObeyedIsRouting ==
    ASSUME matrix \in Routing, NEW cmd \in DriverCommand
    PROVE  Obeyed(cmd) \in Routing
<1>1. ASSUME cmd \in ToSet(INIT_SEQUENCE) PROVE Obeyed(cmd) = matrix
  <2>1. Len(INIT_SEQUENCE) = 4 /\ DOMAIN INIT_SEQUENCE = 1 .. 4
    BY DEF INIT_SEQUENCE
  <2>2. PICK k \in 1 .. 4 : cmd = INIT_SEQUENCE[k]
    BY <1>1, <2>1 DEF ToSet
  <2>3. /\ INIT_SEQUENCE[1][1] = "PON" /\ INIT_SEQUENCE[2][1] = "STANDBY 0"
        /\ INIT_SEQUENCE[3][1] = "AUTO STB 0" /\ INIT_SEQUENCE[4][1] = "STATUS"
    BY DEF INIT_SEQUENCE, StatusCommand
  <2>4. k = 1 \/ k = 2 \/ k = 3 \/ k = 4
    BY <2>2
  <2>5. cmd[1] # "OUT" /\ cmd[1] # "REM"
    BY <2>2, <2>3, <2>4
  <2>6. QED BY <2>5 DEF Obeyed
<1>2. ASSUME NEW o \in Outputs, NEW i \in Inputs, cmd = FormatRoute(o, i)
      PROVE  Obeyed(cmd) \in Routing
  BY <1>2 DEF FormatRoute, Obeyed, Routing
<1>3. ASSUME NEW o \in Outputs, NEW i \in Inputs, cmd = FormatOutputRemove(o, i)
      PROVE  Obeyed(cmd) \in Routing
  BY <1>3 DEF FormatOutputRemove, Obeyed, Routing
<1>4. QED BY <1>1, <1>2, <1>3 DEF DriverCommand

(* The matrix only moves from routing to routing, and its past is kept.    *)
LEMMA MatrixStep ==
    ASSUME MatrixShape, NEW r \in Routing, MatrixBecomes(r)
    PROVE  MatrixShape' /\ matrixHad \subseteq matrixHad'
<1>1. \A o \in Outputs : r[o] \in Inputs \cup {0}
  BY DEF Routing
<1>2. QED BY <1>1 DEF MatrixShape, MatrixBecomes

(* No step puts anything else on the wire, or into the buffer.             *)
LEMMA WireShapeStep ==
    ASSUME WireShape, MatrixShape, TrackerTypeOK, [DriverNext]_driverVars
    PROVE  WireShape'
<1>1. ASSUME UNCHANGED <<queue, inbox, stream, statusBuffer>> PROVE WireShape'
  BY <1>1 DEF WireShape
<1>2. ASSUME UNCHANGED <<queue, statusBuffer>>, inbox' = <<>>, stream' = <<>>
      PROVE  WireShape'
  BY <1>2, EmptyIsSeq DEF WireShape
<1>3. CASE DriverLateInit
  BY <1>1, <1>3 DEF DriverLateInit, LateInit, device
<1>4. CASE DriverUnloads
  BY <1>4, EmptyIsSeq DEF DriverUnloads, DriverDestroyed, WireShape
<1>5. CASE PollTimerFires \/ RefreshNow
  BY <1>1, <1>5, SendShape, CommandsKnown
  DEF PollTimerFires, RefreshNow, RefreshMatrixState, wireVars, csm, device
<1>6. ASSUME NEW b \in OutputBindings, NEW c \in InputBindings, SelectAudioDevice(b, c)
      PROVE  WireShape'
  <2> DEFINE o == OutputIndex(b)
  <2>1. o \in Outputs /\ routing[o] \in Inputs \cup {0} /\ UNCHANGED statusBuffer
    BY <1>6, OutputNumbers DEF SelectAudioDevice, TrackerTypeOK, Routing
  <2>2. CASE c = UNBIND_SENTINEL
    <3>1. Unroute(o)
      BY <1>6, <2>2 DEF SelectAudioDevice
    <3>2. CASE routing[o] # 0
      BY <2>1, <3>1, <3>2, SendShape, CommandsKnown DEF Unroute
    <3>3. CASE routing[o] = 0
      BY <1>1, <2>1, <3>1, <3>3 DEF Unroute, wireVars, csm, device
    <3>4. QED BY <3>2, <3>3
  <2>3. CASE c # UNBIND_SENTINEL
    <3>1. Send(FormatRoute(o, InputIndex(c))) /\ InputIndex(c) \in Inputs
      BY <1>6, <2>3, InputNumbers DEF SelectAudioDevice, Route
    <3>2. QED BY <2>1, <3>1, SendShape, CommandsKnown
  <2>4. QED BY <2>2, <2>3
<1>7. ASSUME NEW n \in 1 .. Len(stream), ReceivedFromNetwork(n) PROVE WireShape'
  <2> DEFINE text == statusBuffer \o SubSeq(stream, 1, n)
  <2>1. SubSeq(stream, 1, n) \in Seq(ReplyLine) /\ stream' \in Seq(ReplyLine)
    BY <1>7 DEF ReceivedFromNetwork, OnReceived, WireShape
  <2>2. text \in Seq(ReplyLine)
    BY <2>1, ConcatProperties DEF WireShape
  <2>3. statusBuffer' = <<>> \/ statusBuffer' = Kept(text)
    BY <1>7 DEF ReceivedFromNetwork
  <2>4. Pump(state, queue, StillInFlight(n))
    BY <1>7 DEF ReceivedFromNetwork, OnReceived
  <2>5. queue' \in Seq(DriverCommand) /\ inbox' \in Seq(DriverCommand)
    BY <2>4, PumpShape DEF WireShape
  <2> HIDE DEF text
  <2>6. statusBuffer' \in Seq(ReplyLine)
    BY <2>2, <2>3, KeptShape, EmptyIsSeq
  <2>7. QED BY <2>1, <2>5, <2>6 DEF WireShape
<1>8. CASE ConnectionAlone
  <2>1. UNCHANGED statusBuffer
    BY <1>8 DEF ConnectionAlone, shell
  <2>2. CASE StatusOnline
    <3>1. CASE state = "ONLINE"
      BY <1>1, <2>1, <2>2, <3>1 DEF StatusOnline, csm, device
    <3>2. CASE state # "ONLINE"
      <4>1. Pump("ONLINE", INIT_SEQUENCE \o queue, FALSE) /\ UNCHANGED stream
        BY <2>2, <3>2 DEF StatusOnline, PrependInitSequence
      <4>2. INIT_SEQUENCE \o queue \in Seq(DriverCommand)
        BY CommandsKnown, ConcatProperties DEF WireShape
      <4>3. queue' \in Seq(DriverCommand) /\ inbox' \in Seq(DriverCommand)
        BY <4>1, <4>2, PumpShape
      <4>4. QED BY <2>1, <4>1, <4>3 DEF WireShape
    <3>3. QED BY <3>1, <3>2
  <2>3. CASE StatusOffline \/ ReconnectTimerFires \/ NetFails \/ NetReportsOfflineAgain
    BY <1>1, <2>1, <2>3
    DEF StatusOffline, ReconnectTimerFires, NetFails, NetReportsOfflineAgain, csm, device
  <2>4. CASE NetOpens \/ NetDrops
    BY <1>2, <2>1, <2>4 DEF NetOpens, NetDrops, csm
  <2>5. QED BY <1>8, <2>2, <2>3, <2>4 DEF ConnectionAlone
<1>9. CASE MatrixAnswers
  <2> DEFINE reply == IF Head(inbox) = StatusCommand THEN Report(matrix)
                      ELSE << <<"text">> >>
  <2>1. /\ inbox # <<>> /\ inbox' = Tail(inbox) /\ stream' = stream \o reply
        /\ UNCHANGED <<queue, statusBuffer>>
    BY <1>9 DEF MatrixAnswers, DeviceAnswers, csm, shell
  <2>2. Report(matrix) \in Seq(ReplyLine)
    BY OutputsAreNumbered, ReportLines DEF MatrixShape
  <2>3. << <<"text">> >> \in Seq(ReplyLine)
    BY DEF ReplyLine
  <2>4. reply \in Seq(ReplyLine)
    BY <2>2, <2>3
  <2> HIDE DEF reply
  <2>5. stream' \in Seq(ReplyLine)
    BY <2>1, <2>4, ConcatProperties DEF WireShape
  <2>6. inbox' \in Seq(DriverCommand)
    BY <2>1 DEF WireShape
  <2>7. QED BY <2>1, <2>5, <2>6 DEF WireShape
<1>10. CASE ClockTicks \/ UNCHANGED driverVars
            \/ \E o \in Outputs, i \in Inputs \cup {0} : OutOfBandChange(o, i)
  BY <1>1, <1>10 DEF ClockTicks, OutOfBandChange, driverVars, connVars, wireVars, csm,
     device, shell
<1>11. QED BY <1>3, <1>4, <1>5, <1>6, <1>7, <1>8, <1>9, <1>10 DEF DriverNext

(* Nor does any move the matrix off a routing, or rewrite its past.        *)
LEMMA MatrixShapeStep ==
    ASSUME WireShape, MatrixShape, outOfBand \in 0 .. MaxOutOfBand,
           [DriverNext]_driverVars
    PROVE  /\ MatrixShape' /\ matrixHad \subseteq matrixHad'
           /\ outOfBand' \in 0 .. MaxOutOfBand
<1>1. CASE UNCHANGED truth
  BY <1>1 DEF truth, MatrixShape
<1>2. CASE MatrixAnswers
  <2>1. inbox # <<>> /\ MatrixBecomes(Obeyed(Head(inbox))) /\ UNCHANGED outOfBand
    BY <1>2 DEF MatrixAnswers
  <2>2. Head(inbox) \in DriverCommand
    BY <2>1 DEF WireShape
  <2>3. Obeyed(Head(inbox)) \in Routing
    BY <2>2, ObeyedIsRouting DEF MatrixShape
  <2>4. QED BY <2>1, <2>3, MatrixStep
<1>3. ASSUME NEW o \in Outputs, NEW i \in Inputs \cup {0}, OutOfBandChange(o, i)
      PROVE  /\ MatrixShape' /\ matrixHad \subseteq matrixHad'
             /\ outOfBand' \in 0 .. MaxOutOfBand
  <2>1. MatrixBecomes([matrix EXCEPT ![o] = i])
    BY <1>3 DEF OutOfBandChange
  <2>2. [matrix EXCEPT ![o] = i] \in Routing
    BY DEF MatrixShape, Routing
  <2>3. outOfBand' \in 0 .. MaxOutOfBand
    BY <1>3, DriverAssumption DEF OutOfBandChange
  <2>4. QED BY <2>1, <2>2, <2>3, MatrixStep
<1>4. QED
  BY <1>1, <1>2, <1>3
  DEF DriverNext, DriverLateInit, DriverUnloads, PollTimerFires, RefreshNow,
      SelectAudioDevice, ReceivedFromNetwork, ConnectionAlone, ClockTicks, driverVars

\* What the driver shows and believes.
ViewTypes ==
    /\ TrackerTypeOK
    /\ rooms \in [OutputBindings -> InputBindings]

(* The belief and the Rooms keep their types, whatever a poll says.        *)
LEMMA ViewTypesStep ==
    ASSUME WireShape, ViewTypes, [DriverNext]_driverVars
    PROVE  ViewTypes'
<1>1. CASE UNCHANGED <<trackerVars, rooms>>
  <2>1. TrackerTypeOK'
    BY <1>1 DEF ViewTypes, TrackerTypeOK, trackerVars
  <2>2. QED BY <1>1, <2>1 DEF ViewTypes
<1>2. ASSUME NEW b \in OutputBindings, NEW c \in InputBindings, SelectAudioDevice(b, c)
      PROVE  ViewTypes'
  <2> DEFINE o == OutputIndex(b)
  <2>1. /\ o \in Outputs
        /\ rooms' = [rooms EXCEPT ![b] = c]
    BY <1>2, OutputNumbers DEF SelectAudioDevice
  <2>2. rooms' \in [OutputBindings -> InputBindings]
    BY <2>1 DEF ViewTypes
  <2>3. UNCHANGED trackerVars \/ \E i \in Inputs \cup {0} : NoteCommand(o, i)
    <3>1. CASE c = UNBIND_SENTINEL
      BY <1>2, <3>1 DEF SelectAudioDevice, Unroute
    <3>2. CASE c # UNBIND_SENTINEL
      <4>1. NoteCommand(o, InputIndex(c)) /\ InputIndex(c) \in Inputs
        BY <1>2, <3>2, InputNumbers DEF SelectAudioDevice, Route
      <4>2. QED BY <4>1
    <3>3. QED BY <3>1, <3>2
  <2>4. TrackerTypeOK'
    <3>1. CASE UNCHANGED trackerVars
      BY <3>1 DEF ViewTypes, TrackerTypeOK, trackerVars
    <3>2. ASSUME NEW i \in Inputs \cup {0}, NoteCommand(o, i) PROVE TrackerTypeOK'
      BY <3>2, <2>1, TrackerAssumption DEF ViewTypes, TrackerTypeOK, Routing, NoteCommand
    <3>3. QED BY <2>3, <3>1, <3>2
  <2>5. QED BY <2>1, <2>2, <2>4 DEF ViewTypes
<1>3. ASSUME NEW n \in 1 .. Len(stream), ReceivedFromNetwork(n) PROVE ViewTypes'
  <2> DEFINE text == statusBuffer \o SubSeq(stream, 1, n)
             polled == CollapseRouting(LuaParse(text).routing, Outputs)
  <2>2. CASE UNCHANGED <<trackerVars, rooms>>
    BY <1>1, <2>2
  <2>3. CASE OnStatus(LuaParse(text).routing)
    <3>1. SubSeq(stream, 1, n) \in Seq(ReplyLine)
      BY DEF WireShape
    <3>2. text \in Seq(ReplyLine)
      BY <3>1, ConcatProperties DEF WireShape
    <3>3. polled \in Routing
      BY <3>2, PollsAreRoutings
    <3>4. /\ UNCHANGED sinceCommand
          /\ routing' = [o \in Outputs |->
                            IF o \in Changes(polled) THEN polled[o] ELSE routing[o]]
          /\ rooms' = [b \in OutputBindings |->
                          IF OutputIndex(b) \in Changes(polled)
                          THEN InputBinding(polled[OutputIndex(b)]) ELSE rooms[b]]
      BY <2>3 DEF OnStatus, Reconcile
    <3> HIDE DEF polled, text
    <3>5. TrackerTypeOK'
      BY <3>3, <3>4 DEF ViewTypes, TrackerTypeOK, Routing
    <3>6. rooms' \in [OutputBindings -> InputBindings]
      BY <3>3, <3>4, OutputNumbers, InputNumbers DEF ViewTypes, Routing
    <3>7. QED BY <3>5, <3>6 DEF ViewTypes
  <2>4. QED BY <1>3, <2>2, <2>3 DEF ReceivedFromNetwork
<1>4. CASE ClockTicks
  <2>1. TrackerTypeOK'
    BY <1>4, TrackerAssumption DEF ClockTicks, Tick, IsLocked, ViewTypes, TrackerTypeOK
  <2>2. QED BY <1>4, <2>1 DEF ClockTicks, ViewTypes, shell
<1>5. QED
  BY <1>1, <1>2, <1>3, <1>4
  DEF DriverNext, DriverLateInit, DriverUnloads, PollTimerFires, RefreshNow,
      ConnectionAlone, MatrixAnswers, OutOfBandChange, shell, driverVars

(* A timer is counted down only if it runs.                                *)
LEMMA TimerStep ==
    ASSUME TimerShape, [DriverNext]_driverVars PROVE TimerShape'
<1> USE DEF TimerShape
<1>1. CASE UNCHANGED poller
  BY <1>1 DEF poller
<1>2. ASSUME polling' \in BOOLEAN, NEW t \in BOOLEAN, NEW n \in Nat, t => n > 0, Arm(t, n)
      PROVE  TimerShape'
  BY <1>2 DEF Arm
<1>3. CASE DriverLateInit
  <2>1. CASE polling' = TRUE /\ Arm(pollTimer, pollTimers)
    <3>1. CASE pollTimer
      BY <2>1, <3>1 DEF Arm
    <3>2. CASE ~pollTimer
      BY <2>1, <3>2 DEF Arm
    <3>3. QED BY <3>1, <3>2
  <2>2. UNCHANGED poller \/ (polling' = TRUE /\ Arm(pollTimer, pollTimers))
    BY <1>3 DEF DriverLateInit, StartPolling
  <2> HIDE DEF TimerShape
  <2>3. QED BY <1>1, <2>1, <2>2
<1>4. CASE DriverUnloads
  <2>1. /\ polling' = FALSE /\ pollTimer' = FALSE
        /\ pollTimers' = IF pollTimer THEN pollTimers - 1 ELSE pollTimers
    BY <1>4 DEF DriverUnloads, StopPolling
  <2>2. pollTimers' \in Nat
    <3>1. CASE pollTimer
      BY <2>1, <3>1
    <3>2. CASE ~pollTimer
      BY <2>1, <3>2
    <3>3. QED BY <3>1, <3>2
  <2>3. QED BY <2>1, <2>2
<1>5. CASE PollTimerFires
  <2>1. polling' \in BOOLEAN /\ pollTimers - 1 \in Nat
    BY <1>5 DEF PollTimerFires
  <2>2. CASE Arm(FALSE, pollTimers - 1)
    BY <1>2, <2>1, <2>2
  <2>3. CASE pollTimer' = FALSE /\ pollTimers' = pollTimers - 1
    BY <2>1, <2>3
  <2>4. QED BY <1>5, <2>2, <2>3 DEF PollTimerFires
<1>6. CASE RefreshNow
  BY <1>1, <1>2, <1>6 DEF RefreshNow, poller
<1>7. QED
  BY <1>1, <1>3, <1>4, <1>5, <1>6
  DEF DriverNext, SelectAudioDevice, ReceivedFromNetwork, ConnectionAlone, ClockTicks,
      MatrixAnswers, OutOfBandChange, shell, driverVars

(* At first no one has asked for anything.                                 *)
LEMMA DriverStarts == DriverInit => DriverShape
<1> SUFFICES ASSUME DriverInit PROVE DriverShape
  OBVIOUS
<1>1. WireShape
  BY EmptyIsSeq DEF DriverInit, ConnInit, WireInit, WireShape
<1>2. MatrixShape
  BY DEF DriverInit, MatrixShape, Routing
<1>3. TrackerTypeOK
  BY TrackerAssumption DEF DriverInit, TrackerInit, TrackerTypeOK, Routing
<1>4. rooms \in [OutputBindings -> InputBindings] /\ TimerShape
  BY InputNumbers DEF DriverInit, TimerShape
<1>5. outOfBand \in 0 .. MaxOutOfBand
  BY DriverAssumption DEF DriverInit
<1>6. statusBuffer \in Seq(Line)
  BY EmptyIsSeq DEF DriverInit
<1>7. QED
  BY <1>1, <1>2, <1>3, <1>4, <1>5, <1>6
  DEF DriverShape, DriverTypeOK, MatrixShape, TimerShape

(* All of it is kept by every step.                                        *)
LEMMA DriverShapeStep ==
    ASSUME DriverShape, [DriverNext]_driverVars
    PROVE  DriverShape' /\ matrixHad \subseteq matrixHad'
<1>1. ViewTypes /\ TimerShape /\ WireShape /\ MatrixShape /\ outOfBand \in 0 .. MaxOutOfBand
  BY DEF DriverShape, DriverTypeOK, ViewTypes
<1>2. WireShape'
  BY <1>1, WireShapeStep DEF ViewTypes
<1>3. /\ MatrixShape' /\ matrixHad \subseteq matrixHad'
      /\ outOfBand' \in 0 .. MaxOutOfBand
  BY <1>1, MatrixShapeStep
<1>4. ViewTypes' /\ TimerShape'
  BY <1>1, ViewTypesStep, TimerStep
<1>5. statusBuffer' \in Seq(Line)
  BY <1>2, LineAssumption, SeqMonotonic DEF WireShape
<1>6. QED
  BY <1>2, <1>3, <1>4, <1>5
  DEF DriverShape, DriverTypeOK, ViewTypes, MatrixShape, TimerShape

(* So it always holds.                                                     *)
LEMMA ShapeIsKept == DriverSpec => []DriverShape
<1>1. DriverShape /\ [DriverNext]_driverVars => DriverShape'
  BY DriverShapeStep
<1>2. QED BY <1>1, DriverStarts, PTL DEF DriverSpec

(* Every variable of the driver keeps its type: a poll, however cut, never *)
(* makes it believe, show or ask for what the matrix has not got           *)
(* (proxy_handler.lua:120-172, polling_coordinator.lua:155-175).           *)
THEOREM DriverTypeCorrect == DriverSpec => []DriverTypeOK
<1>1. DriverShape => DriverTypeOK
  BY DEF DriverShape
<1>2. QED BY <1>1, ShapeIsKept, PTL

-----------------------------------------------------------------------------
(* The driver uses the connection: every step of it is one that the        *)
(* connection allows whoever uses it, or leaves the connection alone.      *)
LEMMA DriverStepIsWireStep ==
    ASSUME DriverShape, [DriverNext]_driverVars
    PROVE  [WireNext]_wireVars
<1>1. \A cmd \in DriverCommand : cmd \in Command
  BY UseAssumption DEF DriverCommand, Command
<1>2. ASSUME NEW cmd \in DriverCommand, Send(cmd) PROVE WireNext
  BY <1>1, <1>2 DEF WireNext
<1>3. CASE DriverLateInit \/ DriverUnloads
  BY <1>3 DEF DriverLateInit, DriverUnloads, WireNext
<1>4. CASE PollTimerFires \/ RefreshNow
  BY <1>2, <1>4, CommandsKnown DEF PollTimerFires, RefreshNow, RefreshMatrixState
<1>5. ASSUME NEW b \in OutputBindings, NEW c \in InputBindings, SelectAudioDevice(b, c)
      PROVE  [WireNext]_wireVars
  <2> DEFINE o == OutputIndex(b)
  <2>1. o \in Outputs /\ routing[o] \in Inputs \cup {0}
    BY OutputNumbers DEF DriverShape, DriverTypeOK, TrackerTypeOK, Routing
  <2>2. CASE c = UNBIND_SENTINEL
    <3>1. Unroute(o)
      BY <1>5, <2>2 DEF SelectAudioDevice
    <3>2. CASE routing[o] # 0
      BY <1>2, <2>1, <3>1, <3>2, CommandsKnown DEF Unroute
    <3>3. CASE routing[o] = 0
      BY <3>1, <3>3 DEF Unroute
    <3>4. QED BY <3>2, <3>3
  <2>3. CASE c # UNBIND_SENTINEL
    <3>1. Send(FormatRoute(o, InputIndex(c))) /\ InputIndex(c) \in Inputs
      BY <1>5, <2>3, InputNumbers DEF SelectAudioDevice, Route
    <3>2. QED BY <1>2, <2>1, <3>1, CommandsKnown
  <2>4. QED BY <2>2, <2>3
<1>6. ASSUME NEW n \in 1 .. Len(stream), ReceivedFromNetwork(n) PROVE WireNext
  <2>1. OnReceived(n) /\ n \in 0 .. Len(stream)
    BY <1>6 DEF ReceivedFromNetwork, OnReceived
  <2>2. QED BY <2>1 DEF WireNext
<1>7. CASE ConnectionAlone
  BY <1>7 DEF ConnectionAlone, WireNext
<1>8. CASE MatrixAnswers
  <2> DEFINE reply == IF Head(inbox) = StatusCommand THEN Report(matrix)
                      ELSE << <<"text">> >>
  <2>1. inbox # <<>> /\ DeviceAnswers(reply)
    BY <1>8 DEF MatrixAnswers
  <2>2. Head(inbox) \in Command /\ matrix \in Routing
    BY <1>1, <2>1 DEF DriverShape, WireShape, MatrixShape
  <2>3. reply \in Replies[Head(inbox)]
    BY <2>2, UseAssumption
  <2> HIDE DEF reply
  <2>4. QED BY <2>1, <2>3 DEF DeviceStep, WireNext
<1>9. CASE ClockTicks \/ UNCHANGED driverVars
           \/ \E o \in Outputs, i \in Inputs \cup {0} : OutOfBandChange(o, i)
  BY <1>9 DEF ClockTicks, OutOfBandChange, driverVars, connVars
<1>10. QED BY <1>3, <1>4, <1>5, <1>6, <1>7, <1>8, <1>9 DEF DriverNext

(* The whole driver implements the connection, used by its Rooms, its      *)
(* poll loop and Composer and answered by the matrix                       *)
(* (driver.lua:115-247, polling_coordinator.lua:89-136).                   *)
THEOREM DriverUsesTheConnection == DriverSpec => WireSpec
<1>1. DriverInit => WireInit
  BY DEF DriverInit, ConnInit
<1>2. DriverShape /\ [DriverNext]_driverVars => [WireNext]_wireVars
  BY DriverStepIsWireStep
<1>3. QED BY <1>1, <1>2, ShapeIsKept, PTL DEF DriverSpec, WireSpec

(* So the whole driver is never stranded off line, has one path back, lets *)
(* no command wait behind a free slot and is owed the release of a taken   *)
(* one (connection.lua:138-146, 183-248).                                  *)
THEOREM DriverKeepsTheLink ==
    DriverSpec => [](/\ NeverStranded /\ TimerOnlyWhileOffline
                     /\ NoIdleQueue /\ SlotWillBeReleased)
  BY DriverUsesTheConnection, WireIsSound, WireInvSays, PTL

(* In the whole driver too each command is written once, in the order in   *)
(* which Rooms and polls gave them, and the init sequence first in each    *)
(* session (connection.lua:123-146, 207-226).                              *)
THEOREM DriverIsFifo == DriverSpec => IsFifo
  BY DriverUsesTheConnection, WireIsFifo, PTL

(* And its backoff follows the reports of the link, one step at a time     *)
(* (connection.lua:186, 236-240).                                          *)
THEOREM DriverBacksOff == DriverSpec => BackoffFollowsTheLink
  BY DriverUsesTheConnection, WireBacksOff, PTL

-----------------------------------------------------------------------------
\* What is on the wire when chunks end between replies that list routings only:
\* lines that were true when they were sent, and of each reply that has begun, all
\* of its header and one row for each output.
TrueLine ==
    { <<"text">>, <<"header">>, <<"data">>, <<"matrix">> }
    \cup { RouteLine(pair[1], pair[2]) : pair \in matrixHad }

WholeReportAt(s, k) ==
    /\ k + 2 <= Len(s)
    /\ Kind(s[k + 1]) = "data" /\ Kind(s[k + 2]) = "matrix"
    /\ \A o \in Outputs :
          k + 2 + o <= Len(s) /\ \E i \in Inputs \cup {0} : s[k + 2 + o] = RouteLine(o, i)

ReportsIn(s) ==
    \A k \in 1 .. Len(s) : Kind(s[k]) = "header" => WholeReportAt(s, k)

WireIsTrue ==
    /\ statusBuffer = <<>>
    /\ stream \in Seq(TrueLine)
    /\ ReportsIn(stream)

(* A true line is a row of a pair that the matrix had, or a title.         *)
LEMMA TrueLines ==
    ASSUME MatrixShape, NEW line \in TrueLine
    PROVE  \/ Kind(line) \in {"text", "header", "data", "matrix"}
           \/ \E o \in Outputs, i \in Inputs \cup {0} :
                 line = RouteLine(o, i) /\ <<o, i>> \in matrixHad
<1>1. CASE line \in { <<"text">>, <<"header">>, <<"data">>, <<"matrix">> }
  BY <1>1 DEF Kind
<1>2. ASSUME NEW pair \in matrixHad, line = RouteLine(pair[1], pair[2])
      PROVE  \E o \in Outputs, i \in Inputs \cup {0} :
                line = RouteLine(o, i) /\ <<o, i>> \in matrixHad
  <2>1. pair \in Outputs \X (Inputs \cup {0})
    BY DEF MatrixShape
  <2>2. /\ pair[1] \in Outputs /\ pair[2] \in Inputs \cup {0}
        /\ pair = <<pair[1], pair[2]>>
    BY <2>1
  <2>3. QED BY <1>2, <2>2
<1>3. QED BY <1>1, <1>2 DEF TrueLine

(* A row says which output it is of, and which input feeds it.             *)
LEMMA RowsSay ==
    ASSUME NEW o \in Outputs, NEW i \in Inputs \cup {0}
    PROVE  Kind(RouteLine(o, i)) = "route" /\ LuaRoute(RouteLine(o, i)) = <<o, "L", i>>
  BY ReplyColumns DEF RouteLine, LuaRoute, Kind

(* A whole reply reads the same wherever its lines stand.                  *)
LEMMA ReportEnds ==
    ASSUME NEW m \in Nat, m > 0, Outputs = 1 .. m,
           NEW s, Len(s) \in Nat, NEW k \in Nat, WholeReportAt(s, k)
    PROVE  /\ k + 2 + m <= Len(s)
           /\ \A x \in 1 .. 2 + m : Kind(s[k + x]) \in {"data", "matrix", "route"}
<1>1. /\ k + 2 <= Len(s) /\ Kind(s[k + 1]) = "data" /\ Kind(s[k + 2]) = "matrix"
      /\ \A o \in 1 .. m : k + 2 + o <= Len(s)
      /\ \A o \in 1 .. m : \E i \in Inputs \cup {0} : s[k + 2 + o] = RouteLine(o, i)
  BY DEF WholeReportAt
<1>2. k + 2 + m <= Len(s)
  <2>1. m \in 1 .. m
    OBVIOUS
  <2>2. QED BY <1>1, <2>1
<1>3. ASSUME NEW x \in 1 .. 2 + m PROVE Kind(s[k + x]) \in {"data", "matrix", "route"}
  <2>1. CASE x = 1 \/ x = 2
    BY <1>1, <2>1
  <2>2. CASE x > 2
    <3>1. x - 2 \in 1 .. m /\ k + 2 + (x - 2) = k + x
      BY <2>2
    <3>2. PICK i \in Inputs \cup {0} : s[k + 2 + (x - 2)] = RouteLine(x - 2, i)
      BY <1>1, <3>1
    <3>3. QED BY <3>1, <3>2, RowsSay
  <2>3. QED BY <2>1, <2>2
<1>4. QED BY <1>2, <1>3

\* t has after l what s has after k, for m lines.
SameLines(s, k, t, l, m) == \A x \in 1 .. m : t[l + x] = s[k + x]

(* Moved with its text, it is a whole reply still.                         *)
LEMMA ReportMoves ==
    ASSUME NEW m \in Nat, m > 0, Outputs = 1 .. m,
           NEW s, NEW k \in Nat, WholeReportAt(s, k),
           NEW t, NEW l \in Nat, l + 2 + m <= Len(t), Len(t) \in Nat,
           SameLines(s, k, t, l, 2 + m)
    PROVE  WholeReportAt(t, l)
<1>0. \A x \in 1 .. 2 + m : t[l + x] = s[k + x]
  BY DEF SameLines
<1>1. /\ Kind(s[k + 1]) = "data" /\ Kind(s[k + 2]) = "matrix"
      /\ \A o \in 1 .. m : \E i \in Inputs \cup {0} : s[k + 2 + o] = RouteLine(o, i)
  BY DEF WholeReportAt
<1>2. t[l + 1] = s[k + 1] /\ t[l + 2] = s[k + 2] /\ l + 2 <= Len(t)
  BY <1>0
<1>3. ASSUME NEW o \in 1 .. m
      PROVE  /\ l + 2 + o <= Len(t)
             /\ \E i \in Inputs \cup {0} : t[l + 2 + o] = RouteLine(o, i)
  <2>1. PICK x \in 1 .. 2 + m : x = 2 + o
    OBVIOUS
  <2>2. l + x = l + 2 + o
    BY <2>1
  <2>3. k + x = k + 2 + o
    BY <2>1
  <2>4. t[l + x] = s[k + x]
    BY <1>0
  <2>5. t[l + 2 + o] = s[k + 2 + o]
    BY <2>2, <2>3, <2>4
  <2>6. l + 2 + o <= Len(t)
    OBVIOUS
  <2>7. QED BY <1>1, <2>5, <2>6
<1>4. QED BY <1>1, <1>2, <1>3 DEF WholeReportAt

(* A chunk that ends where no reply goes on takes whole replies and leaves *)
(* whole replies.                                                          *)
LEMMA ChunksTakeWholeReports ==
    ASSUME NEW S, NEW s \in Seq(S), ReportsIn(s), NEW n \in 1 .. Len(s),
           n < Len(s) => Kind(s[n + 1]) \notin {"data", "matrix", "route"}
    PROVE  ReportsIn(SubSeq(s, 1, n)) /\ ReportsIn(SubSeq(s, n + 1, Len(s)))
<1>1. PICK m \in Nat : m > 0 /\ Outputs = 1 .. m
  BY OutputsAreNumbered
<1> DEFINE p == SubSeq(s, 1, n)
           q == SubSeq(s, n + 1, Len(s))
<1>2. Len(p) = n /\ \A k \in 1 .. n : p[k] = s[k]
  BY SubSeqProperties
<1>3. Len(q) = Len(s) - n /\ \A k \in 1 .. Len(s) - n : q[k] = s[n + k]
  BY SubSeqProperties
<1> HIDE DEF p, q
<1>4. ASSUME NEW k \in 1 .. n, Kind(p[k]) = "header" PROVE WholeReportAt(p, k)
  <2>1. WholeReportAt(s, k) /\ k \in Nat /\ Len(s) \in Nat
    BY <1>2, <1>4 DEF ReportsIn
  <2>2. /\ k + 2 + m <= Len(s)
        /\ \A x \in 1 .. 2 + m : Kind(s[k + x]) \in {"data", "matrix", "route"}
    BY <1>1, <2>1, ReportEnds
  <2>3. k + 2 + m <= n
    <3>1. SUFFICES ASSUME n < k + 2 + m PROVE FALSE
      OBVIOUS
    <3>2. n < Len(s) /\ n + 1 - k \in 1 .. 2 + m /\ k + (n + 1 - k) = n + 1
      BY <2>2, <3>1
    <3>3. QED BY <2>2, <3>2
  <2>4. SameLines(s, k, p, k, 2 + m) /\ Len(p) \in Nat /\ k + 2 + m <= Len(p)
    BY <1>2, <2>1, <2>3 DEF SameLines
  <2>5. QED BY <1>1, <1>2, <2>1, <2>3, <2>4, ReportMoves
<1>5. ASSUME NEW k \in 1 .. Len(q), Kind(q[k]) = "header" PROVE WholeReportAt(q, k)
  <2>1. n + k \in 1 .. Len(s) /\ WholeReportAt(s, n + k)
    BY <1>3, <1>5 DEF ReportsIn
  <2>2. k + 2 + m <= Len(q)
    <3>1. n + k \in Nat /\ Len(s) \in Nat
      BY <1>3
    <3>2. (n + k) + 2 + m <= Len(s)
      BY <1>1, <2>1, <3>1, ReportEnds
    <3>3. QED BY <1>3, <3>2
  <2>3. ASSUME NEW x \in 1 .. 2 + m PROVE q[k + x] = s[(n + k) + x]
    <3>1. k + x \in 1 .. Len(s) - n /\ n + (k + x) = (n + k) + x
      BY <1>3, <2>2
    <3>2. QED BY <1>3, <3>1
  <2>4. SameLines(s, n + k, q, k, 2 + m)
    BY <2>3 DEF SameLines
  <2>5. Len(q) \in Nat
    BY <1>3
  <2>6. QED BY <1>1, <2>1, <2>2, <2>4, <2>5, ReportMoves
<1>6. QED BY <1>2, <1>3, <1>4, <1>5 DEF ReportsIn, p, q

(* Whole replies after whole replies are whole replies.                    *)
LEMMA RepliesFollow ==
    ASSUME NEW S, NEW s \in Seq(S), NEW t \in Seq(S), ReportsIn(s), ReportsIn(t)
    PROVE  ReportsIn(s \o t)
<1>1. PICK m \in Nat : m > 0 /\ Outputs = 1 .. m
  BY OutputsAreNumbered
<1> DEFINE u == s \o t
<1>2. /\ Len(u) = Len(s) + Len(t) /\ Len(s) \in Nat /\ Len(t) \in Nat
      /\ \A k \in 1 .. Len(s) : u[k] = s[k]
      /\ \A k \in 1 .. Len(t) : u[Len(s) + k] = t[k]
  BY ConcatProperties
<1> HIDE DEF u
<1>3. ASSUME NEW k \in 1 .. Len(s), Kind(s[k]) = "header" PROVE WholeReportAt(u, k)
  <2>1. WholeReportAt(s, k) /\ k \in Nat
    BY <1>2, <1>3 DEF ReportsIn
  <2>2. k + 2 + m <= Len(s)
    BY <1>1, <1>2, <2>1, ReportEnds
  <2>3. SameLines(s, k, u, k, 2 + m)
    <3>1. \A x \in 1 .. 2 + m : k + x \in 1 .. Len(s)
      BY <1>2, <2>2
    <3>2. QED BY <1>2, <3>1 DEF SameLines
  <2>4. k + 2 + m <= Len(u) /\ Len(u) \in Nat
    BY <1>2, <2>2
  <2>5. QED BY <1>1, <1>2, <2>1, <2>3, <2>4, ReportMoves
<1>4. ASSUME NEW k \in 1 .. Len(t), Kind(t[k]) = "header"
      PROVE  WholeReportAt(u, Len(s) + k)
  <2>1. WholeReportAt(t, k) /\ k \in Nat
    BY <1>2, <1>4 DEF ReportsIn
  <2>2. k + 2 + m <= Len(t)
    BY <1>1, <1>2, <2>1, ReportEnds
  <2>3. ASSUME NEW x \in 1 .. 2 + m PROVE u[(Len(s) + k) + x] = t[k + x]
    <3>1. k + x \in 1 .. Len(t) /\ Len(s) + (k + x) = (Len(s) + k) + x
      BY <1>2, <2>2
    <3>2. QED BY <1>2, <3>1
  <2>4. /\ (Len(s) + k) + 2 + m <= Len(u) /\ Len(u) \in Nat
        /\ Len(s) + k \in Nat
    BY <1>2, <2>2
  <2>5. SameLines(t, k, u, Len(s) + k, 2 + m)
    BY <2>3 DEF SameLines
  <2>6. QED BY <1>1, <2>1, <2>4, <2>5, ReportMoves
<1>5. ASSUME NEW k \in 1 .. Len(s) + Len(t), Kind(u[k]) = "header"
      PROVE  WholeReportAt(u, k)
  <2>1. CASE k <= Len(s)
    BY <1>2, <1>3, <1>5, <2>1
  <2>2. CASE k > Len(s)
    <3>1. k - Len(s) \in 1 .. Len(t) /\ Len(s) + (k - Len(s)) = k
      BY <1>2, <2>2
    <3>2. Kind(t[k - Len(s)]) = "header"
      BY <1>2, <1>5, <3>1
    <3>3. QED BY <1>4, <3>1, <3>2
  <2>3. QED BY <1>2, <2>1, <2>2
<1>6. QED BY <1>2, <1>5 DEF ReportsIn, u

-----------------------------------------------------------------------------
(* Of a text with no header, the driver keeps nothing and learns nothing.  *)
LEMMA NoHeaderNoNews ==
    ASSUME NEW S, NEW text \in Seq(S), \A k \in 1 .. Len(text) : Kind(text[k]) # "header"
    PROVE  LuaParse(text).routing = <<>> /\ Kept(text) = <<>>
<1>1. After(text, "header") = <<>>
  BY AfterTitle
<1>2. ~LuaReadable(text)
  BY <1>1 DEF LuaReadable, SystemLine
<1>3. OfKind(text, {"header"}) = {}
  BY DEF OfKind
<1>4. QED BY <1>2, <1>3 DEF LuaParse, Kept

(* With a header there are whole replies: every output has a true row.     *)
LEMMA WholeReportsAreTrue ==
    ASSUME MatrixShape, NEW text \in Seq(TrueLine), ReportsIn(text),
           NEW h \in 1 .. Len(text), Kind(text[h]) = "header"
    PROVE  LET rows == LuaParse(text).routing IN
           /\ rows # <<>>
           /\ \A o \in Outputs : <<o, CollapseRouting(rows, Outputs)[o]>> \in matrixHad
<1> DEFINE rest == After(text, "matrix")
           rows == LuaRouting(text)
<1>1. LuaReadable(text)
  <2>1. PICK k \in 1 .. Len(text) :
           /\ Kind(text[k]) = "header"
           /\ After(text, "header") = SubSeq(text, k + 1, Len(text))
    BY AfterTitle
  <2>2. k + 2 <= Len(text) /\ Kind(text[k + 1]) = "data"
    BY <2>1 DEF ReportsIn, WholeReportAt
  <2>3. /\ Len(SubSeq(text, k + 1, Len(text))) = Len(text) - k
        /\ SubSeq(text, k + 1, Len(text))[1] = text[k + 1]
    BY <2>2, SubSeqProperties
  <2>4. After(text, "header") # <<>> /\ Kind(After(text, "header")[1]) = "data"
    <3>1. Len(After(text, "header")) > 0
      BY <2>1, <2>2, <2>3
    <3>2. After(text, "header")[1] = text[k + 1]
      BY <2>1, <2>3
    <3>3. QED BY <2>2, <3>1, <3>2, EmptyIsSeq
  <2>5. QED BY <2>4 DEF LuaReadable, SystemLine
<1>2. LuaParse(text).routing = rows
  BY <1>1 DEF LuaParse
<1>3. rest \in Seq(TrueLine)
  BY AfterLines
<1>4. /\ DOMAIN rows =
            { k \in 1 .. Len(rest) : Kind(rest[k]) \in {"route", "outset", "outeq"} }
      /\ \A k \in DOMAIN rows : rows[k] = LuaRoute(rest[k])
  <2>1. DOMAIN rest = 1 .. Len(rest)
    BY <1>3
  <2>2. /\ DOMAIN rows =
              { k \in DOMAIN rest : Kind(rest[k]) \in {"route", "outset", "outeq"} }
        /\ \A k \in DOMAIN rows : rows[k] = LuaRoute(rest[k])
    BY LuaRows, Zenon
  <2> HIDE DEF rows, rest
  <2>3. QED BY <2>1, <2>2
<1> HIDE DEF rows, rest
<1>5. ASSUME NEW k \in DOMAIN rows
      PROVE  \E o \in Outputs, i \in Inputs \cup {0} :
                rows[k] = <<o, "L", i>> /\ <<o, i>> \in matrixHad
  <2>1. rest[k] \in TrueLine /\ Kind(rest[k]) \in {"route", "outset", "outeq"}
    BY <1>3, <1>4
  <2>2. PICK o \in Outputs, i \in Inputs \cup {0} :
           rest[k] = RouteLine(o, i) /\ <<o, i>> \in matrixHad
    BY <2>1, TrueLines
  <2>3. rows[k] = <<o, "L", i>>
    BY <1>4, <2>2, RowsSay
  <2>4. QED BY <2>2, <2>3
<1>6. ASSUME NEW o \in Outputs
      PROVE  \E k \in DOMAIN rows : rows[k][1] = o /\ rows[k][2] = "L"
  <2>1. /\ h + 2 \in 1 .. Len(text) /\ Kind(text[h + 2]) = "matrix"
        /\ h + 2 + o <= Len(text) /\ o \in Nat /\ o > 0
    BY OutputsAreNumbered DEF ReportsIn, WholeReportAt
  <2>2. PICK i \in Inputs \cup {0} : text[h + 2 + o] = RouteLine(o, i)
    BY DEF ReportsIn, WholeReportAt
  <2>3. h + 2 + o \in 1 .. Len(text) /\ h + 2 < h + 2 + o
    BY <2>1
  <2>4. PICK k \in 1 .. Len(rest) : rest[k] = RouteLine(o, i)
    BY <2>1, <2>2, <2>3, AfterLines DEF rest
  <2>5. k \in DOMAIN rows /\ rows[k] = <<o, "L", i>>
    BY <1>4, <2>4, RowsSay
  <2>6. QED BY <2>5
<1>7. rows # <<>>
  <2>1. 1 \in Outputs
    BY OutputsAreNumbered
  <2>2. DOMAIN rows # {}
    BY <1>6, <2>1
  <2>3. QED BY <2>2
<1>8. ASSUME NEW o \in Outputs
      PROVE  <<o, CollapseRouting(rows, Outputs)[o]>> \in matrixHad
  <2>1. DOMAIN rows \subseteq 1 .. Len(rest) /\ Len(rest) \in Nat
    BY <1>3, <1>4
  <2>2. PICK k \in DOMAIN rows :
           rows[k][1] = o /\ CollapseRouting(rows, Outputs)[o] = rows[k][3]
    BY <1>6, <2>1, CollapseTakesTheLast
  <2>3. PICK p \in Outputs, i \in Inputs \cup {0} :
           rows[k] = <<p, "L", i>> /\ <<p, i>> \in matrixHad
    BY <1>5
  <2>4. QED BY <2>2, <2>3
<1>9. QED BY <1>2, <1>7, <1>8

(* What the matrix answers is true when it is sent.                        *)
LEMMA AnswersAreTrue ==
    ASSUME ~FullReports, MatrixShape, NEW reply \in { Report(matrix), << <<"text">> >> }
    PROVE  reply \in Seq(TrueLine) /\ ReportsIn(reply)
<1>1. PICK m \in Nat : m > 0 /\ Outputs = 1 .. m
  BY OutputsAreNumbered
<1>2. CASE reply = << <<"text">> >>
  <2>1. Len(reply) = 1 /\ reply[1] = <<"text">> /\ <<"text">> \in TrueLine
    BY <1>2 DEF TrueLine
  <2>2. reply \in Seq(TrueLine)
    BY <1>2, <2>1
  <2>3. QED BY <2>1, <2>2 DEF ReportsIn, Kind
<1>3. CASE reply = Report(matrix)
  <2>1. /\ reply \in Seq(ReplyLine) /\ Len(reply) = 3 + m
        /\ reply[1] = <<"header">> /\ reply[2] = <<"data">> /\ reply[3] = <<"matrix">>
        /\ \A o \in 1 .. m : reply[3 + o] = RouteLine(o, matrix[o])
    BY <1>1, <1>3, ReportLines DEF MatrixShape
  <2>2. ASSUME NEW o \in 1 .. m
        PROVE  /\ matrix[o] \in Inputs \cup {0}
               /\ RouteLine(o, matrix[o]) \in TrueLine
    <3>1. <<o, matrix[o]>> \in matrixHad /\ matrix[o] \in Inputs \cup {0}
      BY <1>1 DEF MatrixShape, Routing
    <3>2. \A pair \in matrixHad : RouteLine(pair[1], pair[2]) \in TrueLine
      BY Zenon DEF TrueLine
    <3>3. PICK pair \in matrixHad : pair = <<o, matrix[o]>>
      BY <3>1
    <3>4. RouteLine(pair[1], pair[2]) = RouteLine(o, matrix[o])
      BY <3>3
    <3>5. RouteLine(pair[1], pair[2]) \in TrueLine
      BY <3>2
    <3>6. QED BY <3>1, <3>4, <3>5
  <2>3. ASSUME NEW k \in 1 .. 3 + m PROVE reply[k] \in TrueLine
    <3>1. CASE k <= 3
      <4>1. k = 1 \/ k = 2 \/ k = 3
        BY <3>1
      <4>2. reply[1] \in TrueLine /\ reply[2] \in TrueLine /\ reply[3] \in TrueLine
        BY <2>1 DEF TrueLine
      <4>3. QED BY <4>1, <4>2
    <3>2. CASE k > 3
      <4>1. k - 3 \in 1 .. m /\ 3 + (k - 3) = k
        BY <3>2
      <4>2. reply[3 + (k - 3)] = RouteLine(k - 3, matrix[k - 3])
        BY <2>1, <4>1
      <4>3. QED BY <2>2, <4>1, <4>2
    <3>3. QED BY <3>1, <3>2
  <2>4. reply \in Seq(TrueLine)
    <3>1. reply \in [1 .. 3 + m -> ReplyLine]
      BY <2>1, LenProperties
    <3>2. reply \in [1 .. 3 + m -> TrueLine]
      BY <2>3, <3>1
    <3>3. QED BY <3>2, SeqDef
  <2>5. ASSUME NEW k \in 1 .. 3 + m, Kind(reply[k]) = "header" PROVE k = 1
    <3>1. CASE k = 2 \/ k = 3
      BY <2>1, <2>5, <3>1 DEF Kind
    <3>2. CASE k > 3
      <4>1. k - 3 \in 1 .. m /\ 3 + (k - 3) = k
        BY <3>2
      <4>2. reply[3 + (k - 3)] = RouteLine(k - 3, matrix[k - 3])
        BY <2>1, <4>1
      <4>3. Kind(reply[k]) = "route"
        BY <1>1, <2>2, <4>1, <4>2, RowsSay
      <4>4. QED BY <2>5, <4>3
    <3>3. QED BY <3>1, <3>2
  <2>6. WholeReportAt(reply, 1)
    <3>1. Kind(reply[1 + 1]) = "data" /\ Kind(reply[1 + 2]) = "matrix"
      BY <2>1 DEF Kind
    <3>2. \A o \in 1 .. m : reply[1 + 2 + o] = RouteLine(o, matrix[o])
      BY <2>1
    <3>3. QED BY <1>1, <2>1, <2>2, <3>1, <3>2 DEF WholeReportAt
  <2>7. QED BY <2>1, <2>4, <2>5, <2>6 DEF ReportsIn
<1>4. QED BY <1>2, <1>3

(* As the matrix's past grows, what was true stays true.                   *)
LEMMA TrueLinesStay ==
    ASSUME matrixHad \subseteq matrixHad', NEW s \in Seq(TrueLine)
    PROVE  s \in Seq(TrueLine')
<1>1. TrueLine \subseteq TrueLine'
  BY DEF TrueLine
<1>2. QED BY <1>1, SeqMonotonic

(* Where chunks are whole and replies list routings only, the wire stays   *)
(* true and no step leaves a part of a reply in the buffer.                *)
LEMMA WireIsTrueStep ==
    ASSUME WholeReports, ~FullReports, MatrixShape, matrixHad \subseteq matrixHad',
           WireIsTrue, [DriverNext]_driverVars
    PROVE  WireIsTrue'
<1>1. ASSUME NEW s \in Seq(TrueLine), ReportsIn(s), stream' = s, statusBuffer' = <<>>
      PROVE  WireIsTrue'
  BY <1>1, TrueLinesStay DEF WireIsTrue
<1>2. CASE UNCHANGED <<stream, statusBuffer>>
  BY <1>1, <1>2 DEF WireIsTrue
<1>3. CASE stream' = <<>> /\ (statusBuffer' = statusBuffer \/ statusBuffer' = <<>>)
  <2>1. ReportsIn(<<>>) /\ <<>> \in Seq(TrueLine)
    BY EmptyIsSeq DEF ReportsIn
  <2>2. QED BY <1>1, <1>3, <2>1 DEF WireIsTrue
<1>4. ASSUME NEW cmd, Send(cmd) PROVE stream' = stream
  BY <1>4 DEF Send
<1>5. CASE DriverLateInit \/ DriverUnloads
  BY <1>2, <1>3, <1>5 DEF DriverLateInit, LateInit, DriverUnloads, DriverDestroyed, device
<1>6. CASE PollTimerFires \/ RefreshNow
  BY <1>2, <1>4, <1>6
  DEF PollTimerFires, RefreshNow, RefreshMatrixState, wireVars, device
<1>7. ASSUME NEW b, NEW c, SelectAudioDevice(b, c) PROVE WireIsTrue'
  BY <1>2, <1>4, <1>7 DEF SelectAudioDevice, Route, Unroute, wireVars, device
<1>8. ASSUME NEW n \in 1 .. Len(stream), ReceivedFromNetwork(n) PROVE WireIsTrue'
  <2> DEFINE text == SubSeq(stream, 1, n)
             left == SubSeq(stream, n + 1, Len(stream))
  <2>1. n < Len(stream) => Kind(stream[n + 1]) \notin {"data", "matrix", "route"}
    BY <1>8 DEF ReceivedFromNetwork, ChunkMayEnd
  <2>2. ReportsIn(text) /\ ReportsIn(left)
    BY <2>1, ChunksTakeWholeReports DEF WireIsTrue
  <2>3. text \in Seq(TrueLine) /\ left \in Seq(TrueLine)
    BY DEF WireIsTrue
  <2>4. statusBuffer \o text = text
    BY <2>3, ConcatEmptySeq DEF WireIsTrue
  <2> HIDE DEF text, left
  <2>5. \/ statusBuffer' = <<>>
        \/ LuaParse(text).routing = <<>> /\ statusBuffer' = Kept(text)
    BY <1>8, <2>4 DEF ReceivedFromNetwork, text
  <2>6. statusBuffer' = <<>>
    <3>1. CASE \A k \in 1 .. Len(text) : Kind(text[k]) # "header"
      BY <2>3, <2>5, <3>1, NoHeaderNoNews
    <3>2. ASSUME NEW k \in 1 .. Len(text), Kind(text[k]) = "header"
          PROVE  statusBuffer' = <<>>
      BY <2>2, <2>3, <2>5, <3>2, WholeReportsAreTrue
    <3>3. QED BY <3>1, <3>2
  <2>7. stream' = left
    BY <1>8 DEF ReceivedFromNetwork, OnReceived, left
  <2>8. QED BY <1>1, <2>2, <2>3, <2>6, <2>7
<1>9. CASE ConnectionAlone
  BY <1>2, <1>3, <1>9
  DEF ConnectionAlone, StatusOnline, StatusOffline, ReconnectTimerFires, NetOpens,
      NetFails, NetReportsOfflineAgain, NetDrops, shell, device
<1>10. CASE MatrixAnswers
  <2>1. PICK reply \in { Report(matrix), << <<"text">> >> } : stream' = stream \o reply
    BY <1>10 DEF MatrixAnswers, DeviceAnswers
  <2>2. statusBuffer' = <<>>
    BY <1>10 DEF MatrixAnswers, shell, WireIsTrue
  <2>3. reply \in Seq(TrueLine) /\ ReportsIn(reply)
    BY AnswersAreTrue
  <2>4. stream \o reply \in Seq(TrueLine) /\ ReportsIn(stream \o reply)
    BY <2>3, RepliesFollow, ConcatProperties DEF WireIsTrue
  <2>5. QED BY <1>1, <2>1, <2>2, <2>4
<1>11. CASE ClockTicks \/ UNCHANGED driverVars
            \/ \E o \in Outputs, i \in Inputs \cup {0} : OutOfBandChange(o, i)
  BY <1>2, <1>11 DEF ClockTicks, OutOfBandChange, driverVars, connVars, wireVars, device,
     shell
<1>12. QED BY <1>5, <1>6, <1>7, <1>8, <1>9, <1>10, <1>11 DEF DriverNext

(* What a chunk of true lines tells the driver was true.                   *)
LEMMA PollIsTrue ==
    ASSUME WholeReports, MatrixShape, WireIsTrue, [DriverNext]_driverVars, PollStep,
           NEW o \in Outputs, routing'[o] # routing[o]
    PROVE  <<o, routing'[o]>> \in matrixHad
<1>1. ~UNCHANGED routing
  OBVIOUS
<1>2. ASSUME NEW b, NEW c, SelectAudioDevice(b, c) PROVE FALSE
  BY <1>1, <1>2
  DEF SelectAudioDevice, Route, Unroute, Send, PollStep, trackerVars
<1>3. PICK n \in 1 .. Len(stream) : ReceivedFromNetwork(n)
  BY <1>1, <1>2
  DEF DriverNext, DriverLateInit, DriverUnloads, PollTimerFires, RefreshNow,
      ConnectionAlone, ClockTicks, Tick, MatrixAnswers, OutOfBandChange, trackerVars,
      driverVars
<1> DEFINE text == SubSeq(stream, 1, n)
           rows == LuaParse(text).routing
<1>4. text \in Seq(TrueLine) /\ ReportsIn(text)
  <2>1. n < Len(stream) => Kind(stream[n + 1]) \notin {"data", "matrix", "route"}
    BY <1>3 DEF ReceivedFromNetwork, ChunkMayEnd
  <2>2. QED BY <2>1, ChunksTakeWholeReports DEF WireIsTrue
<1>5. statusBuffer \o text = text
  BY <1>4, ConcatEmptySeq DEF WireIsTrue
<1> HIDE DEF text
<1>6. rows # <<>> /\ OnStatus(rows)
  BY <1>1, <1>3, <1>5 DEF ReceivedFromNetwork, trackerVars, text
<1>7. routing'[o] = CollapseRouting(rows, Outputs)[o]
  BY <1>6 DEF OnStatus, Reconcile
<1>8. PICK h \in 1 .. Len(text) : Kind(text[h]) = "header"
  BY <1>4, <1>6, NoHeaderNoNews
<1>9. QED BY <1>4, <1>7, <1>8, WholeReportsAreTrue

(* So, where chunks end between replies and replies list routings only, it *)
(* stays true.                                                             *)
LEMMA WireStaysTrue ==
    ASSUME WholeReports, ~FullReports
    PROVE  DriverSpec => []WireIsTrue
<1>1. DriverInit => WireIsTrue
  BY EmptyIsSeq DEF DriverInit, ConnInit, WireInit, WireIsTrue, ReportsIn
<1>2. DriverShape /\ WireIsTrue /\ [DriverNext]_driverVars => WireIsTrue'
  BY WireIsTrueStep, DriverShapeStep DEF DriverShape
<1>3. QED BY <1>1, <1>2, ShapeIsKept, PTL DEF DriverSpec

(* While chunks end between replies, and replies list routings only, a     *)
(* poll never moves an output to a source that the matrix never had there  *)
(* (driver.lua:230-247).                                                   *)
THEOREM PollsTellTheTruth ==
    WholeReports /\ ~FullReports => (DriverSpec => NotificationsWereTrue)
<1> SUFFICES ASSUME WholeReports, ~FullReports PROVE DriverSpec => NotificationsWereTrue
  OBVIOUS
<1>1. DriverShape /\ WireIsTrue /\ [DriverNext]_driverVars =>
         [PollStep => \A o \in Outputs :
             routing'[o] # routing[o] => <<o, routing'[o]>> \in matrixHad]_driverVars
  BY PollIsTrue DEF DriverShape
<1>2. QED
  BY <1>1, ShapeIsKept, WireStaysTrue, PTL DEF DriverSpec, NotificationsWereTrue

-----------------------------------------------------------------------------
(* Only a chunk shortens what is on the wire of an open link, and it is    *)
(* what the poll read.                                                     *)
LEMMA PollReads ==
    ASSUME WireShape, MatrixShape, [DriverNext]_driverVars, PollStep, ~destroyed'
    PROVE  \E n \in 1 .. Len(stream) :
              ReceivedFromNetwork(n) /\ Polled = SubSeq(stream, 1, n)
<1>1. stream' # stream /\ net' = net /\ Len(stream') < Len(stream)
  BY DEF PollStep
<1>2. ASSUME NEW b, NEW c, SelectAudioDevice(b, c) PROVE FALSE
  BY <1>1, <1>2 DEF SelectAudioDevice, Route, Unroute, Send, wireVars, device
<1>3. ~MatrixAnswers
  <2>1. SUFFICES ASSUME MatrixAnswers PROVE FALSE
    OBVIOUS
  <2>2. PICK reply \in { Report(matrix), << <<"text">> >> } : stream' = stream \o reply
    BY <2>1 DEF MatrixAnswers, DeviceAnswers
  <2>3. Report(matrix) \in Seq(ReplyLine) /\ << <<"text">> >> \in Seq(ReplyLine)
    BY OutputsAreNumbered, ReportLines DEF MatrixShape, ReplyLine
  <2>4. Len(stream') = Len(stream) + Len(reply) /\ Len(reply) \in Nat
    BY <2>2, <2>3, ConcatProperties DEF WireShape
  <2>5. Len(stream) \in Nat
    BY DEF WireShape
  <2>6. QED BY <1>1, <2>4, <2>5
<1>4. ~ConnectionAlone
  BY <1>1
  DEF ConnectionAlone, StatusOnline, StatusOffline, ReconnectTimerFires, NetOpens,
      NetFails, NetReportsOfflineAgain, NetDrops, device
<1>5. PICK n \in 1 .. Len(stream) : ReceivedFromNetwork(n)
  BY <1>1, <1>2, <1>3, <1>4
  DEF DriverNext, DriverLateInit, LateInit, DriverUnloads, DriverDestroyed,
      PollTimerFires, RefreshNow, RefreshMatrixState, Send, ClockTicks,
      OutOfBandChange, driverVars, connVars, wireVars, device
<1>6. stream' = SubSeq(stream, n + 1, Len(stream)) /\ Len(stream) \in Nat
  BY <1>5 DEF ReceivedFromNetwork, OnReceived, WireShape
<1>7. Len(stream) - Len(stream') = n
  BY <1>6, SubSeqProperties DEF WireShape
<1>8. QED BY <1>5, <1>7 DEF Polled

(* Of a text that ends with a whole report, the rows of that report are    *)
(* the last of their outputs, so collapse_routing returns its routing.     *)
LEMMA LastReportDecides ==
    ASSUME ~FullReports, MatrixShape, NEW text \in Seq(TrueLine), ReportsIn(text),
           EndsWith(text, Report(matrix))
    PROVE  LET rows == LuaParse(text).routing IN
           /\ rows # <<>>
           /\ \A o \in Outputs : CollapseRouting(rows, Outputs)[o] = matrix[o]
<1>1. PICK m \in Nat : m > 0 /\ Outputs = 1 .. m
  BY OutputsAreNumbered
<1> DEFINE tail == Report(matrix)
           len == Len(text)
           rest == After(text, "matrix")
           rows == LuaRouting(text)
<1>2. /\ tail \in Seq(ReplyLine) /\ Len(tail) = 3 + m
      /\ tail[1] = <<"header">> /\ tail[3] = <<"matrix">>
      /\ \A o \in 1 .. m : tail[3 + o] = RouteLine(o, matrix[o])
  BY <1>1, ReportLines DEF MatrixShape
<1>3. len \in Nat /\ 3 + m <= len /\ SubSeq(text, len - (3 + m) + 1, len) = tail
  BY <1>2 DEF EndsWith
<1>4. \A j \in 1 .. 3 + m : text[len - (3 + m) + j] = tail[j]
  <2> DEFINE a == len - (3 + m) + 1
  <2>1. a \in 1 .. len + 1 /\ len - a + 1 = 3 + m
    BY <1>1, <1>3
  <2>2. \A j \in 1 .. len - a + 1 : SubSeq(text, a, len)[j] = text[a + j - 1]
    BY <1>3, <2>1, SubSeqProperties
  <2>3. \A j \in 1 .. 3 + m : a + j - 1 = len - (3 + m) + j
    BY <1>1, <1>3
  <2>4. SubSeq(text, a, len) = tail
    BY <1>3
  <2> HIDE DEF a, tail, len
  <2>5. ASSUME NEW j \in 1 .. 3 + m PROVE text[len - (3 + m) + j] = tail[j]
    BY <2>1, <2>2, <2>3, <2>4
  <2>6. QED BY <2>5
<1>5. /\ len - m \in 1 .. len /\ Kind(text[len - m]) = "matrix"
      /\ \A o \in 1 .. m : text[len - m + o] = RouteLine(o, matrix[o])
  <2>1. len - (3 + m) + 3 = len - m /\ \A o \in 1 .. m : len - (3 + m) + (3 + o) = len - m + o
    BY <1>1, <1>3
  <2>2. \A o \in 1 .. m : 3 + o \in 1 .. 3 + m
    BY <1>1
  <2>3. 3 \in 1 .. 3 + m
    BY <1>1
  <2> HIDE DEF tail, len
  <2>4. text[len - m] = <<"matrix">>
    BY <1>2, <1>4, <2>1, <2>3
  <2>5. ASSUME NEW o \in 1 .. m PROVE text[len - m + o] = RouteLine(o, matrix[o])
    <3>1. text[len - (3 + m) + (3 + o)] = tail[3 + o]
      BY <1>4, <2>2
    <3>2. QED BY <1>2, <2>1, <3>1
  <2>6. QED BY <1>1, <1>3, <2>4, <2>5 DEF Kind
<1>6. /\ LuaParse(text).routing # <<>> /\ LuaParse(text).routing = rows
  <2>1. len - (3 + m) + 1 \in 1 .. len /\ 1 \in 1 .. 3 + m
    BY <1>1, <1>3
  <2>2. Kind(text[len - (3 + m) + 1]) = "header"
    BY <1>2, <1>4, <2>1 DEF Kind
  <2>3. LuaParse(text).routing # <<>>
    BY <2>1, <2>2, WholeReportsAreTrue
  <2>4. QED BY <2>3 DEF LuaParse
<1>7. PICK k \in 1 .. len : k <= len - m /\ rest = SubSeq(text, k + 1, len)
  <2>1. PICK k \in 1 .. len : /\ \A j \in 1 .. k - 1 : Kind(text[j]) # "matrix"
                              /\ rest = SubSeq(text, k + 1, len)
    BY <1>5, AfterTitle
  <2>2. k <= len - m
    BY <1>1, <1>3, <1>5, <2>1
  <2>3. QED BY <2>1, <2>2
<1>8. /\ Len(rest) = len - k /\ rest \in Seq(TrueLine)
      /\ \A i \in 1 .. len - k : rest[i] = text[k + i]
  <2>1. /\ k + 1 \in Int /\ len \in Int /\ k + 1 <= len /\ len - (k + 1) + 1 = len - k
        /\ \A i \in k + 1 .. len : text[i] \in TrueLine
    BY <1>1, <1>3, <1>7
  <2>2. /\ Len(SubSeq(text, k + 1, len)) = len - (k + 1) + 1
        /\ \A i \in 1 .. len - (k + 1) + 1 :
              SubSeq(text, k + 1, len)[i] = text[(k + 1) + i - 1]
    BY <2>1, SubSeqProperties
  <2>3. \A i \in 1 .. len - k : (k + 1) + i - 1 = k + i
    BY <1>3
  <2>4. rest \in Seq(TrueLine)
    BY AfterLines
  <2>5. rest = SubSeq(text, k + 1, len)
    BY <1>7
  <2> HIDE DEF rest, len
  <2>6. QED BY <2>1, <2>2, <2>3, <2>4, <2>5
<1>9. \A o \in 1 .. m : /\ Len(rest) - m + o \in 1 .. Len(rest)
                        /\ rest[Len(rest) - m + o] = RouteLine(o, matrix[o])
  <2>1. ASSUME NEW o \in 1 .. m
        PROVE  len - k - m + o \in 1 .. len - k /\ k + (len - k - m + o) = len - m + o
    BY <1>1, <1>3, <1>7
  <2> HIDE DEF len, rest
  <2>2. QED BY <1>5, <1>8, <2>1
<1>10. /\ DOMAIN rows =
             { i \in 1 .. Len(rest) : Kind(rest[i]) \in {"route", "outset", "outeq"} }
       /\ \A i \in DOMAIN rows : rows[i] = LuaRoute(rest[i])
  <2>1. DOMAIN rest = 1 .. Len(rest)
    BY <1>8
  <2>2. /\ DOMAIN rows =
              { i \in DOMAIN rest : Kind(rest[i]) \in {"route", "outset", "outeq"} }
        /\ \A i \in DOMAIN rows : rows[i] = LuaRoute(rest[i])
    BY LuaRows, Zenon
  <2> HIDE DEF rows, rest
  <2>3. QED BY <2>1, <2>2
<1> HIDE DEF tail, len, rest, rows
<1>11. ASSUME NEW o \in 1 .. m
       PROVE  /\ Len(rest) - m + o \in DOMAIN rows
              /\ rows[Len(rest) - m + o] = <<o, "L", matrix[o]>>
  <2>1. matrix[o] \in Inputs \cup {0}
    BY <1>1 DEF MatrixShape, Routing
  <2>2. /\ Kind(RouteLine(o, matrix[o])) = "route"
        /\ LuaRoute(RouteLine(o, matrix[o])) = <<o, "L", matrix[o]>>
    BY <1>1, <2>1, RowsSay
  <2>3. QED BY <1>9, <1>10, <2>2
<1>12. ASSUME NEW o \in Outputs
       PROVE  CollapseRouting(rows, Outputs)[o] = matrix[o]
  <2> DEFINE last == Len(rest) - m + o
  <2>1. Len(rest) \in Nat /\ DOMAIN rows \subseteq 1 .. Len(rest) /\ o \in 1 .. m
    BY <1>1, <1>8, <1>10
  <2>2. last \in DOMAIN rows /\ rows[last] = <<o, "L", matrix[o]>>
    BY <1>11, <2>1
  <2>3. rows[last][1] = o /\ rows[last][2] = "L"
    BY <2>2
  <2>4. PICK i \in DOMAIN rows :
           /\ rows[i][1] = o /\ CollapseRouting(rows, Outputs)[o] = rows[i][3]
           /\ last <= i
    BY <2>1, <2>2, <2>3, CollapseTakesTheLast
  <2>5. i = last
    <3>1. i \in 1 .. Len(rest) /\ i - (Len(rest) - m) \in 1 .. m
      BY <2>1, <2>4
    <3>2. PICK p \in 1 .. m : i = Len(rest) - m + p
      <4>1. i = Len(rest) - m + (i - (Len(rest) - m))
        BY <2>1, <3>1
      <4>2. QED BY <3>1, <4>1
    <3>3. rows[i] = <<p, "L", matrix[p]>>
      BY <1>11, <3>2
    <3>4. p = o
      BY <2>4, <3>3
    <3>5. QED BY <3>2, <3>4
  <2>6. QED BY <2>2, <2>4, <2>5
<1>13. QED BY <1>6, <1>12

(* Such a poll shows its report in every Room out of the lockout.          *)
LEMMA PollShowsTheReport ==
    ASSUME WholeReports, ~FullReports, WireShape, MatrixShape, WireIsTrue,
           RoomsFollowTheTracker, [DriverNext]_driverVars,
           PollStep, ~destroyed', EndsWith(Polled, Report(matrix)),
           NEW b \in OutputBindings, ~IsLocked(OutputIndex(b))
    PROVE  rooms'[b] = InputBinding(matrix[OutputIndex(b)])
<1>1. PICK n \in 1 .. Len(stream) :
         ReceivedFromNetwork(n) /\ Polled = SubSeq(stream, 1, n)
  BY PollReads
<1> DEFINE text == SubSeq(stream, 1, n)
           rows == LuaParse(text).routing
           polled == CollapseRouting(rows, Outputs)
           o == OutputIndex(b)
<1>2. text \in Seq(TrueLine) /\ ReportsIn(text)
  <2>1. n < Len(stream) => Kind(stream[n + 1]) \notin {"data", "matrix", "route"}
    BY <1>1 DEF ReceivedFromNetwork, ChunkMayEnd
  <2>2. QED BY <2>1, ChunksTakeWholeReports DEF WireIsTrue
<1>3. statusBuffer \o text = text
  BY <1>2, ConcatEmptySeq DEF WireIsTrue
<1>4. EndsWith(text, Report(matrix))
  BY <1>1
<1> HIDE DEF text
<1>5. rows # <<>> /\ \A p \in Outputs : polled[p] = matrix[p]
  BY <1>2, <1>4, LastReportDecides
<1>6. OnStatus(rows)
  BY <1>1, <1>3, <1>5 DEF ReceivedFromNetwork, text
<1> HIDE DEF rows
<1>7. rooms' = [c \in OutputBindings |->
                   IF OutputIndex(c) \in Changes(polled)
                   THEN InputBinding(polled[OutputIndex(c)]) ELSE rooms[c]]
  BY <1>6 DEF OnStatus
<1>8. o \in Outputs /\ polled[o] = matrix[o]
  BY <1>5, OutputNumbers
<1> HIDE DEF polled
<1>9. CASE o \in Changes(polled)
  BY <1>7, <1>8, <1>9
<1>10. CASE o \notin Changes(polled)
  <2>1. matrix[o] = routing[o]
    BY <1>8, <1>10 DEF Changes
  <2>2. rooms'[b] = InputBinding(routing[o])
    BY <1>7, <1>10 DEF RoomsFollowTheTracker
  <2>3. QED BY <2>1, <2>2
<1>11. QED BY <1>9, <1>10

(* And so, under the same conditions, a poll that ends with the matrix's   *)
(* present routing shows it in every Room that is out of the lockout       *)
(* (polling_coordinator.lua:139-176, driver.lua:126-141).                  *)
THEOREM PollsShowTheMatrix ==
    WholeReports /\ ~FullReports => (DriverSpec => ReportsShowInRooms)
<1> SUFFICES ASSUME WholeReports, ~FullReports PROVE DriverSpec => ReportsShowInRooms
  OBVIOUS
<1>1. DriverShape /\ WireIsTrue /\ RoomsFollowTheTracker /\ [DriverNext]_driverVars =>
         [PollStep /\ ~destroyed' /\ EndsWith(Polled, Report(matrix)) =>
             \A b \in OutputBindings : ~IsLocked(OutputIndex(b)) =>
                 rooms'[b] = InputBinding(matrix[OutputIndex(b)])]_driverVars
  BY PollShowsTheReport DEF DriverShape
<1>2. QED
  BY <1>1, ShapeIsKept, WireStaysTrue, RoomsShowTheBelief, PTL
  DEF DriverSpec, ReportsShowInRooms
=============================================================================
