--------------------------- MODULE DeviceOperations ---------------------------
(***************************************************************************)
(* The operations of a DMP168 as its users see them: the entities of the   *)
(* Home Assistant integration (media_player.py, switch.py, button.py), the *)
(* coordinator that polls for them (coordinator.py), the operations of     *)
(* DMP168 they call (devices/dmp168/device.py) and the command line        *)
(* (cli/dispatcher.py) on a connection of its own.                         *)
(*                                                                         *)
(* The calls are those of RequestReply, which DeviceSession implements;    *)
(* Commands has the arguments, StatusParser the typed STATUS report.  The  *)
(* matrix is external: it obeys a command and reports its settings whole.  *)
(* Once lost, the link stays lost: coordinator.py:65 finds the device      *)
(* object still connected (SessionRecovers.cfg).  Two variants with a bug  *)
(* in them, PolledReport and SwallowsFailure, are used by no action.       *)
(***************************************************************************)
EXTENDS RequestReply, Commands, StatusParser

CONSTANTS
    Users,      \* the tasks that run services
    Poller,     \* the coordinator's task
    Outputs,    \* the outputs, 1 .. 8 in the code
    Sources,    \* the columns a user selects or another client routes
    Percents,   \* the volumes they set
    CliCalls,   \* command lines: a command's name, a namespace and --yes
    Limit       \* bounds services, and what others do: command lines and faults

ASSUME TasksAssumption == Tasks = Users \cup {Poller} /\ Poller \notin Users

\* SOURCE_LIST has 16 inputs and 8 buses; volume_level is a percentage.
ASSUME SettingsAssumption ==
    /\ \E n \in 1 .. 8 : Outputs = 1 .. n
    /\ Sources \subseteq 0 .. 24 /\ Percents \subseteq 0 .. 100
    /\ Limit \in [{"service", "other"} -> Nat]

\* argparse has made flags Booleans and levels integers, and extract_kwargs
\* drops None.  What the matrix makes of a level off its scale is not known.
ASSUME CliAssumption ==
    \A call \in CliCalls :
        /\ call.name \in CommandNames
        /\ \A p \in DOMAIN call.ns.given :
              /\ p = "level" => call.ns.given[p] \in {"abs"} \X (0 .. 100)
              /\ p = "mute" => call.ns.given[p] \in BOOLEAN
              /\ Registry[call.name][p].required \/ call.ns.given[p] # None

VARIABLES
    matrix,     \* the settings of the matrix
    link,       \* the integration's connection: "up" or "lost"
    cmd,        \* what each task asks execute_command for, or was refused
    reply,      \* of each task: the report it got, <<>> for another reply
    strays,     \* the abandoned commands that the matrix will still obey
    doing,      \* what each user's service is at
    data,       \* coordinator.data
    available,  \* coordinator.last_update_success
    cli,        \* the command line: where it is, and its command
    done,       \* how often each bounded event has happened
    moved       \* history: whose output others have routed since it was read

entities == <<data, available>>
opsVars == <<callVars, matrix, link, cmd, reply, strays, doing, entities, cli, done, moved>>

Sides == {"L", "R"}
Settings ==
    [power : {"On", "Off"}, source : [Outputs -> [Sides -> 0 .. 24]],
     level : [Outputs -> [Sides -> 0 .. 100]], mute : [Outputs -> [Sides -> BOOLEAN]]]

OpsTypeOK ==
    /\ RequestReplyTypeOK
    /\ matrix \in Settings
    /\ link \in {"up", "lost"}
    /\ \A t \in Tasks : cmd[t].name \in CommandNames
    /\ \A t \in Tasks : reply[t] # <<>> => StatusReadable(reply[t])
    /\ stray = (strays # <<>>)
    /\ doing \in [Users -> [job : {"none", "write", "read", "remove", "cleared"},
                            output : Outputs]]
    /\ data.power \in {"On", "Off"}
    /\ available \in BOOLEAN /\ moved \in [Users -> BOOLEAN]
    /\ cli.pc \in {"none", "asked", "connecting", "connected"}
    /\ cli.cmd.name \in CommandNames
    /\ \A k \in DOMAIN Limit : done[k] \in 0 .. Limit[k]

Counted(kind) == done[kind] < Limit[kind] /\ done' = [done EXCEPT ![kind] = @ + 1]

-----------------------------------------------------------------------------
(* The matrix.  Output 0 is all outputs; REM removes a source only from    *)
(* the sides it feeds; a step stops at the end of the scale.  A command    *)
(* this module sends none of leaves the settings alone.                    *)
Arg(c, p, default) == IF p \in DOMAIN c.args THEN c.args[p] ELSE default
Change(setting, c, channel, f(_)) ==
    [o \in Outputs |-> [s \in Sides |->
        IF c.args.output \in {0, o} /\ channel \in {s, "LR"}
        THEN f(setting[o][s]) ELSE setting[o][s]]]
NewLevel(level, old) ==
    CASE level[1] = "abs" -> level[2]
      [] level = <<"rel", "+">> -> IF old = 100 THEN 100 ELSE old + 1
      [] level = <<"rel", "-">> -> IF old = 0 THEN 0 ELSE old - 1

Obey(m, c) ==
    CASE c.name = "power_on" -> [m EXCEPT !.power = "On"]
      [] c.name = "power_off" -> [m EXCEPT !.power = "Off"]
      [] c.name = "route" ->
            [m EXCEPT !.source = Change(@, c, Arg(c, "output_channel", "LR"),
                                        LAMBDA old : c.args.input)]
      [] c.name = "output_remove" ->
            [m EXCEPT !.source =
                Change(@, c, Arg(c, "output_channel", "LR"),
                       LAMBDA old : IF old = c.args.input THEN 0 ELSE old)]
      [] c.name = "output_volume" ->
            [m EXCEPT !.level = Change(@, c, Arg(c, "channel", "LR"),
                                       LAMBDA old : NewLevel(c.args.level, old))]
      [] c.name = "output_mute" ->
            [m EXCEPT !.mute = Change(@, c, Arg(c, "channel", "LR"),
                                      LAMBDA old : c.args.mute)]
      [] OTHER -> m

RouteRows(m) ==
    [k \in { 2 * o - 1 : o \in Outputs } \cup { 2 * o : o \in Outputs } |->
        LET o == (k + 1) \div 2
            s == IF k % 2 = 1 THEN "L" ELSE "R"
        IN <<"route", o, s, m.source[o][s]>>]
SettingsRows(m) ==
    [o \in Outputs |-> <<"outset", o, m.level[o]["L"], m.level[o]["R"],
                        m.mute[o]["L"], m.mute[o]["R"]>>]
Report(m) ==
    <<<<"header">>, <<"data", m.power>>, <<"matrix">>>> \o RouteRows(m)
    \o <<<<"inputs">>, <<"in", 1>>, <<"ineq", 1>>, <<"outputs">>>>
    \o SettingsRows(m) \o [o \in Outputs |-> <<"outeq", o>>]

\* The matrix obeys a command of the users in by, of nobody known if empty.
Obeys(c, by) ==
    LET m == Obey(matrix, c)
    IN /\ matrix' = m
       /\ moved' = [u \in Users |->
             IF u \in by \/ doing[u].job \notin {"read", "remove", "cleared"}
             THEN moved[u] /\ c.name # "status"
             ELSE LET o == doing[u].output
                  IN moved[u] \/ m.source[o]["L"] # matrix.source[o]["L"]]

-----------------------------------------------------------------------------
(* What the entities show.  Labels are the strings of SOURCE_LIST, taken   *)
(* apart; <<"Unknown">> is the None of an output that has no row.          *)
SourceToLabel(source) ==
    CASE source.kind = "none" -> <<"None">>
      [] source.kind = "bus" -> <<"Bus", source.number>>
      [] source.kind = "input" -> <<"Input", source.number>>
LabelToSource(label) ==
    CASE label[1] = "None" -> NoSource
      [] label[1] = "Input" -> ForInput(label[2])
      [] label[1] = "Bus" -> ForBus(label[2])

FirstRow(rows, test(_)) ==
    LET found == { k \in DOMAIN rows : test(rows[k]) }
    IN IF found = {} THEN <<>> ELSE <<rows[Min(found)]>>
ShownSource(o) ==
    LET row == FirstRow(data.routing, LAMBDA r : r.output = o /\ r.channel = "L")
    IN IF row = <<>> THEN <<"Unknown">> ELSE SourceToLabel(row[1].source)
OwnSettings(o) == FirstRow(data.settings, LAMBDA r : r.output = o)
VolumeLevel(o) == OwnSettings(o)[1].l
IsVolumeMuted(o) == OwnSettings(o)[1].muteL /\ OwnSettings(o)[1].muteR
ExtraStateAttributes(o) ==
    LET row == OwnSettings(o)[1]
    IN IF row.l = row.r /\ row.muteL = row.muteR THEN <<>>
       ELSE [volume_left |-> row.l, volume_right |-> row.r]
IsOn == data.power = "On"

-----------------------------------------------------------------------------
(* execute_command, from validate to the start of the call.                *)
Executes(t, c) ==
    /\ cmd' = [cmd EXCEPT ![t] = c]
    /\ Accepted(c) /\ Call(t)
IsRefused(t, c) ==
    /\ cmd' = [cmd EXCEPT ![t] = c]
    /\ link = "lost" \/ ~Accepted(c)
    /\ Reject(t)

\* set_output_source: a route, or a STATUS to find what to remove.
SetOutputSource(o, source) ==
    IF source = NoSource THEN GetStatus
    ELSE Execute("route", [output |-> o, input |-> Column(source)])
ClearOutput(o, source) ==
    Execute("output_remove", [output |-> o, input |-> Column(source)])
FindSource(report, o) ==
    LET row == FirstRow(report.routing, LAMBDA r : r.output = o /\ r.channel = "L")
    IN IF row = <<>> THEN NoSource ELSE row[1].source
PolledReport(u) == data
CurrentReport(u) == ParseStatus(reply[u])

\* A service of an entity of output o, whose first command is c.
Service(u, job, o, c) ==
    /\ doing[u].job \in {"none", "cleared"} /\ Counted("service")
    /\ \/ /\ Executes(u, c)
          /\ doing' = [doing EXCEPT ![u] = [job |-> job, output |-> o]]
          /\ UNCHANGED available
       \/ /\ IsRefused(u, c)
          /\ doing' = [doing EXCEPT ![u] = [job |-> "none", output |-> o]]
          /\ available' = (available /\ c # Reboot)
    /\ moved' = [moved EXCEPT ![u] = FALSE]
    /\ UNCHANGED <<matrix, link, reply, strays, data, cli>>

SelectSource(u, o, label) ==
    LET source == LabelToSource(label)
    IN Service(u, IF source = NoSource THEN "read" ELSE "write", o,
               SetOutputSource(o, source))
SetVolumeLevel(u, o, percent) ==
    Service(u, "write", o, SetOutputVolume(o, <<"abs", percent>>, "percent", "LR"))
VolumeUp(u, o) ==
    Service(u, "write", o, SetOutputVolume(o, <<"rel", "+">>, "percent", "LR"))
VolumeDown(u, o) ==
    Service(u, "write", o, SetOutputVolume(o, <<"rel", "-">>, "percent", "LR"))
MuteVolume(u, o, mute) == Service(u, "write", o, SetOutputMute(o, mute, "LR"))
NoOutput == CHOOSE o \in Outputs : TRUE
TurnOn(u) == Service(u, "write", NoOutput, PowerOn)
TurnOff(u) == Service(u, "write", NoOutput, PowerOff)
Press(u) == Service(u, "write", NoOutput, Reboot)

AllLabels == { SourceToLabel(SourceToken(column)) : column \in Sources }
ServiceStarts(u) ==
    \/ \E o \in Outputs :
          \/ \E label \in AllLabels : SelectSource(u, o, label)
          \/ \E percent \in Percents : SetVolumeLevel(u, o, percent)
          \/ VolumeUp(u, o) \/ VolumeDown(u, o)
          \/ \E mute \in BOOLEAN : MuteVolume(u, o, mute)
    \/ TurnOn(u) \/ TurnOff(u) \/ Press(u)

\* A service's call returns.  After a STATUS, the source found is removed.
ServiceReturns(u) ==
    /\ Return(u)
    /\ \E report \in {CurrentReport(u)} :
       LET o == doing[u].output
           source == FindSource(report, o)
       IN \/ /\ doing[u].job = "write"
             /\ doing' = [doing EXCEPT ![u].job = "none"]
             /\ cmd' = [cmd EXCEPT ![u] = GetStatus]
          \/ /\ \/ doing[u].job = "remove"
                \/ doing[u].job = "read" /\ source = NoSource
             /\ doing' = [doing EXCEPT ![u].job = "cleared"]
             /\ cmd' = [cmd EXCEPT ![u] = GetStatus]
          \/ /\ doing[u].job = "read" /\ source # NoSource
             /\ doing' = [doing EXCEPT ![u].job = "remove"]
             /\ cmd' = [cmd EXCEPT ![u] = ClearOutput(o, source)]
    /\ reply' = [reply EXCEPT ![u] = <<>>]
    /\ UNCHANGED <<matrix, link, strays, entities, cli, done, moved>>

RemoveStarts(u) ==
    /\ doing[u].job = "remove" /\ phase[u] = "ok"
    /\ \/ Executes(u, cmd[u]) /\ UNCHANGED doing
       \/ IsRefused(u, cmd[u]) /\ doing' = [doing EXCEPT ![u].job = "none"]
    /\ UNCHANGED <<matrix, link, reply, strays, entities, cli, done, moved>>

-----------------------------------------------------------------------------
(* The coordinator: at setup, every 30 s, and when a service asked for a   *)
(* refresh; here, at any moment.                                           *)
SwallowsFailure(t) == available' = available
UpdateFailed(t) == available' = (available /\ t # Poller)

PollStarts ==
    /\ \/ Executes(Poller, GetStatus) /\ UNCHANGED available
       \/ IsRefused(Poller, GetStatus) /\ UpdateFailed(Poller)
    /\ UNCHANGED <<matrix, link, reply, strays, doing, data, cli, done, moved>>

PollReturns ==
    \E report \in {ParseStatus(reply[Poller])} :
       /\ Return(Poller)
       /\ available' = (report.power # "error")
       /\ data' = IF report.power = "error" THEN data ELSE report
       /\ reply' = [reply EXCEPT ![Poller] = <<>>]
       /\ UNCHANGED <<matrix, link, cmd, strays, doing, cli, done, moved>>

\* A call fails: CommandError, or the task is cancelled.  While the link is up
\* it is a fault, and a command not obeyed yet may still be.
CallFails(t) ==
    /\ Fail(t)
    /\ \/ link = "lost" /\ stray' = stray /\ UNCHANGED <<strays, done>>
       \/ /\ link = "up" /\ Counted("other")
          /\ strays' = IF stray' /\ phase[t] = "calling" THEN Append(strays, cmd[t])
                       ELSE strays
          /\ stray' = (strays' # <<>>)
    /\ UpdateFailed(t)
    /\ doing' = [u \in Users |-> IF u = t THEN [doing[u] EXCEPT !.job = "none"]
                                 ELSE doing[u]]
    /\ cmd' = [cmd EXCEPT ![t] = GetStatus] /\ reply' = [reply EXCEPT ![t] = <<>>]
    /\ UNCHANGED <<matrix, link, data, cli, moved>>

LinkGoes ==
    /\ link = "up" /\ Counted("other")
    /\ LoseLink
    /\ link' = "lost" /\ strays' = <<>>
    /\ UNCHANGED <<matrix, cmd, reply, doing, entities, cli, moved>>

\* The matrix obeys a call's command, or an abandoned one.  A reboot takes the
\* link with it.
MatrixServes(t) ==
    /\ link = "up" /\ Serve(t)
    /\ Obeys(cmd[t], {t} \cap Users)
    /\ reply' = [reply EXCEPT ![t] = IF cmd[t] = GetStatus THEN Report(matrix) ELSE <<>>]
    /\ link' = IF cmd[t] = Reboot THEN "lost" ELSE "up"
    /\ UNCHANGED <<cmd, strays, doing, entities, cli, done>>

MatrixServesStray ==
    /\ link = "up" /\ stray
    /\ \A t \in Tasks : phase[t] # "served"
    /\ strays' = Tail(strays)
    /\ IF Tail(strays) = <<>> THEN ServeStray ELSE UNCHANGED callVars
    /\ Obeys(Head(strays), {})
    /\ link' = IF Head(strays) = Reboot THEN "lost" ELSE "up"
    /\ UNCHANGED <<cmd, reply, doing, entities, cli, done>>

-----------------------------------------------------------------------------
(* The command line: dispatch, from the namespace argparse made.           *)
Proceeds(c, yes) == c.name \notin RequiresConfirmation \/ yes
CliStarts(call) ==
    LET c == Execute(call.name, ExtractKwargs(call.name, call.ns))
    IN /\ cli.pc = "none" /\ Counted("other")
       /\ ParsesAs(call.name, call.ns)
       /\ IF Accepts(c.name, c.args)
          THEN cli' = [pc |-> IF Proceeds(c, call.yes) THEN "connecting" ELSE "asked",
                       cmd |-> c]
          ELSE UNCHANGED cli
       /\ UNCHANGED <<callVars, matrix, link, cmd, reply, strays, doing, entities, moved>>

\* confirm_command: the answer is yes or no; connect fails or succeeds.
CliGoesOn(from, to) ==
    /\ cli.pc = from
    /\ \E pc \in {"none", to} : cli' = [cli EXCEPT !.pc = pc]
    /\ UNCHANGED <<callVars, matrix, link, cmd, reply, strays, doing, entities, done, moved>>
CliConfirms == CliGoesOn("asked", "connecting")
CliConnects == CliGoesOn("connecting", "connected")

\* execute_command and disconnect; a command that fails may have been obeyed.
CliExecutes ==
    /\ cli.pc = "connected"
    /\ cli' = [cli EXCEPT !.pc = "none"]
    /\ \/ Accepted(cli.cmd) /\ Obeys(cli.cmd, {})
       \/ UNCHANGED <<matrix, moved>>
    /\ UNCHANGED <<callVars, link, cmd, reply, strays, doing, entities, done>>

-----------------------------------------------------------------------------
OpsInit ==
    /\ RequestReplyInit
    /\ matrix = [power |-> "On", source |-> [o \in Outputs |-> [s \in Sides |-> 0]],
                 level |-> [o \in Outputs |-> [s \in Sides |-> 100]],
                 mute |-> [o \in Outputs |-> [s \in Sides |-> FALSE]]]
    /\ link = "up" /\ strays = <<>>
    /\ cmd = [t \in Tasks |-> GetStatus] /\ reply = [t \in Tasks |-> <<>>]
    /\ doing = [u \in Users |-> [job |-> "none", output |-> NoOutput]]
    /\ data = ParseStatus(Report(matrix)) /\ available = TRUE
    /\ cli = [pc |-> "none", cmd |-> GetStatus]
    /\ done = [k \in DOMAIN Limit |-> 0]
    /\ moved = [u \in Users |-> FALSE]

UserStep(u) ==
    \/ ServiceReturns(u) \/ RemoveStarts(u)
    \/ MatrixServes(u) \/ CallFails(u)
PollStep == PollReturns \/ MatrixServes(Poller) \/ CallFails(Poller)
CliStep == CliConfirms \/ CliConnects \/ CliExecutes
OpsNext ==
    \/ \E u \in Users : ServiceStarts(u) \/ UserStep(u)
    \/ PollStarts \/ PollStep
    \/ LinkGoes \/ MatrixServesStray
    \/ \E call \in CliCalls : CliStarts(call)
    \/ CliStep
OpsSpec == OpsInit /\ [][OpsNext]_opsVars

\* The loop runs what is ready, the coordinator polls for ever, and the matrix
\* obeys what it was sent.
OpsFairSpec ==
    /\ OpsSpec
    /\ \A u \in Users : WF_opsVars(UserStep(u))
    /\ WF_opsVars(PollStarts) /\ WF_opsVars(PollStep)
    /\ WF_opsVars(MatrixServesStray)

-----------------------------------------------------------------------------
(* set_output_source(o, None), device.py:350-361: a service that clears an *)
(* output has left its L channel without a source, unless somebody else    *)
(* has routed it since the STATUS that told what to remove.  It takes a    *)
(* fresh STATUS: the coordinator's data may be older than the route.       *)
ClearsWhatFeedsIt ==
    \A u \in Users :
        LET o == doing[u].output
        IN doing[u].job = "cleared" => matrix.source[o]["L"] = 0 \/ moved[u]

(* What reaches a connection is a command that a formatter builds: the     *)
(* entities (media_player.py:155-232) ask for nothing that validate or a   *)
(* formatter rejects, and the command line connects only for a command     *)
(* that it can then send (dispatcher.py:57-69).                            *)
CommandsAreBuilt ==
    /\ \A t \in Tasks : Accepted(cmd[t])
    /\ cli.pc \in {"connecting", "connected"} => Builds(cli.cmd.name, cli.cmd.args)

(* Whatever the entities, the command line and the faults do, the entities *)
(* end up unavailable or showing the matrix: its power, the source and the *)
(* volumes of both channels (coordinator.py:63-76, media_player.py:140-210, *)
(* switch.py:55-61).                                                       *)
ShownVolumes(o) ==
    LET attributes == ExtraStateAttributes(o)
    IN IF DOMAIN attributes = {} THEN [s \in Sides |-> VolumeLevel(o)]
       ELSE [s \in Sides |-> IF s = "L" THEN attributes.volume_left
                             ELSE attributes.volume_right]
ShowsTheMatrix ==
    /\ IsOn = (matrix.power = "On")
    /\ \A o \in Outputs :
          /\ ShownSource(o) # <<"Unknown">>
          /\ Column(LabelToSource(ShownSource(o))) = matrix.source[o]["L"]
          /\ ShownVolumes(o) = matrix.level[o]
          /\ IsVolumeMuted(o) = (matrix.mute[o]["L"] /\ matrix.mute[o]["R"])
ViewSettles == <>[](available => ShowsTheMatrix)
=============================================================================
