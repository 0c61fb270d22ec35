------------------------------- MODULE Commands -------------------------------
(***************************************************************************)
(* The commands of the DMP168 and the three places that say which          *)
(* arguments they take: the registry (devices/dmp168/commands.py) with the *)
(* validator that reads it (base/validator.py), the generated formatters   *)
(* (devices/dmp168/_generated.py), and the methods of DMP168 that call     *)
(* them by name (devices/dmp168/device.py).  The command line and Home     *)
(* Assistant reach the formatters only through these.                      *)
(*                                                                         *)
(* Arguments are functions from the names of parameters to values: an      *)
(* integer, a BOOLEAN, a channel, a unit, None, or a level, which is       *)
(* <<"abs", n>> or one step, <<"rel", "+">> or <<"rel", "-">>.  Of a       *)
(* formatter, its checks and defaults are kept; that the text it builds    *)
(* names the command and its arguments is taken as given.                  *)
(***************************************************************************)
EXTENDS Integers

None == "None"
Channels == {"L", "R", "LR"}
Units == {"percent", "dB"}
Level == ({"abs"} \X Int) \cup ({"rel"} \X {"+", "-"})
IsRelative(level) == level[1] = "rel"
NoArgs == <<>>

-----------------------------------------------------------------------------
(* Parameters.  choices and valid, the range of the validation callable,   *)
(* are {} where there are none; depends_on names the parameter whose       *)
(* relative value rules this one out.                                      *)
Parameter(required, choices) ==
    [required |-> required, choices |-> choices, valid |-> {},
     supports_relative |-> FALSE, depends_on |-> None]
AnOutput == Parameter(TRUE, 0 .. 8)
AnInput == Parameter(TRUE, 0 .. 16)
AColumn == Parameter(TRUE, 1 .. 24)
APreset == Parameter(TRUE, 1 .. 8)
AGroup == Parameter(TRUE, 0 .. 4)
AMode == Parameter(TRUE, 0 .. 6)
AFlag == Parameter(TRUE, {})
AChannel == Parameter(FALSE, Channels)
ALevel == [AFlag EXCEPT !.supports_relative = TRUE]
AUnit(p) == [Parameter(FALSE, Units) EXCEPT !.depends_on = p]
ADelay == [AFlag EXCEPT !.valid = 0 .. 500]

\* The registry, _register_commands.
help == NoArgs
status == NoArgs
power_on == NoArgs
power_off == NoArgs
output_volume == [output |-> AnOutput, level |-> ALevel,
                  unit |-> AUnit("level"), channel |-> AChannel]
output_mute == [output |-> AnOutput, mute |-> AFlag, channel |-> AChannel]
route == [output |-> AnOutput, input |-> AColumn,
          output_channel |-> AChannel, input_channel |-> AChannel]
preset_save == [preset |-> APreset]
preset_recall == [preset |-> APreset]
input_gain == [input |-> AnInput, gain |-> ALevel,
               channel |-> AChannel, unit |-> AUnit("gain")]
input_mute == [input |-> AnInput, mute |-> AFlag, channel |-> AChannel]
preset_delete == [preset |-> APreset]
preset_status == [preset |-> APreset]
output_remove == [output |-> AnOutput, input |-> AColumn,
                  output_channel |-> AChannel, input_channel |-> AChannel]
output_delay_unchecked == [output |-> AnOutput, delay_ms |-> AFlag,
                           channel |-> AChannel]
output_delay == [output |-> AnOutput, delay_ms |-> ADelay,
                 channel |-> AChannel]
output_mix == [output |-> AnOutput, mode |-> AMode]
output_master_volume == [level |-> ALevel, unit |-> AUnit("level"),
                         channel |-> AChannel]
output_master_mute == [mute |-> AFlag, channel |-> AChannel]
output_channel_lock == [output |-> AnOutput, lock |-> AFlag, channel |-> AChannel]
uptime == NoArgs
temp == NoArgs
reboot == NoArgs
group_volume == [group |-> AGroup, level |-> ALevel,
                 unit |-> AUnit("level"), channel |-> AChannel]
group_mute == [group |-> AGroup, mute |-> AFlag, channel |-> AChannel]

Registry ==
    [help |-> help, status |-> status, power_on |-> power_on, power_off |-> power_off,
     output_volume |-> output_volume, output_mute |-> output_mute, route |-> route,
     preset_save |-> preset_save, preset_recall |-> preset_recall,
     input_gain |-> input_gain, input_mute |-> input_mute,
     preset_delete |-> preset_delete, preset_status |-> preset_status,
     output_remove |-> output_remove, output_delay |-> output_delay,
     output_mix |-> output_mix, output_master_volume |-> output_master_volume,
     output_master_mute |-> output_master_mute,
     output_channel_lock |-> output_channel_lock,
     uptime |-> uptime, temp |-> temp, reboot |-> reboot,
     group_volume |-> group_volume, group_mute |-> group_mute]
CommandNames == DOMAIN Registry
RequiresConfirmation == {"preset_delete", "output_remove", "reboot"}

-----------------------------------------------------------------------------
(* validate: first each parameter by itself, then the dependencies.  An    *)
(* optional parameter given as None counts as not given.                   *)
Given(param, args, p) == p \in DOMAIN args /\ (param.required \/ args[p] # None)

PassesAlone(param, args, p) ==
    /\ param.required => p \in DOMAIN args
    /\ Given(param, args, p) =>
           /\ param.choices # {} => args[p] \in param.choices
           /\ param.valid # {} => args[p] \in param.valid

PassesDependency(param, args, p) ==
    param.depends_on # None /\ Given(param, args, p)
    /\ param.depends_on \in DOMAIN args => ~IsRelative(args[param.depends_on])

Accepts(name, args) ==
    \A p \in DOMAIN Registry[name] :
        /\ PassesAlone(Registry[name][p], args, p)
        /\ PassesDependency(Registry[name][p], args, p)

-----------------------------------------------------------------------------
(* The formatters.  among is the range a formatter checks, {} where it     *)
(* checks none; default says that the parameter may be left out.  The      *)
(* handlers rename "input" to input_ch.                                    *)
Positional(among) == [among |-> among, default |-> FALSE]
Defaulted(among) == [among |-> among, default |-> TRUE]

format_output_volume == [output |-> Positional(0 .. 8), level |-> Positional({}),
                         unit |-> Defaulted(Units), channel |-> Defaulted(Channels)]
format_output_mute == [output |-> Positional(0 .. 8), mute |-> Positional({}),
                       channel |-> Defaulted(Channels)]
format_output_channel_lock == [output |-> Positional(0 .. 8), lock |-> Positional({}),
                               channel |-> Defaulted(Channels)]
format_output_delay == [output |-> Positional(0 .. 8), delay_ms |-> Positional(0 .. 500),
                        channel |-> Defaulted(Channels)]
format_output_mix == [output |-> Positional(0 .. 8), mode |-> Positional(0 .. 6)]
format_output_master_volume == [level |-> Positional({}), unit |-> Defaulted(Units),
                                channel |-> Defaulted(Channels)]
format_output_master_mute == [mute |-> Positional({}), channel |-> Defaulted(Channels)]
format_route == [output |-> Positional(0 .. 8), input |-> Positional(1 .. 24),
                 output_channel |-> Defaulted(Channels),
                 input_channel |-> Defaulted(Channels)]
format_output_remove == [output |-> Positional(0 .. 8), input |-> Positional(1 .. 24),
                         output_channel |-> Defaulted(Channels),
                         input_channel |-> Defaulted(Channels)]
format_input_gain == [input |-> Positional(0 .. 16), gain |-> Positional({}),
                      channel |-> Defaulted(Channels), unit |-> Defaulted({})]
format_input_mute == [input |-> Positional(0 .. 16), mute |-> Positional({}),
                      channel |-> Defaulted(Channels)]
format_preset_save == [preset |-> Positional(1 .. 8)]
format_preset_recall == [preset |-> Positional(1 .. 8)]
format_preset_delete == [preset |-> Positional(1 .. 8)]
format_preset_status == [preset |-> Positional(1 .. 8)]
format_group_volume == [group |-> Positional(0 .. 4), level |-> Positional({}),
                        unit |-> Defaulted(Units), channel |-> Defaulted(Channels)]
format_group_mute == [group |-> Positional(0 .. 4), mute |-> Positional({}),
                      channel |-> Defaulted(Channels)]

\* The handlers: which formatter builds which command.
Formatter ==
    [help |-> NoArgs, status |-> NoArgs, power_on |-> NoArgs, power_off |-> NoArgs,
     output_volume |-> format_output_volume, output_mute |-> format_output_mute,
     route |-> format_route, preset_save |-> format_preset_save,
     preset_recall |-> format_preset_recall, input_gain |-> format_input_gain,
     input_mute |-> format_input_mute, preset_delete |-> format_preset_delete,
     preset_status |-> format_preset_status, output_remove |-> format_output_remove,
     output_delay |-> format_output_delay, output_mix |-> format_output_mix,
     output_master_volume |-> format_output_master_volume,
     output_master_mute |-> format_output_master_mute,
     output_channel_lock |-> format_output_channel_lock,
     uptime |-> NoArgs, temp |-> NoArgs, reboot |-> NoArgs,
     group_volume |-> format_group_volume, group_mute |-> format_group_mute]

\* These handlers pick their arguments, the others pass on all they get.
PicksArguments ==
    {"help", "status", "power_on", "power_off", "uptime", "temp", "reboot",
     "route", "output_remove", "input_gain", "input_mute"}

Builds(name, args) ==
    /\ DOMAIN args \subseteq DOMAIN Formatter[name] \/ name \in PicksArguments
    /\ \A p \in DOMAIN Formatter[name] :
          /\ p \in DOMAIN args \/ Formatter[name][p].default
          /\ p \in DOMAIN args /\ Formatter[name][p].among # {}
                => args[p] \in Formatter[name][p].among

-----------------------------------------------------------------------------
(* The methods of DMP168, as the command each of them executes.            *)
Execute(name, args) == [name |-> name, args |-> args]
\* execute_command sends c: validate accepts it and its formatter builds it.
Accepted(c) == Accepts(c.name, c.args) /\ Builds(c.name, c.args)

GetStatus == Execute("status", NoArgs)
PowerOn == Execute("power_on", NoArgs)
PowerOff == Execute("power_off", NoArgs)
SetOutputVolume(output, level, unit, channel) ==
    Execute("output_volume",
        IF IsRelative(level)
        THEN [output |-> output, level |-> level, channel |-> channel]
        ELSE [output |-> output, level |-> level, channel |-> channel, unit |-> unit])
SetOutputMute(output, mute, channel) ==
    Execute("output_mute", [output |-> output, mute |-> mute, channel |-> channel])
RouteInputToOutput(input, output, outputChannel, inputChannel) ==
    Execute("route", [input |-> input, output |-> output,
                      output_channel |-> outputChannel, input_channel |-> inputChannel])
SavePreset(preset) == Execute("preset_save", [preset |-> preset])
RecallPreset(preset) == Execute("preset_recall", [preset |-> preset])
SetInputGain(input, gain, channel, unit) ==
    Execute("input_gain",
        IF IsRelative(gain)
        THEN [input |-> input, gain |-> gain, channel |-> channel]
        ELSE [input |-> input, gain |-> gain, channel |-> channel, unit |-> unit])
SetInputMute(input, mute, channel) ==
    Execute("input_mute", [input |-> input, mute |-> mute, channel |-> channel])
GetPresetStatus(preset) == Execute("preset_status", [preset |-> preset])
RemoveInputFromOutput(output, input, outputChannel, inputChannel) ==
    Execute("output_remove", [output |-> output, input |-> input,
                      output_channel |-> outputChannel, input_channel |-> inputChannel])
SetOutputDelay(output, delay, channel) ==
    Execute("output_delay", [output |-> output, delay_ms |-> delay, channel |-> channel])
SetOutputMix(output, mode) == Execute("output_mix", [output |-> output, mode |-> mode])
SetOutputMasterVolume(level, unit, channel) ==
    Execute("output_master_volume",
        IF IsRelative(level) THEN [level |-> level, channel |-> channel]
        ELSE [level |-> level, channel |-> channel, unit |-> unit])
SetOutputMasterMute(mute, channel) ==
    Execute("output_master_mute", [mute |-> mute, channel |-> channel])
SetOutputChannelLock(output, lock, channel) ==
    Execute("output_channel_lock",
            [output |-> output, lock |-> lock, channel |-> channel])
GetUptimeRaw == Execute("uptime", NoArgs)
GetTemperature == Execute("temp", NoArgs)
GetHelp == Execute("help", NoArgs)
Reboot == Execute("reboot", NoArgs)
SetGroupVolume(group, level, unit, channel) ==
    Execute("group_volume",
        IF IsRelative(level)
        THEN [group |-> group, level |-> level, channel |-> channel]
        ELSE [group |-> group, level |-> level, channel |-> channel, unit |-> unit])
SetGroupMute(group, mute, channel) ==
    Execute("group_mute", [group |-> group, mute |-> mute, channel |-> channel])

-----------------------------------------------------------------------------
(* The command line (cli/parser.py).  A namespace holds the values given   *)
(* and the parameters given as --increase-<name> or --decrease-<name>.     *)
Mentioned(ns) == DOMAIN ns.given \cup ns.increase \cup ns.decrease

\* build_parser: what argparse lets through.
AddParameter(param, ns, p) ==
    /\ param.required => p \in Mentioned(ns)
    /\ p \in ns.increase \cup ns.decrease => param.supports_relative
    /\ p \in ns.increase => p \notin ns.decrease \cup DOMAIN ns.given
    /\ p \in ns.decrease => p \notin DOMAIN ns.given
    /\ p \in DOMAIN ns.given /\ param.choices # {} => ns.given[p] \in param.choices
ParsesAs(name, ns) ==
    /\ Mentioned(ns) \subseteq DOMAIN Registry[name]
    /\ \A p \in DOMAIN Registry[name] : AddParameter(Registry[name][p], ns, p)

ExtractKwargs(name, ns) ==
    [p \in DOMAIN Registry[name] \cap Mentioned(ns) |->
        IF p \in ns.increase THEN <<"rel", "+">>
        ELSE IF p \in ns.decrease THEN <<"rel", "-">>
        ELSE ns.given[p]]
=============================================================================
