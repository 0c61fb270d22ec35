------------------------ MODULE DeviceOperations_proofs ------------------------
(***************************************************************************)
(* Proofs that the three tables of Commands agree, for all arguments, and  *)
(* about the operations of the entities, the poll and the command line,    *)
(* for any tasks, outputs, labels, volumes and bounds.                     *)
(***************************************************************************)
EXTENDS DeviceOperations, StatusParser_proofs

-----------------------------------------------------------------------------
\* A formatter's check that takes what a parameter lets through.  Only a
\* required parameter has relative values.
Covered(param, check) ==
    /\ param.required \/ check.default
    /\ param.supports_relative => param.required
    /\ \/ check.among = {}
       \/ param.choices # {} /\ param.choices \subseteq check.among
       \/ param.valid # {} /\ param.valid \subseteq check.among
Agree(params, checks) ==
    /\ DOMAIN params = DOMAIN checks
    /\ \A p \in DOMAIN params : Covered(params[p], checks[p])

(* Parameters and checks of one kind cover each other.                     *)
LEMMA KindsCovered ==
    /\ Covered(AnOutput, Positional(0 .. 8)) /\ Covered(AnInput, Positional(0 .. 16))
    /\ Covered(AColumn, Positional(1 .. 24)) /\ Covered(APreset, Positional(1 .. 8))
    /\ Covered(AGroup, Positional(0 .. 4)) /\ Covered(ADelay, Positional(0 .. 500))
    /\ Covered(AMode, Positional(0 .. 6))
    /\ Covered(AFlag, Positional({})) /\ Covered(ALevel, Positional({}))
    /\ Covered(AChannel, Defaulted(Channels))
    /\ \A p : Covered(AUnit(p), Defaulted(Units)) /\ Covered(AUnit(p), Defaulted({}))
<1> USE DEF Covered, Parameter, Positional, Defaulted, Channels, Units
<1>1. Covered(AnOutput, Positional(0 .. 8)) BY 0 \in 0 .. 8 DEF AnOutput
<1>2. Covered(AnInput, Positional(0 .. 16)) BY 0 \in 0 .. 16 DEF AnInput
<1>3. Covered(AColumn, Positional(1 .. 24)) BY 1 \in 1 .. 24 DEF AColumn
<1>4. Covered(APreset, Positional(1 .. 8)) BY 1 \in 1 .. 8 DEF APreset
<1>5. Covered(AGroup, Positional(0 .. 4)) BY 0 \in 0 .. 4 DEF AGroup
<1>6. Covered(ADelay, Positional(0 .. 500)) BY 0 \in 0 .. 500 DEF ADelay, AFlag
<1>7. Covered(AMode, Positional(0 .. 6)) BY 0 \in 0 .. 6 DEF AMode
<1>8. Covered(AFlag, Positional({})) /\ Covered(ALevel, Positional({}))
  BY DEF AFlag, ALevel
<1>9. Covered(AChannel, Defaulted(Channels)) BY DEF AChannel
<1>10. ASSUME NEW p
       PROVE Covered(AUnit(p), Defaulted(Units)) /\ Covered(AUnit(p), Defaulted({}))
  BY DEF AUnit
<1>11. QED BY <1>1, <1>2, <1>3, <1>4, <1>5, <1>6, <1>7, <1>8, <1>9, <1>10

(* Every registered command and its formatter agree.                       *)
LEMMA TablesAgree == \A name \in CommandNames : Agree(Registry[name], Formatter[name])
<1>1. Agree(NoArgs, NoArgs)
  BY KindsCovered DEF Agree, NoArgs
<1>2. Agree(output_volume, format_output_volume)
  BY KindsCovered DEF Agree, output_volume, format_output_volume
<1>3. Agree(output_mute, format_output_mute)
  BY KindsCovered DEF Agree, output_mute, format_output_mute
<1>4. Agree(route, format_route)
  BY KindsCovered DEF Agree, route, format_route
<1>5. Agree(input_gain, format_input_gain)
  BY KindsCovered DEF Agree, input_gain, format_input_gain
<1>6. Agree(input_mute, format_input_mute)
  BY KindsCovered DEF Agree, input_mute, format_input_mute
<1>7. Agree(output_remove, format_output_remove)
  BY KindsCovered DEF Agree, output_remove, format_output_remove
<1>8. Agree(output_delay, format_output_delay)
  BY KindsCovered DEF Agree, output_delay, format_output_delay
<1>9. Agree(output_mix, format_output_mix)
  BY KindsCovered DEF Agree, output_mix, format_output_mix
<1>10. Agree(output_master_volume, format_output_master_volume)
  BY KindsCovered DEF Agree, output_master_volume, format_output_master_volume
<1>11. Agree(output_master_mute, format_output_master_mute)
  BY KindsCovered DEF Agree, output_master_mute, format_output_master_mute
<1>12. Agree(output_channel_lock, format_output_channel_lock)
  BY KindsCovered DEF Agree, output_channel_lock, format_output_channel_lock
<1>13. Agree(group_volume, format_group_volume)
  BY KindsCovered DEF Agree, group_volume, format_group_volume
<1>14. Agree(group_mute, format_group_mute)
  BY KindsCovered DEF Agree, group_mute, format_group_mute
<1>15. /\ Agree(preset_save, format_preset_save)
       /\ Agree(preset_recall, format_preset_recall)
       /\ Agree(preset_delete, format_preset_delete)
       /\ Agree(preset_status, format_preset_status)
  BY KindsCovered DEF Agree, preset_save, format_preset_save, preset_recall, format_preset_recall,
     preset_delete, format_preset_delete, preset_status, format_preset_status
<1>16. SUFFICES ASSUME NEW name \in CommandNames
                PROVE  Agree(Registry[name], Formatter[name])
  OBVIOUS
<1>17. name \in {"help", "status", "power_on", "power_off", "uptime", "temp", "reboot"}
       => Registry[name] = NoArgs /\ Formatter[name] = NoArgs
  BY DEF Registry, Formatter, help, status, power_on, power_off, uptime, temp, reboot
<1>18. \/ name \in {"help", "status", "power_on", "power_off", "uptime", "temp", "reboot"}
       \/ name \in {"output_volume", "output_mute", "route", "input_gain",
                     "input_mute", "output_remove", "output_delay",
                     "output_mix", "output_master_volume",
                     "output_master_mute", "output_channel_lock",
                     "group_volume", "group_mute", "preset_save",
                     "preset_recall", "preset_delete", "preset_status"}
  BY DEF CommandNames, Registry
<1>19. CASE name = "output_volume"
  <2>1. Registry[name] = output_volume /\ Formatter[name] = format_output_volume
    BY <1>19 DEF Registry, Formatter
  <2>2. QED BY <2>1, <1>2
<1>20. CASE name = "output_mute"
  <2>1. Registry[name] = output_mute /\ Formatter[name] = format_output_mute
    BY <1>20 DEF Registry, Formatter
  <2>2. QED BY <2>1, <1>3
<1>21. CASE name = "route"
  <2>1. Registry[name] = route /\ Formatter[name] = format_route
    BY <1>21 DEF Registry, Formatter
  <2>2. QED BY <2>1, <1>4
<1>22. CASE name = "input_gain"
  <2>1. Registry[name] = input_gain /\ Formatter[name] = format_input_gain
    BY <1>22 DEF Registry, Formatter
  <2>2. QED BY <2>1, <1>5
<1>23. CASE name = "input_mute"
  <2>1. Registry[name] = input_mute /\ Formatter[name] = format_input_mute
    BY <1>23 DEF Registry, Formatter
  <2>2. QED BY <2>1, <1>6
<1>24. CASE name = "output_remove"
  <2>1. Registry[name] = output_remove /\ Formatter[name] = format_output_remove
    BY <1>24 DEF Registry, Formatter
  <2>2. QED BY <2>1, <1>7
<1>25. CASE name = "output_delay"
  <2>1. Registry[name] = output_delay /\ Formatter[name] = format_output_delay
    BY <1>25 DEF Registry, Formatter
  <2>2. QED BY <2>1, <1>8
<1>26. CASE name = "output_mix"
  <2>1. Registry[name] = output_mix /\ Formatter[name] = format_output_mix
    BY <1>26 DEF Registry, Formatter
  <2>2. QED BY <2>1, <1>9
<1>27. CASE name = "output_master_volume"
  <2>1. Registry[name] = output_master_volume /\ Formatter[name] = format_output_master_volume
    BY <1>27 DEF Registry, Formatter
  <2>2. QED BY <2>1, <1>10
<1>28. CASE name = "output_master_mute"
  <2>1. Registry[name] = output_master_mute /\ Formatter[name] = format_output_master_mute
    BY <1>28 DEF Registry, Formatter
  <2>2. QED BY <2>1, <1>11
<1>29. CASE name = "output_channel_lock"
  <2>1. Registry[name] = output_channel_lock /\ Formatter[name] = format_output_channel_lock
    BY <1>29 DEF Registry, Formatter
  <2>2. QED BY <2>1, <1>12
<1>30. CASE name = "group_volume"
  <2>1. Registry[name] = group_volume /\ Formatter[name] = format_group_volume
    BY <1>30 DEF Registry, Formatter
  <2>2. QED BY <2>1, <1>13
<1>31. CASE name = "group_mute"
  <2>1. Registry[name] = group_mute /\ Formatter[name] = format_group_mute
    BY <1>31 DEF Registry, Formatter
  <2>2. QED BY <2>1, <1>14
<1>32. CASE name = "preset_save"
  <2>1. Registry[name] = preset_save /\ Formatter[name] = format_preset_save
    BY <1>32 DEF Registry, Formatter
  <2>2. QED BY <2>1, <1>15
<1>33. CASE name = "preset_recall"
  <2>1. Registry[name] = preset_recall /\ Formatter[name] = format_preset_recall
    BY <1>33 DEF Registry, Formatter
  <2>2. QED BY <2>1, <1>15
<1>34. CASE name = "preset_delete"
  <2>1. Registry[name] = preset_delete /\ Formatter[name] = format_preset_delete
    BY <1>34 DEF Registry, Formatter
  <2>2. QED BY <2>1, <1>15
<1>35. CASE name = "preset_status"
  <2>1. Registry[name] = preset_status /\ Formatter[name] = format_preset_status
    BY <1>35 DEF Registry, Formatter
  <2>2. QED BY <2>1, <1>15
<1>36. QED BY <1>1, <1>17, <1>18, <1>19, <1>20, <1>21, <1>22, <1>23, <1>24, <1>25,
     <1>26, <1>27, <1>28, <1>29, <1>30, <1>31, <1>32, <1>33, <1>34, <1>35

(* What validate accepts, a formatter builds: validate and the handlers    *)
(* (commands.py) agree, for arguments that name parameters of the command  *)
(* and give no optional one as None.                                       *)
THEOREM AcceptedIsBuilt ==
    ASSUME NEW name \in CommandNames, NEW args,
           DOMAIN args \subseteq DOMAIN Registry[name],
           \A p \in DOMAIN args : Registry[name][p].required \/ args[p] # None,
           Accepts(name, args)
    PROVE  Builds(name, args)
<1>1. Agree(Registry[name], Formatter[name]) BY TablesAgree
<1>2. DOMAIN args \subseteq DOMAIN Formatter[name] BY <1>1 DEF Agree
<1>3. ASSUME NEW p \in DOMAIN Formatter[name]
      PROVE  /\ p \in DOMAIN args \/ Formatter[name][p].default
             /\ p \in DOMAIN args /\ Formatter[name][p].among # {}
                   => args[p] \in Formatter[name][p].among
  <2>1. p \in DOMAIN Registry[name] BY <1>1 DEF Agree
  <2>2. Covered(Registry[name][p], Formatter[name][p]) BY <1>1, <2>1 DEF Agree
  <2>3. PassesAlone(Registry[name][p], args, p) BY <2>1 DEF Accepts
  <2>4. p \in DOMAIN args \/ Formatter[name][p].default
    BY <2>2, <2>3 DEF Covered, PassesAlone
  <2>5. ASSUME p \in DOMAIN args, Formatter[name][p].among # {}
        PROVE  args[p] \in Formatter[name][p].among
    <3>1. Given(Registry[name][p], args, p) BY <2>5 DEF Given
    <3>2. QED BY <3>1, <2>2, <2>3, <2>5 DEF Covered, PassesAlone
  <2>6. QED BY <2>4, <2>5
<1>4. QED BY <1>2, <1>3 DEF Builds

(* The command line refuses early: what argparse lets through and main     *)
(* dispatches after extract_kwargs and validate (cli/parser.py,            *)
(* cli/dispatcher.py) is built, so the connection it opens is never for a  *)
(* command that no formatter takes.                                        *)
THEOREM CliIsBuilt ==
    ASSUME NEW name \in CommandNames, NEW ns, ParsesAs(name, ns),
           \A p \in DOMAIN ns.given : Registry[name][p].required \/ ns.given[p] # None,
           Accepts(name, ExtractKwargs(name, ns))
    PROVE  Builds(name, ExtractKwargs(name, ns))
<1> DEFINE args == ExtractKwargs(name, ns)
<1>1. DOMAIN args = DOMAIN Registry[name] \cap Mentioned(ns) BY DEF ExtractKwargs
<1>2. ASSUME NEW p \in DOMAIN args
      PROVE  Registry[name][p].required \/ args[p] # None
  <2>1. CASE p \in ns.increase \cup ns.decrease
    <3>1. p \in DOMAIN Registry[name] BY <1>1, <1>2
    <3>2. Registry[name][p].supports_relative
      BY <2>1, <3>1 DEF ParsesAs, AddParameter
    <3>3. Covered(Registry[name][p], Formatter[name][p])
      BY <3>1, TablesAgree DEF Agree
    <3>4. QED BY <3>2, <3>3 DEF Covered
  <2>2. CASE p \notin ns.increase \cup ns.decrease
    <3>1. args[p] = ns.given[p] BY <1>1, <1>2, <2>2 DEF ExtractKwargs
    <3>2. p \in DOMAIN ns.given BY <1>1, <1>2, <2>2 DEF Mentioned
    <3>3. QED BY <3>1, <3>2
  <2>3. QED BY <2>1, <2>2
<1>3. QED BY <1>1, <1>2, AcceptedIsBuilt

(* What each kind of parameter lets through, given alone.                  *)
LEMMA KindsPass ==
    ASSUME NEW args, NEW p \in DOMAIN args
    PROVE  /\ args[p] \in 0 .. 8 => PassesAlone(AnOutput, args, p)
           /\ args[p] \in 0 .. 16 => PassesAlone(AnInput, args, p)
           /\ args[p] \in 1 .. 24 => PassesAlone(AColumn, args, p)
           /\ args[p] \in 1 .. 8 => PassesAlone(APreset, args, p)
           /\ args[p] \in 0 .. 4 => PassesAlone(AGroup, args, p)
           /\ args[p] \in 0 .. 6 => PassesAlone(AMode, args, p)
           /\ args[p] \in 0 .. 500 => PassesAlone(ADelay, args, p)
           /\ args[p] \in Channels => PassesAlone(AChannel, args, p)
           /\ PassesAlone(AFlag, args, p) /\ PassesAlone(ALevel, args, p)
           /\ \A q : args[p] \in Units => PassesAlone(AUnit(q), args, p)
BY DEF PassesAlone, Parameter, AnOutput, AnInput, AColumn, APreset, AGroup, AMode,
   ADelay, AChannel, AFlag, ALevel, AUnit

(* Only a unit depends on another parameter, and it may be left out.       *)
LEMMA KindsDepend ==
    ASSUME NEW args, NEW p
    PROVE  /\ PassesDependency(AnOutput, args, p) /\ PassesDependency(AnInput, args, p)
           /\ PassesDependency(AColumn, args, p) /\ PassesDependency(APreset, args, p)
           /\ PassesDependency(AGroup, args, p) /\ PassesDependency(AMode, args, p)
           /\ PassesDependency(ADelay, args, p) /\ PassesDependency(AChannel, args, p)
           /\ PassesDependency(AFlag, args, p) /\ PassesDependency(ALevel, args, p)
           /\ \A q : p \notin DOMAIN args
                => PassesAlone(AUnit(q), args, p) /\ PassesDependency(AUnit(q), args, p)
           /\ \A q \in DOMAIN args :
                ~IsRelative(args[q]) => PassesDependency(AUnit(q), args, p)
BY DEF PassesAlone, PassesDependency, Given, Parameter, AnOutput, AnInput, AColumn,
   APreset, AGroup, AMode, ADelay, AChannel, AFlag, ALevel, AUnit, None

(* Which kinds are required, and that None is no value of the others.      *)
LEMMA KindsRequired ==
    /\ AnOutput.required /\ AnInput.required /\ AColumn.required /\ APreset.required
    /\ AGroup.required /\ AMode.required /\ ADelay.required /\ AFlag.required
    /\ ALevel.required
    /\ \A x \in Channels \cup Units : x # None
BY DEF Parameter, AnOutput, AnInput, AColumn, APreset, AGroup, AMode, ADelay, AFlag,
   ALevel, Channels, Units, None

\* Arguments that validate accepts for params, none of an optional one None.
Fine(params, args) ==
    /\ DOMAIN args \subseteq DOMAIN params
    /\ \A p \in DOMAIN params :
          /\ PassesAlone(params[p], args, p) /\ PassesDependency(params[p], args, p)
          /\ p \in DOMAIN args => params[p].required \/ args[p] # None

(* An accepted call with no None is a call that is built.                  *)
LEMMA FineIsAccepted ==
    ASSUME NEW name \in CommandNames, NEW args, Fine(Registry[name], args)
    PROVE  Accepted(Execute(name, args))
<1>1. Accepts(name, args) BY DEF Fine, Accepts
<1>2. Builds(name, args) BY <1>1, AcceptedIsBuilt DEF Fine
<1>3. QED BY <1>1, <1>2 DEF Accepted, Execute

(* The methods of DMP168 (devices/dmp168/device.py:249-591), called with   *)
(* arguments in the ranges they document, execute commands that validate   *)
(* accepts and a formatter builds; relative levels go without a unit.      *)
THEOREM ApiIsAccepted ==
    /\ \A c \in {GetStatus, PowerOn, PowerOff, GetUptimeRaw, GetTemperature,
                  GetHelp, Reboot} : Accepted(c)
    /\ \A o \in 0 .. 8, level \in Level, unit \in Units, ch \in Channels :
          Accepted(SetOutputVolume(o, level, unit, ch))
    /\ \A i \in 0 .. 16, level \in Level, ch \in Channels, unit \in Units :
          Accepted(SetInputGain(i, level, ch, unit))
    /\ \A level \in Level, unit \in Units, ch \in Channels :
          Accepted(SetOutputMasterVolume(level, unit, ch))
    /\ \A g \in 0 .. 4, level \in Level, unit \in Units, ch \in Channels :
          Accepted(SetGroupVolume(g, level, unit, ch))
    /\ \A o \in 0 .. 8, flag \in BOOLEAN, ch \in Channels :
          Accepted(SetOutputMute(o, flag, ch))
    /\ \A c \in 1 .. 24, o \in 0 .. 8, ch \in Channels, ch2 \in Channels :
          Accepted(RouteInputToOutput(c, o, ch, ch2))
    /\ \A n \in 1 .. 8 :
          Accepted(SavePreset(n))
    /\ \A n \in 1 .. 8 :
          Accepted(RecallPreset(n))
    /\ \A n \in 1 .. 8 :
          Accepted(GetPresetStatus(n))
    /\ \A i \in 0 .. 16, flag \in BOOLEAN, ch \in Channels :
          Accepted(SetInputMute(i, flag, ch))
    /\ \A o \in 0 .. 8, c \in 1 .. 24, ch \in Channels, ch2 \in Channels :
          Accepted(RemoveInputFromOutput(o, c, ch, ch2))
    /\ \A o \in 0 .. 8, delay \in 0 .. 500, ch \in Channels :
          Accepted(SetOutputDelay(o, delay, ch))
    /\ \A o \in 0 .. 8, mode \in 0 .. 6 :
          Accepted(SetOutputMix(o, mode))
    /\ \A flag \in BOOLEAN, ch \in Channels :
          Accepted(SetOutputMasterMute(flag, ch))
    /\ \A o \in 0 .. 8, flag \in BOOLEAN, ch \in Channels :
          Accepted(SetOutputChannelLock(o, flag, ch))
    /\ \A g \in 0 .. 4, flag \in BOOLEAN, ch \in Channels :
          Accepted(SetGroupMute(g, flag, ch))
<1> USE KindsPass, KindsDepend, KindsRequired DEF Fine, Execute
<1>1. ASSUME NEW c \in {GetStatus, PowerOn, PowerOff, GetUptimeRaw,
                       GetTemperature, GetHelp, Reboot}
      PROVE  Accepted(c)
  <2>1. PICK name \in {"help", "status", "power_on", "power_off", "uptime",
                     "temp", "reboot"} : c = Execute(name, NoArgs)
    BY <1>1 DEF GetStatus, PowerOn, PowerOff, GetUptimeRaw, GetTemperature,
      GetHelp, Reboot
  <2>2. name \in CommandNames /\ Registry[name] = NoArgs
    BY <2>1 DEF CommandNames, Registry, help, status, power_on, power_off,
      uptime, temp, reboot
  <2>3. Fine(NoArgs, NoArgs)
    <3>1. DOMAIN NoArgs = {} BY SMT DEF NoArgs
    <3>2. QED BY <3>1 DEF Fine
  <2>4. Fine(Registry[name], NoArgs) BY <2>2, <2>3
  <2>5. Accepted(Execute(name, NoArgs)) BY <2>2, <2>4, FineIsAccepted
  <2>6. QED BY <2>1, <2>5
<1>2. ASSUME NEW o \in 0 .. 8, NEW level \in Level, NEW unit \in Units,
             NEW ch \in Channels
      PROVE  Accepted(SetOutputVolume(o, level, unit, ch))
  <2>1. Fine(output_volume, SetOutputVolume(o, level, unit, ch).args)
    <3>1. CASE IsRelative(level) BY <3>1 DEF SetOutputVolume, output_volume
    <3>2. CASE ~IsRelative(level) BY <3>2 DEF SetOutputVolume, output_volume
    <3>3. QED BY <3>1, <3>2
  <2>2. "output_volume" \in CommandNames /\ Registry["output_volume"] = output_volume
    BY DEF CommandNames, Registry
  <2>3. QED BY <2>1, <2>2, FineIsAccepted DEF SetOutputVolume
<1>3. ASSUME NEW i \in 0 .. 16, NEW level \in Level, NEW ch \in Channels,
             NEW unit \in Units
      PROVE  Accepted(SetInputGain(i, level, ch, unit))
  <2>1. Fine(input_gain, SetInputGain(i, level, ch, unit).args)
    <3>1. CASE IsRelative(level) BY <3>1 DEF SetInputGain, input_gain
    <3>2. CASE ~IsRelative(level) BY <3>2 DEF SetInputGain, input_gain
    <3>3. QED BY <3>1, <3>2
  <2>2. "input_gain" \in CommandNames /\ Registry["input_gain"] = input_gain
    BY DEF CommandNames, Registry
  <2>3. QED BY <2>1, <2>2, FineIsAccepted DEF SetInputGain
<1>4. ASSUME NEW level \in Level, NEW unit \in Units, NEW ch \in Channels
      PROVE  Accepted(SetOutputMasterVolume(level, unit, ch))
  <2>1. Fine(output_master_volume, SetOutputMasterVolume(level, unit, ch).args)
    <3>1. CASE IsRelative(level) BY <3>1 DEF SetOutputMasterVolume, output_master_volume
    <3>2. CASE ~IsRelative(level) BY <3>2 DEF SetOutputMasterVolume, output_master_volume
    <3>3. QED BY <3>1, <3>2
  <2>2. /\ "output_master_volume" \in CommandNames
        /\ Registry["output_master_volume"] = output_master_volume
    BY DEF CommandNames, Registry
  <2>3. QED BY <2>1, <2>2, FineIsAccepted DEF SetOutputMasterVolume
<1>5. ASSUME NEW g \in 0 .. 4, NEW level \in Level, NEW unit \in Units,
             NEW ch \in Channels
      PROVE  Accepted(SetGroupVolume(g, level, unit, ch))
  <2>1. Fine(group_volume, SetGroupVolume(g, level, unit, ch).args)
    <3>1. CASE IsRelative(level) BY <3>1 DEF SetGroupVolume, group_volume
    <3>2. CASE ~IsRelative(level) BY <3>2 DEF SetGroupVolume, group_volume
    <3>3. QED BY <3>1, <3>2
  <2>2. "group_volume" \in CommandNames /\ Registry["group_volume"] = group_volume
    BY DEF CommandNames, Registry
  <2>3. QED BY <2>1, <2>2, FineIsAccepted DEF SetGroupVolume
<1>6. ASSUME NEW o \in 0 .. 8, NEW flag \in BOOLEAN, NEW ch \in Channels
      PROVE  Accepted(SetOutputMute(o, flag, ch))
  <2>1. Fine(output_mute, SetOutputMute(o, flag, ch).args)
    BY DEF SetOutputMute, output_mute
  <2>2. "output_mute" \in CommandNames /\ Registry["output_mute"] = output_mute
    BY DEF CommandNames, Registry
  <2>3. QED BY <2>1, <2>2, FineIsAccepted DEF SetOutputMute
<1>7. ASSUME NEW c \in 1 .. 24, NEW o \in 0 .. 8, NEW ch \in Channels,
             NEW ch2 \in Channels
      PROVE  Accepted(RouteInputToOutput(c, o, ch, ch2))
  <2>1. Fine(route, RouteInputToOutput(c, o, ch, ch2).args)
    BY DEF RouteInputToOutput, route
  <2>2. "route" \in CommandNames /\ Registry["route"] = route
    BY DEF CommandNames, Registry
  <2>3. QED BY <2>1, <2>2, FineIsAccepted DEF RouteInputToOutput
<1>8. ASSUME NEW n \in 1 .. 8
      PROVE  Accepted(SavePreset(n))
  <2>1. Fine(preset_save, SavePreset(n).args)
    BY DEF SavePreset, preset_save
  <2>2. "preset_save" \in CommandNames /\ Registry["preset_save"] = preset_save
    BY DEF CommandNames, Registry
  <2>3. QED BY <2>1, <2>2, FineIsAccepted DEF SavePreset
<1>9. ASSUME NEW n \in 1 .. 8
      PROVE  Accepted(RecallPreset(n))
  <2>1. Fine(preset_recall, RecallPreset(n).args)
    BY DEF RecallPreset, preset_recall
  <2>2. "preset_recall" \in CommandNames /\ Registry["preset_recall"] = preset_recall
    BY DEF CommandNames, Registry
  <2>3. QED BY <2>1, <2>2, FineIsAccepted DEF RecallPreset
<1>10. ASSUME NEW n \in 1 .. 8
      PROVE  Accepted(GetPresetStatus(n))
  <2>1. Fine(preset_status, GetPresetStatus(n).args)
    BY DEF GetPresetStatus, preset_status
  <2>2. "preset_status" \in CommandNames /\ Registry["preset_status"] = preset_status
    BY DEF CommandNames, Registry
  <2>3. QED BY <2>1, <2>2, FineIsAccepted DEF GetPresetStatus
<1>11. ASSUME NEW i \in 0 .. 16, NEW flag \in BOOLEAN, NEW ch \in Channels
      PROVE  Accepted(SetInputMute(i, flag, ch))
  <2>1. Fine(input_mute, SetInputMute(i, flag, ch).args)
    BY DEF SetInputMute, input_mute
  <2>2. "input_mute" \in CommandNames /\ Registry["input_mute"] = input_mute
    BY DEF CommandNames, Registry
  <2>3. QED BY <2>1, <2>2, FineIsAccepted DEF SetInputMute
<1>12. ASSUME NEW o \in 0 .. 8, NEW c \in 1 .. 24, NEW ch \in Channels,
              NEW ch2 \in Channels
      PROVE  Accepted(RemoveInputFromOutput(o, c, ch, ch2))
  <2>1. Fine(output_remove, RemoveInputFromOutput(o, c, ch, ch2).args)
    BY DEF RemoveInputFromOutput, output_remove
  <2>2. "output_remove" \in CommandNames /\ Registry["output_remove"] = output_remove
    BY DEF CommandNames, Registry
  <2>3. QED BY <2>1, <2>2, FineIsAccepted DEF RemoveInputFromOutput
<1>13. ASSUME NEW o \in 0 .. 8, NEW delay \in 0 .. 500, NEW ch \in Channels
      PROVE  Accepted(SetOutputDelay(o, delay, ch))
  <2>1. Fine(output_delay, SetOutputDelay(o, delay, ch).args)
    BY DEF SetOutputDelay, output_delay
  <2>2. "output_delay" \in CommandNames /\ Registry["output_delay"] = output_delay
    BY DEF CommandNames, Registry
  <2>3. QED BY <2>1, <2>2, FineIsAccepted DEF SetOutputDelay
<1>14. ASSUME NEW o \in 0 .. 8, NEW mode \in 0 .. 6
      PROVE  Accepted(SetOutputMix(o, mode))
  <2>1. Fine(output_mix, SetOutputMix(o, mode).args)
    BY DEF SetOutputMix, output_mix
  <2>2. "output_mix" \in CommandNames /\ Registry["output_mix"] = output_mix
    BY DEF CommandNames, Registry
  <2>3. QED BY <2>1, <2>2, FineIsAccepted DEF SetOutputMix
<1>15. ASSUME NEW flag \in BOOLEAN, NEW ch \in Channels
      PROVE  Accepted(SetOutputMasterMute(flag, ch))
  <2>1. Fine(output_master_mute, SetOutputMasterMute(flag, ch).args)
    BY DEF SetOutputMasterMute, output_master_mute
  <2>2. /\ "output_master_mute" \in CommandNames
        /\ Registry["output_master_mute"] = output_master_mute
    BY DEF CommandNames, Registry
  <2>3. QED BY <2>1, <2>2, FineIsAccepted DEF SetOutputMasterMute
<1>16. ASSUME NEW o \in 0 .. 8, NEW flag \in BOOLEAN, NEW ch \in Channels
      PROVE  Accepted(SetOutputChannelLock(o, flag, ch))
  <2>1. Fine(output_channel_lock, SetOutputChannelLock(o, flag, ch).args)
    BY DEF SetOutputChannelLock, output_channel_lock
  <2>2. /\ "output_channel_lock" \in CommandNames
        /\ Registry["output_channel_lock"] = output_channel_lock
    BY DEF CommandNames, Registry
  <2>3. QED BY <2>1, <2>2, FineIsAccepted DEF SetOutputChannelLock
<1>17. ASSUME NEW g \in 0 .. 4, NEW flag \in BOOLEAN, NEW ch \in Channels
      PROVE  Accepted(SetGroupMute(g, flag, ch))
  <2>1. Fine(group_mute, SetGroupMute(g, flag, ch).args)
    BY DEF SetGroupMute, group_mute
  <2>2. "group_mute" \in CommandNames /\ Registry["group_mute"] = group_mute
    BY DEF CommandNames, Registry
  <2>3. QED BY <2>1, <2>2, FineIsAccepted DEF SetGroupMute
<1>18. QED BY <1>1, <1>2, <1>3, <1>4, <1>5, <1>6, <1>7, <1>8, <1>9, <1>10,
              <1>11, <1>12, <1>13, <1>14, <1>15, <1>16, <1>17

-----------------------------------------------------------------------------
\* What a connection is asked to send: accepted, built, its level on the scale.
ArgsTyped(args) ==
    \A p \in DOMAIN args :
        /\ p = "level" => args[p] \in ({"abs"} \X (0 .. 100)) \cup ({"rel"} \X {"+", "-"})
        /\ p = "mute" => args[p] \in BOOLEAN
Sendable(c) == c.name \in CommandNames /\ Accepted(c) /\ ArgsTyped(c.args)

(* A command that is built has the arguments the matrix reads.             *)
LEMMA SentArguments ==
    ASSUME NEW c, Sendable(c)
    PROVE  /\ c.name \in {"route", "output_remove"} => c.args["input"] \in 1 .. 24
           /\ c.name = "output_volume" =>
                 c.args["level"] \in ({"abs"} \X (0 .. 100)) \cup ({"rel"} \X {"+", "-"})
           /\ c.name = "output_mute" => c.args["mute"] \in BOOLEAN
<1>1. ASSUME c.name = "route" PROVE c.args["input"] \in 1 .. 24
  <2>1. Formatter[c.name] = format_route
    BY <1>1 DEF Formatter
  <2>2. QED BY <2>1 DEF Sendable, Accepted, Builds, format_route, Positional, Defaulted
<1>2. ASSUME c.name = "output_remove" PROVE c.args["input"] \in 1 .. 24
  <2>1. Formatter[c.name] = format_output_remove
    BY <1>2 DEF Formatter
  <2>2. QED
    BY <2>1 DEF Sendable, Accepted, Builds, format_output_remove, Positional, Defaulted
<1>3. ASSUME c.name = "output_volume"
      PROVE  c.args["level"] \in ({"abs"} \X (0 .. 100)) \cup ({"rel"} \X {"+", "-"})
  <2>1. Formatter[c.name] = format_output_volume
    BY <1>3 DEF Formatter
  <2>2. "level" \in DOMAIN c.args
    BY <2>1 DEF Sendable, Accepted, Builds, format_output_volume, Positional, Defaulted
  <2>3. QED BY <2>2 DEF Sendable, ArgsTyped
<1>4. ASSUME c.name = "output_mute" PROVE c.args["mute"] \in BOOLEAN
  <2>1. Formatter[c.name] = format_output_mute
    BY <1>4 DEF Formatter
  <2>2. "mute" \in DOMAIN c.args
    BY <2>1 DEF Sendable, Accepted, Builds, format_output_mute, Positional, Defaulted
  <2>3. QED BY <2>2 DEF Sendable, ArgsTyped
<1>5. QED BY <1>1, <1>2, <1>3, <1>4

(* The matrix keeps to its settings, whatever command it is sent.          *)
LEMMA ObeyedSettings ==
    ASSUME NEW m \in Settings, NEW c, Sendable(c)
    PROVE  Obey(m, c) \in Settings
<1>1. CASE c.name = "power_on"
  BY <1>1 DEF Obey, Settings
<1>2. CASE c.name = "power_off"
  BY <1>2 DEF Obey, Settings
<1>3. CASE c.name = "route"
  <2> DEFINE s == Change(m.source, c, Arg(c, "output_channel", "LR"),
                         LAMBDA old : c.args.input)
  <2>1. c.args.input \in 0 .. 24
    BY <1>3, SentArguments
  <2>2. s \in [Outputs -> [Sides -> 0 .. 24]]
    BY <2>1 DEF Change, Settings
  <2>3. Obey(m, c) = [m EXCEPT !.source = s]
    BY <1>3 DEF Obey
  <2>4. QED BY ZenonT(30), <2>2, <2>3 DEF Settings
<1>4. CASE c.name = "output_remove"
  <2> DEFINE s == Change(m.source, c, Arg(c, "output_channel", "LR"),
                         LAMBDA old : IF old = c.args.input THEN 0 ELSE old)
  <2>1. s \in [Outputs -> [Sides -> 0 .. 24]]
    BY DEF Change, Settings
  <2>2. Obey(m, c) = [m EXCEPT !.source = s]
    BY <1>4 DEF Obey
  <2>3. QED BY ZenonT(30), <2>1, <2>2 DEF Settings
<1>5. CASE c.name = "output_volume"
  <2> DEFINE s == Change(m.level, c, Arg(c, "channel", "LR"),
                         LAMBDA old : NewLevel(c.args.level, old))
  <2>1. c.args.level \in ({"abs"} \X (0 .. 100)) \cup ({"rel"} \X {"+", "-"})
    BY <1>5, SentArguments
  <2>2. ASSUME NEW old \in 0 .. 100 PROVE NewLevel(c.args.level, old) \in 0 .. 100
    BY <2>1 DEF NewLevel
  <2>3. s \in [Outputs -> [Sides -> 0 .. 100]]
    BY ZenonT(30), <2>2 DEF Change, Settings
  <2>4. Obey(m, c) = [m EXCEPT !.level = s]
    BY <1>5 DEF Obey
  <2> HIDE DEF s
  <2>5. QED BY ZenonT(30), <2>3, <2>4 DEF Settings
<1>6. CASE c.name = "output_mute"
  <2> DEFINE s == Change(m.mute, c, Arg(c, "channel", "LR"), LAMBDA old : c.args.mute)
  <2>1. c.args.mute \in BOOLEAN
    BY <1>6, SentArguments
  <2>2. s \in [Outputs -> [Sides -> BOOLEAN]]
    BY <2>1 DEF Change, Settings
  <2>3. Obey(m, c) = [m EXCEPT !.mute = s]
    BY <1>6 DEF Obey
  <2>4. QED BY <2>2, <2>3 DEF Settings
<1>7. CASE c.name \notin {"power_on", "power_off", "route", "output_remove",
                          "output_volume", "output_mute"}
  BY <1>7 DEF Obey
<1>8. QED BY <1>1, <1>2, <1>3, <1>4, <1>5, <1>6, <1>7

(* The outputs and the percentages of a service are ones the methods take. *)
LEMMA OutputsAndPercents ==
    /\ \A o \in Outputs : o \in 1 .. 8 /\ o \in 0 .. 8
    /\ \A percent \in Percents : <<"abs", percent>> \in ({"abs"} \X (0 .. 100))
    /\ ({"abs"} \X (0 .. 100)) \subseteq Level /\ ({"rel"} \X {"+", "-"}) \subseteq Level
<1>1. \A o \in Outputs : o \in 1 .. 8 /\ o \in 0 .. 8
  BY SettingsAssumption
<1>2. \A percent \in Percents : percent \in 0 .. 100
  BY SettingsAssumption
<1>3. ({"abs"} \X (0 .. 100)) \subseteq {"abs"} \X Int
  OBVIOUS
<1>4. QED BY <1>1, <1>2, <1>3 DEF Level

(* What the power switch, the reboot button and the poll send.             *)
LEMMA PlainCommands ==
    /\ Sendable(GetStatus) /\ Sendable(PowerOn) /\ Sendable(PowerOff) /\ Sendable(Reboot)
<1> SUFFICES ASSUME NEW c \in {GetStatus, PowerOn, PowerOff, Reboot} PROVE Sendable(c)
  OBVIOUS
<1>1. Accepted(c)
  BY ApiIsAccepted
<1>2. c.args = NoArgs /\ c.name \in {"status", "power_on", "power_off", "reboot"}
  BY DEF GetStatus, PowerOn, PowerOff, Reboot, Execute
<1>3. c.name \in CommandNames
  BY <1>2 DEF CommandNames, Registry
<1>4. DOMAIN NoArgs = {}
  BY SMT DEF NoArgs
<1>5. QED BY <1>1, <1>2, <1>3, <1>4 DEF Sendable, ArgsTyped

(* What the volume and the mute of a media player send.                    *)
LEMMA VolumeCommands ==
    ASSUME NEW o \in Outputs
    PROVE  /\ \A percent \in Percents :
                 Sendable(SetOutputVolume(o, <<"abs", percent>>, "percent", "LR"))
           /\ \A sign \in {"+", "-"} :
                 Sendable(SetOutputVolume(o, <<"rel", sign>>, "percent", "LR"))
           /\ \A mute \in BOOLEAN : Sendable(SetOutputMute(o, mute, "LR"))
<1>1. o \in 0 .. 8 /\ "percent" \in Units /\ "LR" \in Channels
  BY OutputsAndPercents DEF Units, Channels
<1>2. "output_volume" \in CommandNames /\ "output_mute" \in CommandNames
  BY DEF CommandNames, Registry
<1>3. ASSUME NEW level \in ({"abs"} \X (0 .. 100)) \cup ({"rel"} \X {"+", "-"})
      PROVE  Sendable(SetOutputVolume(o, level, "percent", "LR"))
  <2> DEFINE c == SetOutputVolume(o, level, "percent", "LR")
  <2>1. level \in Level
    BY OutputsAndPercents
  <2>2. Accepted(c)
    BY <1>1, <2>1, ApiIsAccepted
  <2>3. c.name = "output_volume" /\ ArgsTyped(c.args)
    BY DEF SetOutputVolume, Execute, ArgsTyped
  <2>4. QED BY <1>2, <2>2, <2>3 DEF Sendable
<1>4. ASSUME NEW mute \in BOOLEAN PROVE Sendable(SetOutputMute(o, mute, "LR"))
  <2> DEFINE c == SetOutputMute(o, mute, "LR")
  <2>1. Accepted(c)
    BY <1>1, ApiIsAccepted
  <2>2. c.name = "output_mute" /\ ArgsTyped(c.args)
    BY DEF SetOutputMute, Execute, ArgsTyped
  <2>3. QED BY <1>2, <2>1, <2>2 DEF Sendable
<1>5. \A percent \in Percents : <<"abs", percent>> \in ({"abs"} \X (0 .. 100))
  BY OutputsAndPercents
<1>6. \A sign \in {"+", "-"} : <<"rel", sign>> \in ({"rel"} \X {"+", "-"})
  OBVIOUS
<1>7. QED BY <1>3, <1>4, <1>5, <1>6

(* A source of the list has a column the library can route and remove, and *)
(* is found again by its label.                                            *)
LEMMA SourcesHaveColumns ==
    ASSUME NEW column \in 0 .. 24
    PROVE  /\ Column(SourceToken(column)) = column
           /\ SourceToken(column) = NoSource <=> column = 0
           /\ LabelToSource(SourceToLabel(SourceToken(column))) = SourceToken(column)
<1>1. CASE column = 0
  <2>1. SourceToken(column) = NoSource
    BY <1>1 DEF SourceToken
  <2>2. LabelToSource(SourceToLabel(NoSource)) = NoSource
    BY DEF LabelToSource, SourceToLabel, NoSource
  <2>3. QED BY <1>1, <2>1, <2>2 DEF Column, NoSource
<1>2. CASE column \in 1 .. 16
  <2>1. SourceToken(column) = ForInput(column)
    BY <1>2 DEF SourceToken
  <2>2. LabelToSource(SourceToLabel(ForInput(column))) = ForInput(column)
    BY DEF LabelToSource, SourceToLabel, ForInput
  <2>3. ForInput(column) # NoSource
    BY DEF ForInput, NoSource
  <2>4. QED BY <1>2, <2>1, <2>2, <2>3 DEF Column, ForInput
<1>3. CASE column \in 17 .. 24
  <2>1. SourceToken(column) = ForBus(column - 16)
    BY <1>3 DEF SourceToken
  <2>2. LabelToSource(SourceToLabel(ForBus(column - 16))) = ForBus(column - 16)
    BY DEF LabelToSource, SourceToLabel, ForBus
  <2>3. ForBus(column - 16) # NoSource
    BY DEF ForBus, NoSource
  <2>4. QED BY <1>3, <2>1, <2>2, <2>3 DEF Column, ForBus
<1>4. QED BY <1>1, <1>2, <1>3

(* What a media player sends to select a source, and then to clear it.     *)
LEMMA SourceCommands ==
    ASSUME NEW o \in Outputs, NEW source, Column(source) \in 1 .. 24
    PROVE  /\ Sendable(Execute("route", [output |-> o, input |-> Column(source)]))
           /\ Sendable(ClearOutput(o, source))
<1> DEFINE args == [output |-> o, input |-> Column(source)]
<1>1. /\ DOMAIN args = {"output", "input"} /\ args["output"] \in 0 .. 8
      /\ args["input"] \in 1 .. 24
  BY OutputsAndPercents
<1> HIDE DEF args
<1>2. /\ Registry["route"] = route /\ Registry["output_remove"] = output_remove
      /\ "route" \in CommandNames /\ "output_remove" \in CommandNames
  BY DEF Registry, CommandNames
<1>3. \A p : p \notin DOMAIN args => PassesAlone(AChannel, args, p)
  BY DEF PassesAlone, Given, AChannel, Parameter
<1>4. /\ PassesAlone(AnOutput, args, "output") /\ PassesAlone(AColumn, args, "input")
      /\ PassesAlone(AChannel, args, "output_channel")
      /\ PassesAlone(AChannel, args, "input_channel")
      /\ \A p : /\ PassesDependency(AnOutput, args, p) /\ PassesDependency(AColumn, args, p)
               /\ PassesDependency(AChannel, args, p)
  BY <1>1, <1>3, KindsPass, KindsDepend
<1>5. Fine(route, args) /\ Fine(output_remove, args)
  BY <1>1, <1>4, KindsRequired DEF Fine, route, output_remove
<1>6. ArgsTyped(args)
  BY <1>1 DEF ArgsTyped
<1>7. \A name \in {"route", "output_remove"} : Accepted(Execute(name, args))
  BY <1>2, <1>5, FineIsAccepted
<1>8. \A name \in {"route", "output_remove"} : Sendable(Execute(name, args))
  BY <1>2, <1>6, <1>7 DEF Sendable, Execute
<1>9. QED BY <1>8 DEF ClearOutput, args

(* Only levels and gains go up or down in steps.                           *)
LEMMA MutesHaveNoSteps ==
    ASSUME NEW name \in CommandNames, "mute" \in DOMAIN Registry[name]
    PROVE  ~Registry[name]["mute"].supports_relative
<1>1. ~AFlag.supports_relative
  BY DEF AFlag, Parameter
<1>2. \A n \in {"output_mute", "input_mute", "output_master_mute", "group_mute"} :
         n = name => Registry[name]["mute"] = AFlag
  BY DEF Registry, output_mute, input_mute, output_master_mute, group_mute
<1>3. name \in {"output_mute", "input_mute", "output_master_mute", "group_mute"}
  <2>1. SUFFICES ASSUME name \notin {"output_mute", "input_mute", "output_master_mute",
                                     "group_mute"}
                 PROVE  "mute" \notin DOMAIN Registry[name]
    OBVIOUS
  <2>2. QED
    BY <2>1, SMTT(60) DEF Registry, CommandNames, NoArgs, help, status, power_on, power_off,
       output_volume, route, preset_save, preset_recall, input_gain, preset_delete,
       preset_status, output_remove, output_delay, output_mix, output_master_volume,
       output_channel_lock, uptime, temp, reboot, group_volume
<1>4. QED BY <1>1, <1>2, <1>3

(* What the command line connects for, it can send.                        *)
LEMMA CliCommands ==
    ASSUME NEW call \in CliCalls, ParsesAs(call.name, call.ns),
           Accepts(call.name, ExtractKwargs(call.name, call.ns))
    PROVE  Sendable(Execute(call.name, ExtractKwargs(call.name, call.ns)))
<1> DEFINE args == ExtractKwargs(call.name, call.ns)
<1>1. /\ call.name \in CommandNames
      /\ \A p \in DOMAIN call.ns.given :
            /\ p = "level" => call.ns.given[p] \in {"abs"} \X (0 .. 100)
            /\ p = "mute" => call.ns.given[p] \in BOOLEAN
            /\ Registry[call.name][p].required \/ call.ns.given[p] # None
  BY CliAssumption
<1>2. Builds(call.name, args)
  BY <1>1, CliIsBuilt
<1>3. ASSUME NEW p \in DOMAIN args
      PROVE  /\ p = "level" =>
                  args[p] \in ({"abs"} \X (0 .. 100)) \cup ({"rel"} \X {"+", "-"})
             /\ p = "mute" => args[p] \in BOOLEAN
  <2>1. p \in DOMAIN Registry[call.name] \cap Mentioned(call.ns)
    BY <1>3 DEF ExtractKwargs
  <2>2. CASE p \in call.ns.increase \cup call.ns.decrease
    <3>1. args[p] \in {"rel"} \X {"+", "-"}
      BY <2>1, <2>2 DEF ExtractKwargs
    <3>2. Registry[call.name][p].supports_relative
      BY <2>1, <2>2 DEF ParsesAs, AddParameter
    <3>3. p # "mute"
      BY <1>1, <2>1, <3>2, MutesHaveNoSteps
    <3>4. QED BY <3>1, <3>3
  <2>3. CASE p \notin call.ns.increase \cup call.ns.decrease
    <3>1. p \in DOMAIN call.ns.given /\ args[p] = call.ns.given[p]
      BY <2>1, <2>3 DEF ExtractKwargs, Mentioned
    <3>2. QED BY <1>1, <3>1
  <2>4. QED BY <2>2, <2>3
<1>4. QED BY <1>1, <1>2, <1>3 DEF Sendable, Accepted, Execute, ArgsTyped

-----------------------------------------------------------------------------
\* The lines of a STATUS report.
SettingsLine ==
    {"outset"} \X Outputs \X (0 .. 100) \X (0 .. 100) \X BOOLEAN \X BOOLEAN
ReportLine ==
    { <<k>> : k \in {"header", "matrix", "inputs", "outputs"} }
    \cup { <<k, 1>> : k \in {"in", "ineq"} } \cup { <<"data", p>> : p \in {"On", "Off"} }
    \cup { <<"route", o, s, c>> : o \in Outputs, s \in Sides, c \in 0 .. 24 }
    \cup SettingsLine
    \cup { <<"outeq", o>> : o \in Outputs }

(* The reports leave out the line of the columns' names.                   *)
LEMMA TitlesOfReport == \A line \in ReportLine : Kind(line) # "columns"
  BY DEF ReportLine, SettingsLine, Kind

(* What the rows and titles of a report are made of.                       *)
LEMMA LinesOfReport ==
    /\ \A o \in Outputs, s \in Sides, c \in 0 .. 24 : <<"route", o, s, c>> \in ReportLine
    /\ \A o \in Outputs, l \in 0 .. 100, r \in 0 .. 100, ml \in BOOLEAN, mr \in BOOLEAN :
          <<"outset", o, l, r, ml, mr>> \in ReportLine
    /\ \A o \in Outputs : <<"outeq", o>> \in ReportLine
<1>1. \A o \in Outputs, s \in Sides, c \in 0 .. 24 : <<"route", o, s, c>> \in ReportLine
  BY DEF ReportLine
<1>2. \A o \in Outputs, l \in 0 .. 100, r \in 0 .. 100, ml \in BOOLEAN, mr \in BOOLEAN :
         <<"outset", o, l, r, ml, mr>> \in ReportLine
  <2>1. \A o \in Outputs, l \in 0 .. 100, r \in 0 .. 100, ml \in BOOLEAN, mr \in BOOLEAN :
           <<"outset", o, l, r, ml, mr>> \in SettingsLine
    BY DEF SettingsLine
  <2>2. SettingsLine \subseteq ReportLine
    BY DEF ReportLine
  <2>3. QED BY <2>1, <2>2, Zenon
<1>3. \A o \in Outputs : <<"outeq", o>> \in ReportLine
  BY DEF ReportLine
<1>4. QED BY <1>1, <1>2, <1>3

(* A sequence given by its elements.                                       *)
LEMMA SeqOfLines ==
    ASSUME NEW n \in Nat, NEW S, NEW f \in [1 .. n -> S]
    PROVE  f \in Seq(S) /\ Len(f) = n
<1>1. f \in Seq(S)
  BY SeqDef
<1>2. DOMAIN f = 1 .. Len(f) /\ Len(f) \in Nat
  BY <1>1
<1>3. DOMAIN f = 1 .. n
  OBVIOUS
<1>4. QED BY <1>1, <1>2, <1>3

(* Two rows for each output, its left channel first.                       *)
LEMMA RoutesOfReport ==
    ASSUME NEW m \in Settings, NEW n \in Nat, Outputs = 1 .. n
    PROVE  /\ RouteRows(m) \in Seq(ReportLine) /\ Len(RouteRows(m)) = 2 * n
           /\ \A k \in 1 .. 2 * n : \E o \in Outputs, s \in Sides :
                 /\ k = (IF s = "L" THEN 2 * o - 1 ELSE 2 * o)
                 /\ RouteRows(m)[k] = <<"route", o, s, m.source[o][s]>>
           /\ \A o \in Outputs :
                 RouteRows(m)[2 * o - 1] = <<"route", o, "L", m.source[o]["L"]>>
<1>1. { 2 * o - 1 : o \in Outputs } \cup { 2 * o : o \in Outputs } = 1 .. 2 * n
  <2>1. ASSUME NEW k \in 1 .. 2 * n
        PROVE  \E o \in Outputs : k = 2 * o - 1 \/ k = 2 * o
    <3>1. (k + 1) \div 2 \in Outputs
      OBVIOUS
    <3>2. k = 2 * ((k + 1) \div 2) - 1 \/ k = 2 * ((k + 1) \div 2)
      OBVIOUS
    <3>3. QED BY <3>1, <3>2
  <2>2. \A o \in Outputs : 2 * o - 1 \in 1 .. 2 * n /\ 2 * o \in 1 .. 2 * n
    OBVIOUS
  <2>3. QED BY ZenonT(30), <2>1, <2>2
<1>2. ASSUME NEW o \in Outputs
      PROVE  /\ RouteRows(m)[2 * o - 1] = <<"route", o, "L", m.source[o]["L"]>>
             /\ RouteRows(m)[2 * o] = <<"route", o, "R", m.source[o]["R"]>>
  <2>1. /\ 2 * o - 1 \in 1 .. 2 * n /\ (2 * o - 1 + 1) \div 2 = o /\ (2 * o - 1) % 2 = 1
        /\ 2 * o \in 1 .. 2 * n /\ (2 * o + 1) \div 2 = o /\ (2 * o) % 2 # 1
    OBVIOUS
  <2>2. QED BY <1>1, <2>1 DEF RouteRows
<1>3. \A k \in 1 .. 2 * n : \E o \in Outputs : k = 2 * o - 1 \/ k = 2 * o
  BY <1>1
<1>4. ASSUME NEW k \in 1 .. 2 * n
      PROVE  \E o \in Outputs, s \in Sides :
                 /\ k = (IF s = "L" THEN 2 * o - 1 ELSE 2 * o)
                 /\ RouteRows(m)[k] = <<"route", o, s, m.source[o][s]>>
  <2>1. PICK o \in Outputs : k = 2 * o - 1 \/ k = 2 * o
    BY <1>3
  <2>2. CASE k = 2 * o - 1
    BY <1>2, <2>2 DEF Sides
  <2>3. CASE k = 2 * o
    BY <1>2, <2>3 DEF Sides
  <2>4. QED BY <2>1, <2>2, <2>3
<1>5. \A o \in Outputs, s \in Sides : <<"route", o, s, m.source[o][s]>> \in ReportLine
  <2>1. \A o \in Outputs, s \in Sides : m.source[o][s] \in 0 .. 24
    BY DEF Settings
  <2>2. QED BY <2>1, LinesOfReport, Zenon
<1>6. RouteRows(m) \in [1 .. 2 * n -> ReportLine]
  <2>1. RouteRows(m) = [k \in 1 .. 2 * n |-> RouteRows(m)[k]]
    BY <1>1 DEF RouteRows
  <2>2. \A k \in 1 .. 2 * n : RouteRows(m)[k] \in ReportLine
    BY <1>4, <1>5
  <2>3. QED BY <2>1, <2>2
<1>7. 2 * n \in Nat
  OBVIOUS
<1>8. QED BY <1>2, <1>4, <1>6, <1>7, SeqOfLines

\* What stands before the rows of a report, and between those of its sections.
Heads(m) == <<<<"header">>, <<"data", m.power>>, <<"matrix">>>>
Middle == <<<<"inputs">>, <<"in", 1>>, <<"ineq", 1>>, <<"outputs">>>>

(* Where everything is in a report.                                        *)
LEMMA ReportOfLines ==
    ASSUME NEW m \in Settings, NEW n \in Nat, Outputs = 1 .. n
    PROVE  /\ Report(m) \in Seq(ReportLine) /\ Len(Report(m)) = 7 + 4 * n
           /\ \A k \in 1 .. 3 : Report(m)[k] = Heads(m)[k]
           /\ \A k \in 1 .. 2 * n : Report(m)[3 + k] = RouteRows(m)[k]
           /\ \A k \in 1 .. 4 : Report(m)[3 + 2 * n + k] = Middle[k]
           /\ \A o \in 1 .. n : Report(m)[7 + 2 * n + o] = SettingsRows(m)[o]
           /\ \A o \in 1 .. n : Report(m)[7 + 3 * n + o] = <<"outeq", o>>
<1> DEFINE a == Heads(m)
           b == RouteRows(m)
           d == SettingsRows(m)
           e == [o \in Outputs |-> <<"outeq", o>>]
<1>1. a \in Seq(ReportLine) /\ Len(a) = 3
  BY DEF Heads, ReportLine, Settings
<1>2. b \in Seq(ReportLine) /\ Len(b) = 2 * n
  BY RoutesOfReport
<1>3. Middle \in Seq(ReportLine) /\ Len(Middle) = 4
  BY DEF Middle, ReportLine
<1>4. d \in Seq(ReportLine) /\ Len(d) = n
  <2>1. \A o \in Outputs :
           <<"outset", o, m.level[o]["L"], m.level[o]["R"], m.mute[o]["L"], m.mute[o]["R"]>>
              \in ReportLine
    <3>1. \A o \in Outputs, s \in Sides :
             m.level[o][s] \in 0 .. 100 /\ m.mute[o][s] \in BOOLEAN
      BY DEF Settings
    <3>2. "L" \in Sides /\ "R" \in Sides
      BY DEF Sides
    <3>3. QED BY <3>1, <3>2, LinesOfReport, Zenon
  <2>2. d \in [1 .. n -> ReportLine]
    BY <2>1 DEF SettingsRows
  <2>3. QED BY <2>2, SeqOfLines
<1>5. e \in Seq(ReportLine) /\ Len(e) = n /\ \A o \in 1 .. n : e[o] = <<"outeq", o>>
  <2>1. e \in [1 .. n -> ReportLine]
    BY DEF ReportLine
  <2>2. QED BY <2>1, SeqOfLines
<1>6. Report(m) = (((a \o b) \o Middle) \o d) \o e
  BY DEF Report, Heads, Middle
<1> HIDE DEF a, b, d, e
<1> DEFINE ab == a \o b
           abc == ab \o Middle
           abcd == abc \o d
<1>7. /\ ab \in Seq(ReportLine) /\ Len(ab) = 3 + 2 * n
      /\ \A k \in 1 .. 3 : ab[k] = a[k]
      /\ \A k \in 1 .. 2 * n : ab[3 + k] = b[k]
  <2>0. a \in Seq(ReportLine) /\ b \in Seq(ReportLine)
    BY <1>1, <1>2
  <2>1. ab \in Seq(ReportLine)
    BY <2>0, ConcatProperties
  <2>2. Len(ab) = 3 + 2 * n
    <3>1. Len(ab) = Len(a) + Len(b)
      BY <2>0, ConcatProperties
    <3>2. QED BY <1>1, <1>2, <3>1
  <2>3. ASSUME NEW k \in 1 .. 3 PROVE ab[k] = a[k]
    <3>1. k \in 1 .. Len(a)
      BY <1>1
    <3>2. QED BY <2>0, <3>1, ConcatProperties
  <2>4. ASSUME NEW k \in 1 .. 2 * n PROVE ab[3 + k] = b[k]
    <3>1. k \in 1 .. Len(b)
      BY <1>2
    <3>2. ab[Len(a) + k] = b[k]
      BY <2>0, <3>1, ConcatProperties
    <3>3. QED BY <1>1, <3>2
  <2>5. QED BY <2>1, <2>2, <2>3, <2>4
<1> HIDE DEF ab
<1>8. /\ abc \in Seq(ReportLine) /\ Len(abc) = 7 + 2 * n
      /\ \A k \in 1 .. 3 + 2 * n : abc[k] = ab[k]
      /\ \A k \in 1 .. 4 : abc[3 + 2 * n + k] = Middle[k]
  <2>0. ab \in Seq(ReportLine) /\ Middle \in Seq(ReportLine)
    BY <1>7, <1>3
  <2>1. abc \in Seq(ReportLine)
    BY <2>0, ConcatProperties
  <2>2. Len(abc) = 7 + 2 * n
    <3>1. Len(abc) = Len(ab) + Len(Middle)
      BY <2>0, ConcatProperties
    <3>2. QED BY <1>7, <1>3, <3>1
  <2>3. ASSUME NEW k \in 1 .. 3 + 2 * n PROVE abc[k] = ab[k]
    <3>1. k \in 1 .. Len(ab)
      BY <1>7
    <3>2. QED BY <2>0, <3>1, ConcatProperties
  <2>4. ASSUME NEW k \in 1 .. 4 PROVE abc[3 + 2 * n + k] = Middle[k]
    <3>1. k \in 1 .. Len(Middle)
      BY <1>3
    <3>2. abc[Len(ab) + k] = Middle[k]
      BY <2>0, <3>1, ConcatProperties
    <3>3. QED BY <1>7, <3>2
  <2>5. QED BY <2>1, <2>2, <2>3, <2>4
<1> HIDE DEF abc
<1>9. /\ abcd \in Seq(ReportLine) /\ Len(abcd) = 7 + 3 * n
      /\ \A k \in 1 .. 7 + 2 * n : abcd[k] = abc[k]
      /\ \A k \in 1 .. n : abcd[7 + 2 * n + k] = d[k]
  <2>0. abc \in Seq(ReportLine) /\ d \in Seq(ReportLine)
    BY <1>8, <1>4
  <2>1. abcd \in Seq(ReportLine)
    BY <2>0, ConcatProperties
  <2>2. Len(abcd) = 7 + 3 * n
    <3>1. Len(abcd) = Len(abc) + Len(d)
      BY <2>0, ConcatProperties
    <3>2. QED BY <1>8, <1>4, <3>1
  <2>3. ASSUME NEW k \in 1 .. 7 + 2 * n PROVE abcd[k] = abc[k]
    <3>1. k \in 1 .. Len(abc)
      BY <1>8
    <3>2. QED BY <2>0, <3>1, ConcatProperties
  <2>4. ASSUME NEW k \in 1 .. n PROVE abcd[7 + 2 * n + k] = d[k]
    <3>1. k \in 1 .. Len(d)
      BY <1>4
    <3>2. abcd[Len(abc) + k] = d[k]
      BY <2>0, <3>1, ConcatProperties
    <3>3. QED BY <1>8, <3>2
  <2>5. QED BY <2>1, <2>2, <2>3, <2>4
<1>10. Report(m) = abcd \o e
  BY <1>6 DEF ab, abc
<1> HIDE DEF abcd
<1>11. /\ Report(m) \in Seq(ReportLine) /\ Len(Report(m)) = 7 + 4 * n
       /\ \A k \in 1 .. 7 + 3 * n : Report(m)[k] = abcd[k]
       /\ \A k \in 1 .. n : Report(m)[7 + 3 * n + k] = e[k]
  <2>0. abcd \in Seq(ReportLine) /\ e \in Seq(ReportLine)
    BY <1>9, <1>5
  <2>1. abcd \o e \in Seq(ReportLine)
    BY <2>0, ConcatProperties
  <2>2. Len(abcd \o e) = 7 + 4 * n
    <3>1. Len(abcd \o e) = Len(abcd) + Len(e)
      BY <2>0, ConcatProperties
    <3>2. QED BY <1>9, <1>5, <3>1
  <2>3. ASSUME NEW k \in 1 .. 7 + 3 * n PROVE (abcd \o e)[k] = abcd[k]
    <3>1. k \in 1 .. Len(abcd)
      BY <1>9
    <3>2. QED BY <2>0, <3>1, ConcatProperties
  <2>4. ASSUME NEW k \in 1 .. n PROVE (abcd \o e)[7 + 3 * n + k] = e[k]
    <3>1. k \in 1 .. Len(e)
      BY <1>5
    <3>2. (abcd \o e)[Len(abcd) + k] = e[k]
      BY <2>0, <3>1, ConcatProperties
    <3>3. QED BY <1>9, <3>2
  <2>5. QED BY <2>1, <2>2, <2>3, <2>4, <1>10, Zenon
<1>12. /\ \A k \in 1 .. 3 : Report(m)[k] = a[k]
       /\ \A k \in 1 .. 2 * n : Report(m)[3 + k] = b[k]
  <2>1. ASSUME NEW k \in 1 .. 3 + 2 * n PROVE Report(m)[k] = ab[k]
    <3>1. k \in 1 .. 7 + 2 * n /\ k \in 1 .. 7 + 3 * n
      OBVIOUS
    <3>2. QED BY <1>8, <1>9, <1>11, <3>1
  <2>2. \A k \in 1 .. 2 * n : 3 + k \in 1 .. 3 + 2 * n
    OBVIOUS
  <2>3. \A k \in 1 .. 3 : k \in 1 .. 3 + 2 * n
    OBVIOUS
  <2>4. \A k \in 1 .. 3 : Report(m)[k] = a[k]
    BY <1>7, <2>1, <2>3
  <2>5. \A k \in 1 .. 2 * n : Report(m)[3 + k] = b[k]
    BY <1>7, <2>1, <2>2
  <2>6. QED BY <2>4, <2>5
<1>13. \A k \in 1 .. 4 : Report(m)[3 + 2 * n + k] = Middle[k]
  <2>1. \A k \in 1 .. 4 : 3 + 2 * n + k \in 1 .. 7 + 2 * n
                         /\ 3 + 2 * n + k \in 1 .. 7 + 3 * n
    OBVIOUS
  <2>2. \A k \in 1 .. 4 : Report(m)[3 + 2 * n + k] = abc[3 + 2 * n + k]
    BY <1>9, <1>11, <2>1
  <2>3. QED BY <1>8, <2>2
<1>14. \A o \in 1 .. n : Report(m)[7 + 2 * n + o] = d[o]
  BY <1>9, <1>11
<1>15. QED BY <1>5, <1>11, <1>12, <1>13, <1>14 DEF a, b, d

(* The kinds of its lines, section by section.                             *)
LEMMA KindsOfReport ==
    ASSUME NEW m \in Settings, NEW n \in Nat, Outputs = 1 .. n
    PROVE  /\ Kind(Report(m)[1]) = "header" /\ Report(m)[2] = <<"data", m.power>>
           /\ Kind(Report(m)[3]) = "matrix"
           /\ \A k \in 4 .. 3 + 2 * n : Kind(Report(m)[k]) = "route"
           /\ \A k \in 4 + 2 * n .. 7 + 4 * n :
                 /\ Kind(Report(m)[k]) # "route"
                 /\ Kind(Report(m)[k]) = "outputs" <=> k = 7 + 2 * n
                 /\ Kind(Report(m)[k]) = "outset" <=> k \in 8 + 2 * n .. 7 + 3 * n
<1>1. /\ Report(m)[1] = <<"header">> /\ Report(m)[2] = <<"data", m.power>>
      /\ Report(m)[3] = <<"matrix">>
  <2>1. /\ Heads(m)[1] = <<"header">> /\ Heads(m)[2] = <<"data", m.power>>
        /\ Heads(m)[3] = <<"matrix">>
    BY DEF Heads
  <2>2. 1 \in 1 .. 3 /\ 2 \in 1 .. 3 /\ 3 \in 1 .. 3
    OBVIOUS
  <2>3. QED BY <2>1, <2>2, ReportOfLines
<1>2. ASSUME NEW k \in 4 .. 3 + 2 * n PROVE Kind(Report(m)[k]) = "route"
  <2>1. k - 3 \in 1 .. 2 * n /\ 3 + (k - 3) = k
    OBVIOUS
  <2>2. Report(m)[k] = RouteRows(m)[k - 3]
    BY ZenonT(30), <2>1, ReportOfLines
  <2>3. PICK o \in Outputs, side \in Sides :
           RouteRows(m)[k - 3] = <<"route", o, side, m.source[o][side]>>
    BY <2>1, RoutesOfReport
  <2>4. QED BY <2>2, <2>3 DEF Kind
<1>3. /\ Kind(Middle[1]) = "inputs" /\ Kind(Middle[2]) = "in" /\ Kind(Middle[3]) = "ineq"
      /\ Kind(Middle[4]) = "outputs"
  BY DEF Middle, Kind
<1>4. ASSUME NEW k \in 4 + 2 * n .. 7 + 4 * n
      PROVE  /\ Kind(Report(m)[k]) # "route"
             /\ Kind(Report(m)[k]) = "outputs" <=> k = 7 + 2 * n
             /\ Kind(Report(m)[k]) = "outset" <=> k \in 8 + 2 * n .. 7 + 3 * n
  <2>1. CASE k <= 7 + 2 * n
    <3>1. k - (3 + 2 * n) \in 1 .. 4 /\ 3 + 2 * n + (k - (3 + 2 * n)) = k
      BY <2>1
    <3>2. Report(m)[k] = Middle[k - (3 + 2 * n)]
      BY ZenonT(30), <3>1, ReportOfLines
    <3>3. PICK j \in 1 .. 4 : j = k - (3 + 2 * n)
      BY <3>1
    <3>4. j = 1 \/ j = 2 \/ j = 3 \/ j = 4
      OBVIOUS
    <3>5. j = 4 <=> k = 7 + 2 * n
      BY <3>3
    <3>6. k \notin 8 + 2 * n .. 7 + 3 * n
      BY <2>1
    <3>7. QED BY <1>3, <3>2, <3>3, <3>4, <3>5, <3>6
  <2>2. CASE k > 7 + 2 * n /\ k <= 7 + 3 * n
    <3>1. PICK o \in 1 .. n : k = 7 + 2 * n + o
      <4>1. k - (7 + 2 * n) \in 1 .. n /\ k = 7 + 2 * n + (k - (7 + 2 * n))
        BY <2>2
      <4>2. QED BY <4>1
    <3>2. Report(m)[k] = SettingsRows(m)[o]
      BY <3>1, ReportOfLines
    <3>3. Kind(Report(m)[k]) = "outset"
      BY <3>2 DEF SettingsRows, Kind
    <3>4. QED BY <2>2, <3>3
  <2>3. CASE k > 7 + 3 * n
    <3>1. PICK o \in 1 .. n : k = 7 + 3 * n + o
      <4>1. k - (7 + 3 * n) \in 1 .. n /\ k = 7 + 3 * n + (k - (7 + 3 * n))
        BY <2>3
      <4>2. QED BY <4>1
    <3>2. Report(m)[k] = <<"outeq", o>>
      BY <3>1, ReportOfLines
    <3>3. Kind(Report(m)[k]) = "outeq"
      BY <3>2 DEF Kind
    <3>4. QED BY <2>3, <3>3
  <2>4. QED BY <2>1, <2>2, <2>3
<1>5. QED BY <1>1, <1>2, <1>4 DEF Kind

(* A report is read to its end: its power, ...                             *)
LEMMA ReportIsReadable ==
    ASSUME NEW m \in Settings
    PROVE  StatusReadable(Report(m)) /\ Power(Report(m)) = m.power
<1>1. PICK n \in Nat : Outputs = 1 .. n
  BY SettingsAssumption
<1> DEFINE text == Report(m)
           rest == After(text, "header")
<1>2. text \in Seq(ReportLine) /\ Len(text) = 7 + 4 * n
  BY <1>1, ReportOfLines
<1>3. Kind(text[1]) = "header" /\ text[2] = <<"data", m.power>>
  BY <1>1, KindsOfReport
<1> HIDE DEF text
<1>4. rest = SubSeq(text, 2, Len(text))
  <2>1. 1 \in 1 .. Len(text)
    BY <1>2
  <2>2. PICK k \in 1 .. Len(text) :
           /\ \A j \in 1 .. k - 1 : Kind(text[j]) # "header"
           /\ rest = SubSeq(text, k + 1, Len(text))
    BY <1>2, <1>3, <2>1, AfterTitle
  <2>3. k = 1
    BY <1>3, <2>2
  <2>4. QED BY <2>2, <2>3
<1>5. rest # <<>> /\ rest[1] = text[2]
  <2>1. Len(rest) = 6 + 4 * n /\ \A i \in 1 .. 6 + 4 * n : rest[i] = text[1 + i]
    BY <1>2, <1>4, SubSeqProperties
  <2>2. QED BY <2>1
<1> HIDE DEF rest
<1>6. Kind(rest[1]) = "data" /\ rest[1][2] = m.power
  BY <1>3, <1>5 DEF Kind
<1>7. SystemLine(text, {"data", "header", "in", "ineq", "outset", "outeq"})
  BY <1>5, <1>6 DEF SystemLine, rest
<1>8. Power(text) = m.power
  BY <1>6 DEF Power, rest
<1>9. QED BY <1>7, <1>8 DEF StatusReadable, LuaReadable, text

(* ... the sources of its outputs, ...                                     *)
LEMMA SourcesAreFound ==
    ASSUME NEW m \in Settings, NEW o \in Outputs
    PROVE  LET rows == StatusRouting(Report(m))
               row == FirstRow(rows, LAMBDA r : r.output = o /\ r.channel = "L")
           IN row # <<>> /\ row[1].source = SourceToken(m.source[o]["L"])
<1>1. PICK n \in Nat : Outputs = 1 .. n
  BY SettingsAssumption
<1> DEFINE text == Report(m)
           rest == After(text, "matrix")
           rows == StatusRouting(text)
           found == { k \in DOMAIN rows : rows[k].output = o /\ rows[k].channel = "L" }
<1>2. text \in Seq(ReportLine) /\ Len(text) = 7 + 4 * n
  BY <1>1, ReportOfLines
<1>3. /\ Kind(text[1]) # "matrix" /\ Kind(text[2]) # "matrix" /\ Kind(text[3]) = "matrix"
      /\ \A k \in 4 .. 3 + 2 * n : Kind(text[k]) = "route"
      /\ \A k \in 4 + 2 * n .. 7 + 4 * n : Kind(text[k]) # "route"
  BY <1>1, KindsOfReport DEF Kind
<1>4. \A k \in 1 .. 2 * n : text[3 + k] = RouteRows(m)[k]
  BY <1>1, ReportOfLines
<1> HIDE DEF text
<1>5. Len(rest) = 4 + 4 * n /\ \A i \in 1 .. 4 + 4 * n : rest[i] = text[3 + i]
      /\ rest \in Seq(ReportLine)
  <2>1. 3 \in 1 .. Len(text)
    BY <1>2
  <2>2. PICK k \in 1 .. Len(text) :
           /\ Kind(text[k]) = "matrix"
           /\ \A j \in 1 .. k - 1 : Kind(text[j]) # "matrix"
           /\ rest = SubSeq(text, k + 1, Len(text))
    BY <1>2, <1>3, <2>1, AfterTitle
  <2>3. k = 3
    BY <1>3, <2>2
  <2>4. rest = SubSeq(text, 3 + 1, Len(text))
    BY <2>2, <2>3
  <2>5. /\ rest \in Seq(ReportLine) /\ Len(rest) = Len(text) - 3
        /\ \A i \in 1 .. Len(text) - 3 : rest[i] = text[3 + i]
    BY ZenonT(30), <1>2, <2>1, <2>4, SuffixLines
  <2> HIDE DEF rest
  <2>6. QED BY <1>2, <2>5
<1> HIDE DEF rest
<1>6. /\ DOMAIN rows = 1 .. 2 * n
      /\ \A k \in 1 .. 2 * n : rows[k] = StatusRow(RouteRows(m)[k])
  <2>1. /\ DOMAIN rows = { k \in DOMAIN rest : Kind(rest[k]) \in {"route"} }
        /\ \A k \in DOMAIN rows : rows[k] = StatusRow(rest[k])
    <3>1. \A k \in 1 .. Len(text) : Kind(text[k]) # "columns"
      BY <1>2, TitlesOfReport
    <3>2. AfterAny(text, {"matrix", "columns"}) = rest
      BY <1>2, <3>1, EitherTitle DEF rest
    <3>3. QED BY <3>2 DEF StatusRouting, Rows, OfKind
  <2>2. DOMAIN rest = 1 .. 4 + 4 * n
    BY <1>5
  <2>3. ASSUME NEW k \in 1 .. 4 + 4 * n PROVE Kind(rest[k]) = "route" <=> k \in 1 .. 2 * n
    <3>1. rest[k] = text[3 + k]
      BY <1>5
    <3>2. CASE k <= 2 * n
      BY <1>3, <3>1, <3>2
    <3>3. CASE k > 2 * n
      <4>1. 3 + k \in 4 + 2 * n .. 7 + 4 * n
        BY <3>3
      <4>2. QED BY <1>3, <3>1, <3>3, <4>1
    <3>4. QED BY <3>2, <3>3
  <2>4. DOMAIN rows = 1 .. 2 * n
    BY <2>1, <2>2, <2>3
  <2>5. \A k \in 1 .. 2 * n : rest[k] = RouteRows(m)[k]
    BY <1>4, <1>5
  <2>6. QED BY <2>1, <2>4, <2>5
<1> HIDE DEF rows
<1>7. ASSUME NEW k \in 1 .. 2 * n, rows[k].output = o, rows[k].channel = "L"
      PROVE  k = 2 * o - 1
  <2>1. PICK p \in Outputs, s \in Sides :
           /\ k = (IF s = "L" THEN 2 * p - 1 ELSE 2 * p)
           /\ RouteRows(m)[k] = <<"route", p, s, m.source[p][s]>>
    BY <1>1, RoutesOfReport
  <2>2. rows[k].output = p /\ rows[k].channel = s
    BY <1>6, <2>1 DEF StatusRow
  <2>3. QED BY <1>7, <2>1, <2>2
<1>8. /\ 2 * o - 1 \in 1 .. 2 * n /\ rows[2 * o - 1].output = o
      /\ rows[2 * o - 1].channel = "L"
      /\ rows[2 * o - 1].source = SourceToken(m.source[o]["L"])
  <2>1. 2 * o - 1 \in 1 .. 2 * n
    BY <1>1
  <2>2. RouteRows(m)[2 * o - 1] = <<"route", o, "L", m.source[o]["L"]>>
    BY <1>1, RoutesOfReport
  <2>3. QED BY <1>6, <2>1, <2>2 DEF StatusRow
<1>9. found = {2 * o - 1}
  BY <1>6, <1>7, <1>8
<1>10. Min(found) = 2 * o - 1
  <2>1. found \subseteq Nat /\ found # {}
    BY <1>8, <1>9
  <2>2. Min(found) \in found
    BY <2>1, LeastOfSet
  <2>3. QED BY <1>9, <2>2
<1>11. FirstRow(rows, LAMBDA r : r.output = o /\ r.channel = "L")
          = IF found = {} THEN <<>> ELSE <<rows[Min(found)]>>
  BY DEF FirstRow
<1>12. FirstRow(rows, LAMBDA r : r.output = o /\ r.channel = "L") = <<rows[2 * o - 1]>>
  BY <1>9, <1>10, <1>11
<1>13. QED BY <1>8, <1>12 DEF rows, text

(* ... and their levels and mutes.                                         *)
LEMMA SettingsAreFound ==
    ASSUME NEW m \in Settings, NEW o \in Outputs
    PROVE  LET row == FirstRow(OutputSettings(Report(m)), LAMBDA r : r.output = o)
           IN row = <<[output |-> o, l |-> m.level[o]["L"], r |-> m.level[o]["R"],
                       muteL |-> m.mute[o]["L"], muteR |-> m.mute[o]["R"]]>>
<1>1. PICK n \in Nat : Outputs = 1 .. n
  BY SettingsAssumption
<1> DEFINE text == Report(m)
           rest == After(text, "outputs")
           rows == OutputSettings(text)
           found == { k \in DOMAIN rows : rows[k].output = o }
           here == 7 + 2 * n
<1>2. text \in Seq(ReportLine) /\ Len(text) = 7 + 4 * n
  BY <1>1, ReportOfLines
<1>3. /\ \A k \in 1 .. 6 + 2 * n : Kind(text[k]) # "outputs"
      /\ Kind(text[here]) = "outputs"
      /\ \A k \in here + 1 .. 7 + 4 * n :
            Kind(text[k]) = "outset" <=> k \in here + 1 .. here + n
  <2>1. /\ Kind(text[1]) # "outputs" /\ Kind(text[2]) # "outputs"
        /\ Kind(text[3]) # "outputs"
        /\ \A k \in 4 .. 3 + 2 * n : Kind(text[k]) # "outputs"
        /\ \A k \in 4 + 2 * n .. 7 + 4 * n :
              /\ Kind(text[k]) = "outputs" <=> k = 7 + 2 * n
              /\ Kind(text[k]) = "outset" <=> k \in 8 + 2 * n .. 7 + 3 * n
    BY <1>1, KindsOfReport DEF Kind
  <2> HIDE DEF text
  <2>2. ASSUME NEW k \in 1 .. 6 + 2 * n PROVE Kind(text[k]) # "outputs"
    <3>1. k = 1 \/ k = 2 \/ k = 3 \/ k \in 4 .. 3 + 2 * n
          \/ (k \in 4 + 2 * n .. 7 + 4 * n /\ k # 7 + 2 * n)
      OBVIOUS
    <3>2. QED BY <2>1, <3>1
  <2>3. here \in 4 + 2 * n .. 7 + 4 * n
    OBVIOUS
  <2>4. Kind(text[here]) = "outputs"
    BY <2>1, <2>3
  <2>5. ASSUME NEW k \in here + 1 .. 7 + 4 * n
        PROVE  Kind(text[k]) = "outset" <=> k \in here + 1 .. here + n
    <3>1. k \in 4 + 2 * n .. 7 + 4 * n
      OBVIOUS
    <3>2. k \in 8 + 2 * n .. 7 + 3 * n <=> k \in here + 1 .. here + n
      OBVIOUS
    <3>3. QED BY <2>1, <3>1, <3>2
  <2>6. QED BY <2>2, <2>4, <2>5
<1>4. \A k \in 1 .. n : text[here + k] = SettingsRows(m)[k]
  BY <1>1, ReportOfLines
<1>5. here \in 1 .. Len(text) /\ here \in Nat
  BY <1>2
<1> HIDE DEF text, here
<1>6. Len(rest) = 2 * n /\ \A i \in 1 .. 2 * n : rest[i] = text[here + i]
      /\ rest \in Seq(ReportLine)
  <2>1. PICK k \in 1 .. Len(text) :
           /\ Kind(text[k]) = "outputs"
           /\ \A j \in 1 .. k - 1 : Kind(text[j]) # "outputs"
           /\ rest = SubSeq(text, k + 1, Len(text))
    BY <1>2, <1>3, <1>5, AfterTitle
  <2>2. k = here
    BY <1>3, <1>5, <2>1 DEF here
  <2>3. /\ rest \in Seq(ReportLine) /\ Len(rest) = Len(text) - here
        /\ \A i \in 1 .. Len(text) - here : rest[i] = text[here + i]
    <3>1. rest = SubSeq(text, here + 1, Len(text))
      BY <2>1, <2>2
    <3> HIDE DEF rest
    <3>2. QED BY <1>2, <1>5, <3>1, SuffixLines
  <2> HIDE DEF rest
  <2>4. Len(text) - here = 2 * n
    BY <1>2 DEF here
  <2>5. QED BY <2>3, <2>4
<1> HIDE DEF rest
<1>7. /\ DOMAIN rows = 1 .. n
      /\ \A k \in 1 .. n : rows[k] = StatusSettingsRow(SettingsRows(m)[k])
  <2>1. /\ DOMAIN rows = { k \in DOMAIN rest : Kind(rest[k]) \in {"outset"} }
        /\ \A k \in DOMAIN rows : rows[k] = StatusSettingsRow(rest[k])
    BY DEF OutputSettings, Rows, OfKind, rest
  <2>2. DOMAIN rest = 1 .. 2 * n
    BY <1>6
  <2>3. ASSUME NEW k \in 1 .. 2 * n PROVE Kind(rest[k]) = "outset" <=> k \in 1 .. n
    <3>1. rest[k] = text[here + k]
      BY <1>6
    <3>2. here + k \in here + 1 .. 7 + 4 * n /\ (here + k \in here + 1 .. here + n <=> k \in 1 .. n)
      BY DEF here
    <3>3. QED BY <1>3, <3>1, <3>2
  <2>4. DOMAIN rows = 1 .. n
    BY <2>1, <2>2, <2>3
  <2>5. \A k \in 1 .. n : rest[k] = SettingsRows(m)[k]
    BY <1>4, <1>6
  <2>6. QED BY <2>1, <2>4, <2>5
<1> HIDE DEF rows
<1>8. \A k \in 1 .. n :
         rows[k] = [output |-> k, l |-> m.level[k]["L"], r |-> m.level[k]["R"],
                    muteL |-> m.mute[k]["L"], muteR |-> m.mute[k]["R"]]
  BY <1>1, <1>7 DEF StatusSettingsRow, SettingsRows
<1>9. \A k \in 1 .. n : rows[k].output = k
  BY <1>1, <1>7 DEF StatusSettingsRow, SettingsRows
<1>10. found = {o}
  BY <1>1, <1>7, <1>9
<1>11. Min(found) = o
  <2>1. found \subseteq Nat /\ found # {}
    BY <1>1, <1>10
  <2>2. Min(found) \in found
    BY <2>1, LeastOfSet
  <2>3. QED BY <1>10, <2>2
<1>12. FirstRow(rows, LAMBDA r : r.output = o)
          = IF found = {} THEN <<>> ELSE <<rows[Min(found)]>>
  BY DEF FirstRow
<1>13. FirstRow(rows, LAMBDA r : r.output = o) = <<rows[o]>>
  BY <1>10, <1>11, <1>12
<1>14. QED BY <1>1, <1>8, <1>13 DEF rows, text

(* What get_status returns of a report, and what a clear finds in it.      *)
LEMMA ReportIsParsed ==
    ASSUME NEW m \in Settings
    PROVE  LET parsed == ParseStatus(Report(m)) IN
           /\ parsed.power = m.power
           /\ parsed.routing = StatusRouting(Report(m))
           /\ parsed.settings = OutputSettings(Report(m))
           /\ \A o \in Outputs : FindSource(parsed, o) = SourceToken(m.source[o]["L"])
<1>1. ParseStatus(Report(m)) =
         [power |-> Power(Report(m)), inputs |-> PyInputs(Report(m)),
          routing |-> StatusRouting(Report(m)), settings |-> OutputSettings(Report(m))]
  BY ReportIsReadable DEF ParseStatus
<1>2. /\ ParseStatus(Report(m)).power = m.power
      /\ ParseStatus(Report(m)).routing = StatusRouting(Report(m))
      /\ ParseStatus(Report(m)).settings = OutputSettings(Report(m))
  BY <1>1, ReportIsReadable
<1>3. ASSUME NEW o \in Outputs
      PROVE  FindSource(ParseStatus(Report(m)), o) = SourceToken(m.source[o]["L"])
  BY <1>2, SourcesAreFound, Zenon DEF FindSource
<1>4. QED BY <1>2, <1>3

(* The way of a setting from the matrix to what an entity shows loses      *)
(* nothing, for every output: power, the source of the L channel, both     *)
(* levels, and whether both channels are muted (parser.py:124-330,         *)
(* media_player.py:140-210, switch.py:55-61).                              *)
THEOREM ReportsAreShown ==
    ASSUME matrix \in Settings, data = ParseStatus(Report(matrix))
    PROVE  ShowsTheMatrix
<1>1. /\ data.power = matrix.power
      /\ data.routing = StatusRouting(Report(matrix))
      /\ data.settings = OutputSettings(Report(matrix))
  BY ReportIsParsed
<1>2. IsOn = (matrix.power = "On")
  BY <1>1 DEF IsOn
<1>3. ASSUME NEW o \in Outputs
      PROVE  /\ ShownSource(o) # <<"Unknown">>
             /\ Column(LabelToSource(ShownSource(o))) = matrix.source[o]["L"]
  <2>1. ShownSource(o) = SourceToLabel(SourceToken(matrix.source[o]["L"]))
    BY <1>1, SourcesAreFound, Zenon DEF ShownSource
  <2>2. matrix.source[o]["L"] \in 0 .. 24
    BY DEF Settings, Sides
  <2>3. SourceToLabel(SourceToken(matrix.source[o]["L"])) # <<"Unknown">>
    BY <2>2 DEF SourceToLabel, SourceToken, NoSource, ForInput, ForBus
  <2>4. QED BY <2>1, <2>2, <2>3, SourcesHaveColumns
<1>4. ASSUME NEW o \in Outputs
      PROVE  /\ ShownVolumes(o) = matrix.level[o]
             /\ IsVolumeMuted(o) = (matrix.mute[o]["L"] /\ matrix.mute[o]["R"])
  <2> DEFINE row == [output |-> o, l |-> matrix.level[o]["L"], r |-> matrix.level[o]["R"],
                     muteL |-> matrix.mute[o]["L"], muteR |-> matrix.mute[o]["R"]]
  <2>1. OwnSettings(o) = <<row>>
    BY <1>1, SettingsAreFound, Zenon DEF OwnSettings
  <2>2. OwnSettings(o)[1] = row
    BY <2>1
  <2>3. IsVolumeMuted(o) = (matrix.mute[o]["L"] /\ matrix.mute[o]["R"])
    BY <2>2 DEF IsVolumeMuted
  <2>4. matrix.level[o] = [s \in Sides |-> matrix.level[o][s]]
    BY DEF Settings
  <2>5. ShownVolumes(o) = matrix.level[o]
    <3>1. CASE row.l = row.r /\ row.muteL = row.muteR
      <4>1. ExtraStateAttributes(o) = <<>>
        BY <2>2, <3>1 DEF ExtraStateAttributes
      <4>2. ShownVolumes(o) = [s \in Sides |-> matrix.level[o]["L"]]
        BY <2>2, <4>1 DEF ShownVolumes, VolumeLevel
      <4>3. \A s \in Sides : matrix.level[o][s] = matrix.level[o]["L"]
        BY <3>1 DEF Sides
      <4>4. QED BY <2>4, <4>2, <4>3
    <3>2. CASE ~(row.l = row.r /\ row.muteL = row.muteR)
      <4> DEFINE both == [volume_left |-> row.l, volume_right |-> row.r]
      <4>1. ExtraStateAttributes(o) = both
        BY <2>2, <3>2 DEF ExtraStateAttributes
      <4>2. DOMAIN both # {}
        OBVIOUS
      <4>3. ShownVolumes(o) = [s \in Sides |-> IF s = "L" THEN row.l ELSE row.r]
        BY <4>1, <4>2 DEF ShownVolumes
      <4>4. \A s \in Sides : (IF s = "L" THEN row.l ELSE row.r) = matrix.level[o][s]
        BY DEF Sides
      <4>5. QED BY <2>4, <4>3, <4>4
    <3>3. QED BY <3>1, <3>2
  <2>6. QED BY <2>3, <2>5
<1>5. QED BY <1>2, <1>3, <1>4 DEF ShowsTheMatrix

-----------------------------------------------------------------------------
\* What a task got, if it got anything, is a report of the matrix.
IsReply(r) == r = <<>> \/ \E m \in Settings : r = Report(m)

(* No reply is no report.                                                  *)
LEMMA NothingIsParsed ==
    ParseStatus(<<>>).routing = <<>> /\ ParseStatus(<<>>).power = "error"
<1>1. After(<<>>, "header") = <<>>
  <2>1. <<>> \in Seq(ReportLine) /\ Len(<<>>) = 0
    BY EmptySeq
  <2>2. 1 .. Len(<<>>) = {}
    BY <2>1
  <2>3. QED BY <2>1, <2>2, AfterTitle, Zenon
<1>2. QED BY <1>1 DEF ParseStatus, StatusReadable, LuaReadable, SystemLine

(* So the source a clear removes is one it can name.                       *)
LEMMA FoundSources ==
    ASSUME NEW r, IsReply(r), NEW o \in Outputs
    PROVE  LET source == FindSource(ParseStatus(r), o)
           IN source = NoSource \/ Column(source) \in 1 .. 24
<1>1. CASE r = <<>>
  <2>1. ParseStatus(r).routing = <<>>
    BY <1>1, NothingIsParsed
  <2>2. FindSource(ParseStatus(r), o) = NoSource
    BY <2>1 DEF FindSource, FirstRow
  <2>3. QED BY <2>2
<1>2. ASSUME NEW m \in Settings, r = Report(m)
      PROVE  LET source == FindSource(ParseStatus(r), o)
             IN source = NoSource \/ Column(source) \in 1 .. 24
  <2>1. FindSource(ParseStatus(r), o) = SourceToken(m.source[o]["L"])
    BY <1>2, ReportIsParsed
  <2>2. m.source[o]["L"] \in 0 .. 24
    BY DEF Settings, Sides
  <2>3. QED BY <2>1, <2>2, SourcesHaveColumns
<1>3. QED BY <1>1, <1>2 DEF IsReply

(* The entities that are of no output are given one.                       *)
LEMMA AnOutputExists == NoOutput \in Outputs
<1>1. \E o : o \in Outputs
  <2>1. PICK n \in 1 .. 8 : Outputs = 1 .. n
    BY SettingsAssumption
  <2>2. 1 \in Outputs
    BY <2>1
  <2>3. QED BY <2>2
<1>2. QED BY <1>1 DEF NoOutput

(* A service starts with a command that can be sent, a clear with STATUS.  *)
LEMMA ServicesStart ==
    ASSUME NEW u \in Users, ServiceStarts(u)
    PROVE  \E job \in {"write", "read"}, o \in Outputs : \E c :
              /\ Service(u, job, o, c) /\ Sendable(c)
              /\ job = "read" => c = GetStatus
<1>1. ASSUME NEW o \in Outputs, NEW column \in Sources,
             SelectSource(u, o, SourceToLabel(SourceToken(column)))
      PROVE  \E job \in {"write", "read"} : \E c :
                /\ Service(u, job, o, c) /\ Sendable(c)
                /\ job = "read" => c = GetStatus
  <2> DEFINE source == SourceToken(column)
  <2>1. column \in 0 .. 24
    BY SettingsAssumption
  <2>2. LabelToSource(SourceToLabel(source)) = source
    BY <2>1, SourcesHaveColumns
  <2>3. Service(u, IF source = NoSource THEN "read" ELSE "write", o,
                SetOutputSource(o, source))
    BY <1>1, <2>2 DEF SelectSource
  <2>4. CASE source = NoSource
    BY <2>3, <2>4, PlainCommands DEF SetOutputSource
  <2>5. CASE source # NoSource
    <3>1. Column(source) \in 1 .. 24
      BY <2>1, <2>5, SourcesHaveColumns
    <3>2. Sendable(SetOutputSource(o, source))
      BY <2>5, <3>1, SourceCommands DEF SetOutputSource
    <3>3. QED BY <2>3, <2>5, <3>2
  <2>6. QED BY <2>4, <2>5
<1>2. ASSUME NEW o \in Outputs, NEW percent \in Percents, SetVolumeLevel(u, o, percent)
      PROVE  \E c : Service(u, "write", o, c) /\ Sendable(c)
  BY <1>2, VolumeCommands DEF SetVolumeLevel
<1>3. ASSUME NEW o \in Outputs, VolumeUp(u, o) \/ VolumeDown(u, o)
      PROVE  \E c : Service(u, "write", o, c) /\ Sendable(c)
  BY <1>3, VolumeCommands DEF VolumeUp, VolumeDown
<1>4. ASSUME NEW o \in Outputs, NEW mute \in BOOLEAN, MuteVolume(u, o, mute)
      PROVE  \E c : Service(u, "write", o, c) /\ Sendable(c)
  BY <1>4, VolumeCommands DEF MuteVolume
<1>5. ASSUME TurnOn(u) \/ TurnOff(u) \/ Press(u)
      PROVE  \E c : Service(u, "write", NoOutput, c) /\ Sendable(c)
  BY <1>5, PlainCommands DEF TurnOn, TurnOff, Press
<1>6. QED
  BY <1>1, <1>2, <1>3, <1>4, <1>5, AnOutputExists DEF ServiceStarts, AllLabels

-----------------------------------------------------------------------------
\* What the tasks, the abandoned calls and the command line ask a connection for.
DoingTyped ==
    doing \in [Users -> [job : {"none", "write", "read", "remove", "cleared"},
                         output : Outputs]]
RepliesTyped ==
    reply = [t \in Tasks |-> reply[t]] /\ \A t \in Tasks : IsReply(reply[t])
CommandsTyped ==
    /\ cmd = [t \in Tasks |-> cmd[t]] /\ \A t \in Tasks : Sendable(cmd[t])
    /\ \E S : strays \in Seq(S) /\ \A c \in S : Sendable(c)
    /\ cli = [pc |-> cli.pc, cmd |-> cli.cmd] /\ Sendable(cli.cmd)
OpsShape ==
    /\ RequestReplyTypeOK /\ stray = (strays # <<>>)
    /\ matrix \in Settings /\ DoingTyped /\ RepliesTyped /\ CommandsTyped

\* Next, with the services' commands named.
Starts(u) ==
    \E job \in {"write", "read"}, o \in Outputs : \E c :
        /\ Service(u, job, o, c) /\ Sendable(c)
        /\ job = "read" => c = GetStatus

(* The steps of the system, one by one.                                    *)
LEMMA OpsSteps ==
    ASSUME [OpsNext]_opsVars
    PROVE  \/ UNCHANGED opsVars
           \/ \E u \in Users : Starts(u) \/ ServiceReturns(u) \/ RemoveStarts(u)
           \/ \E t \in Tasks : MatrixServes(t) \/ CallFails(t)
           \/ PollStarts \/ PollReturns \/ LinkGoes \/ MatrixServesStray
           \/ \E call \in CliCalls : CliStarts(call)
           \/ CliConfirms \/ CliConnects \/ CliExecutes
<1>1. \A u \in Users : u \in Tasks
  BY TasksAssumption
<1>2. Poller \in Tasks
  BY TasksAssumption
<1>3. QED
  BY <1>1, <1>2, ServicesStart DEF OpsNext, UserStep, PollStep, CliStep, Starts

(* The matrix stays within its settings.                                   *)
LEMMA MatrixSettingsStep ==
    ASSUME OpsShape, [OpsNext]_opsVars
    PROVE  matrix' \in Settings
<1>1. ASSUME NEW c, NEW by, Sendable(c), Obeys(c, by) PROVE matrix' \in Settings
  BY <1>1, ObeyedSettings DEF Obeys, OpsShape
<1>2. CASE UNCHANGED matrix
  BY <1>2 DEF OpsShape
<1>3. ASSUME NEW t \in Tasks, MatrixServes(t) PROVE matrix' \in Settings
  BY <1>1, <1>3 DEF MatrixServes, OpsShape, CommandsTyped
<1>4. ASSUME MatrixServesStray PROVE matrix' \in Settings
  <2>1. PICK S : strays \in Seq(S) /\ \A c \in S : Sendable(c)
    BY DEF OpsShape, CommandsTyped
  <2>2. strays # <<>> /\ Obeys(Head(strays), {})
    BY <1>4 DEF MatrixServesStray, OpsShape
  <2>3. Head(strays) \in S
    BY <2>1, <2>2
  <2>4. QED BY <1>1, <2>1, <2>2, <2>3
<1>5. ASSUME CliExecutes PROVE matrix' \in Settings
  BY <1>1, <1>2, <1>5 DEF CliExecutes, OpsShape, CommandsTyped
<1>6. QED
  BY <1>2, <1>3, <1>4, <1>5, OpsSteps
  DEF opsVars, Starts, Service, ServiceReturns, RemoveStarts, CallFails, PollStarts,
      PollReturns, LinkGoes, CliStarts, CliConfirms, CliConnects, CliGoesOn

(* A service is at a job of an output.                                     *)
LEMMA DoingStep ==
    ASSUME OpsShape, [OpsNext]_opsVars
    PROVE  DoingTyped'
<1> USE DEF DoingTyped
<1>0. DoingTyped
  BY DEF OpsShape
<1>1. CASE UNCHANGED doing
  BY <1>0, <1>1
<1>2. ASSUME NEW u \in Users, Starts(u) PROVE DoingTyped'
  BY <1>0, <1>2 DEF Starts, Service
<1>3. ASSUME NEW u \in Users, ServiceReturns(u) \/ RemoveStarts(u) PROVE DoingTyped'
  BY <1>0, <1>1, <1>3 DEF ServiceReturns, RemoveStarts
<1>4. ASSUME NEW t \in Tasks, CallFails(t) PROVE DoingTyped'
  BY <1>0, <1>4 DEF CallFails
<1>5. QED
  BY <1>1, <1>2, <1>3, <1>4, OpsSteps
  DEF opsVars, MatrixServes, PollStarts, PollReturns, LinkGoes, MatrixServesStray,
      CliStarts, CliConfirms, CliConnects, CliGoesOn, CliExecutes

(* What comes back is a report or nothing.                                 *)
LEMMA RepliesTypedStep ==
    ASSUME OpsShape, [OpsNext]_opsVars
    PROVE  RepliesTyped'
<1>0. RepliesTyped /\ matrix \in Settings
  BY DEF OpsShape
<1>1. CASE UNCHANGED reply
  BY <1>0, <1>1 DEF RepliesTyped
<1>2. ASSUME NEW t \in Tasks, reply' = [reply EXCEPT ![t] = <<>>] PROVE RepliesTyped'
  <2>1. IsReply(<<>>)
    BY DEF IsReply
  <2>2. QED BY <1>0, <1>2, <2>1 DEF RepliesTyped
<1>3. ASSUME NEW t \in Tasks, MatrixServes(t) PROVE RepliesTyped'
  <2>1. IsReply(IF cmd[t] = GetStatus THEN Report(matrix) ELSE <<>>)
    BY <1>0 DEF IsReply
  <2>2. reply' = [reply EXCEPT ![t] = IF cmd[t] = GetStatus THEN Report(matrix) ELSE <<>>]
    BY <1>3 DEF MatrixServes
  <2>3. QED BY <1>0, <2>1, <2>2 DEF RepliesTyped
<1>4. ASSUME NEW u \in Users, ServiceReturns(u) PROVE RepliesTyped'
  <2>1. u \in Tasks
    BY TasksAssumption
  <2>2. QED BY <1>2, <1>4, <2>1 DEF ServiceReturns
<1>5. ASSUME NEW t \in Tasks, CallFails(t) PROVE RepliesTyped'
  BY <1>2, <1>5 DEF CallFails
<1>6. ASSUME PollReturns PROVE RepliesTyped'
  BY <1>2, <1>6, TasksAssumption DEF PollReturns
<1>7. QED
  BY <1>1, <1>3, <1>4, <1>5, <1>6, OpsSteps
  DEF opsVars, Starts, Service, RemoveStarts, PollStarts, LinkGoes, MatrixServesStray,
      CliStarts, CliConfirms, CliConnects, CliGoesOn, CliExecutes

\* The parts of CommandsTyped, by whose command it is.
TasksAsk == cmd = [t \in Tasks |-> cmd[t]] /\ \A t \in Tasks : Sendable(cmd[t])
StraysAsk == \E S : strays \in Seq(S) /\ \A c \in S : Sendable(c)
CliAsks == cli = [pc |-> cli.pc, cmd |-> cli.cmd] /\ Sendable(cli.cmd)

(* A task asks only for what can be sent, also to remove what it found.    *)
LEMMA TasksAskStep ==
    ASSUME OpsShape, [OpsNext]_opsVars
    PROVE  TasksAsk'
<1>0. TasksAsk
  BY DEF OpsShape, CommandsTyped, TasksAsk
<1>1. CASE UNCHANGED cmd
  BY <1>0, <1>1 DEF TasksAsk
<1>2. ASSUME NEW t \in Tasks, NEW c, Sendable(c), cmd' = [cmd EXCEPT ![t] = c]
      PROVE  TasksAsk'
  BY <1>0, <1>2 DEF TasksAsk
<1>3. \A u \in Users : u \in Tasks
  BY TasksAssumption
<1>4. ASSUME NEW u \in Users, Starts(u) PROVE TasksAsk'
  BY <1>2, <1>3, <1>4 DEF Starts, Service, Executes, IsRefused
<1>5. ASSUME NEW u \in Users, RemoveStarts(u) PROVE TasksAsk'
  <2>1. cmd' = [cmd EXCEPT ![u] = cmd[u]] /\ Sendable(cmd[u])
    BY <1>0, <1>3, <1>5 DEF RemoveStarts, Executes, IsRefused, TasksAsk
  <2>2. QED BY <1>2, <1>3, <2>1
<1>6. ASSUME NEW u \in Users, ServiceReturns(u) PROVE TasksAsk'
  <2> DEFINE o == doing[u].output
             source == FindSource(CurrentReport(u), o)
  <2>1. o \in Outputs /\ IsReply(reply[u])
    BY <1>3 DEF OpsShape, DoingTyped, RepliesTyped
  <2>2. source = NoSource \/ Column(source) \in 1 .. 24
    BY <2>1, FoundSources DEF CurrentReport
  <2> HIDE DEF source, o
  <2>3. source # NoSource => Sendable(ClearOutput(o, source))
    BY <2>1, <2>2, SourceCommands
  <2>4. \/ cmd' = [cmd EXCEPT ![u] = GetStatus]
        \/ source # NoSource /\ cmd' = [cmd EXCEPT ![u] = ClearOutput(o, source)]
    BY <1>6 DEF ServiceReturns, source, o
  <2>5. QED BY <1>2, <1>3, <2>3, <2>4, PlainCommands
<1>7. ASSUME NEW t \in Tasks, CallFails(t) PROVE TasksAsk'
  BY <1>2, <1>7, PlainCommands DEF CallFails
<1>8. ASSUME PollStarts PROVE TasksAsk'
  BY <1>2, <1>8, PlainCommands, TasksAssumption DEF PollStarts, Executes, IsRefused
<1>9. QED
  BY <1>1, <1>4, <1>5, <1>6, <1>7, <1>8, OpsSteps
  DEF opsVars, MatrixServes, PollReturns, LinkGoes, MatrixServesStray,
      CliStarts, CliConfirms, CliConnects, CliGoesOn, CliExecutes

(* What is abandoned was asked for.                                        *)
LEMMA StraysAskStep ==
    ASSUME OpsShape, [OpsNext]_opsVars
    PROVE  StraysAsk' /\ stray' = (strays' # <<>>)
<1>0. /\ StraysAsk /\ stray = (strays # <<>>)
      /\ \A t \in Tasks : Sendable(cmd[t])
  BY DEF OpsShape, CommandsTyped, StraysAsk
<1>1. CASE strays' = strays /\ stray' = stray
  BY <1>0, <1>1, Zenon DEF StraysAsk
<1>2. CASE strays' = <<>> /\ stray' = FALSE
  <2>1. strays' \in Seq({}) /\ \A c \in {} : Sendable(c)
    BY <1>2, EmptySeq
  <2>2. StraysAsk'
    <3>1. \E T : strays' \in Seq(T) /\ \A c \in T : Sendable(c)
      <4> WITNESS {}
      <4> QED BY <2>1
    <3>2. QED BY <3>1, Zenon DEF StraysAsk
  <2>3. QED BY <1>2, <2>2
<1>3. ASSUME NEW t \in Tasks, CallFails(t), link = "up"
      PROVE  StraysAsk' /\ stray' = (strays' # <<>>)
  <2>1. stray' = (strays' # <<>>)
    BY <1>3 DEF CallFails
  <2>2. strays' = strays \/ strays' = Append(strays, cmd[t])
    BY <1>3 DEF CallFails
  <2>3. PICK S : strays \in Seq(S) /\ \A c \in S : Sendable(c)
    BY <1>0 DEF StraysAsk
  <2>4. strays' \in Seq(S \cup {cmd[t]}) /\ \A c \in S \cup {cmd[t]} : Sendable(c)
    <3>1. strays \in Seq(S \cup {cmd[t]})
      BY <2>3
    <3>2. Append(strays, cmd[t]) \in Seq(S \cup {cmd[t]})
      BY <3>1
    <3>3. QED BY <1>0, <2>2, <2>3, <3>1, <3>2
  <2>5. StraysAsk'
    <3>1. \E T : strays' \in Seq(T) /\ \A c \in T : Sendable(c)
      BY <2>4
    <3>2. QED BY <3>1, Zenon DEF StraysAsk
  <2>6. QED BY <2>1, <2>5
<1>4. ASSUME MatrixServesStray PROVE StraysAsk' /\ stray' = (strays' # <<>>)
  <2>1. strays' = Tail(strays) /\ stray
    BY <1>4 DEF MatrixServesStray
  <2>2. PICK S : strays \in Seq(S) /\ \A c \in S : Sendable(c)
    BY <1>0 DEF StraysAsk
  <2>3. strays # <<>>
    BY <1>0, <2>1, Zenon
  <2>4. strays' \in Seq(S)
    BY <2>1, <2>2, <2>3
  <2>5. StraysAsk'
    <3>1. \E T : strays' \in Seq(T) /\ \A c \in T : Sendable(c)
      BY <2>2, <2>4
    <3>2. QED BY <3>1, Zenon DEF StraysAsk
  <2>6. stray' = (strays' # <<>>)
    <3>1. CASE Tail(strays) = <<>>
      <4>1. stray' = FALSE
        BY <1>4, <3>1 DEF MatrixServesStray, ServeStray
      <4>2. QED BY <2>1, <3>1, <4>1
    <3>2. CASE Tail(strays) # <<>>
      <4>1. stray' = stray
        BY <1>4, <3>2 DEF MatrixServesStray, callVars
      <4>2. QED BY <1>0, <2>1, <3>2, <4>1
    <3>3. QED BY <3>1, <3>2
  <2>7. QED BY <2>5, <2>6
<1>5. ASSUME LinkGoes PROVE StraysAsk' /\ stray' = (strays' # <<>>)
  BY <1>2, <1>5 DEF LinkGoes, LoseLink
<1>6. ASSUME NEW t \in Tasks, CallFails(t), link = "lost"
      PROVE  StraysAsk' /\ stray' = (strays' # <<>>)
  BY <1>1, <1>6 DEF CallFails
<1>7. ASSUME NEW t \in Tasks, CallFails(t) PROVE link = "up" \/ link = "lost"
  BY <1>7 DEF CallFails
<1>8. QED
  BY ZenonT(30), <1>1, <1>3, <1>4, <1>5, <1>6, <1>7, OpsSteps
  DEF opsVars, callVars, Starts, Service, Executes, IsRefused, Call, Reject, Return, Serve,
      ServiceReturns, RemoveStarts, MatrixServes, PollStarts, PollReturns,
      CliStarts, CliConfirms, CliConnects, CliGoesOn, CliExecutes

(* The command line goes on only with a command that can be sent.          *)
LEMMA CliAsksStep ==
    ASSUME OpsShape, [OpsNext]_opsVars
    PROVE  CliAsks'
<1>0. CliAsks
  BY DEF OpsShape, CommandsTyped, CliAsks
<1>1. CASE UNCHANGED cli
  BY <1>0, <1>1 DEF CliAsks
<1>2. ASSUME NEW call \in CliCalls, CliStarts(call) PROVE CliAsks'
  <2> DEFINE c == Execute(call.name, ExtractKwargs(call.name, call.ns))
  <2>1. c.name = call.name /\ c.args = ExtractKwargs(call.name, call.ns)
    BY DEF Execute
  <2>2. CASE Accepts(c.name, c.args)
    <3>1. Sendable(c)
      BY <1>2, <2>1, <2>2, CliCommands DEF CliStarts
    <3> HIDE DEF c
    <3>2. \E pc : cli' = [pc |-> pc, cmd |-> c]
      BY <1>2, <2>2 DEF CliStarts, c
    <3>3. QED BY <3>1, <3>2 DEF CliAsks
  <2>3. CASE ~Accepts(c.name, c.args)
    BY <1>1, <1>2, <2>3 DEF CliStarts
  <2>4. QED BY <2>2, <2>3
<1>3. ASSUME NEW pc, cli' = [cli EXCEPT !.pc = pc] PROVE CliAsks'
  BY <1>0, <1>3 DEF CliAsks
<1>4. QED
  BY <1>1, <1>2, <1>3, OpsSteps
  DEF opsVars, Starts, Service, ServiceReturns, RemoveStarts, MatrixServes, CallFails,
      PollStarts, PollReturns, LinkGoes, MatrixServesStray, CliConfirms, CliConnects,
      CliGoesOn, CliExecutes

(* The calls are those of RequestReply.                                    *)
LEMMA CallsStep ==
    ASSUME OpsShape, [OpsNext]_opsVars
    PROVE  RequestReplyTypeOK'
<1>0. RequestReplyTypeOK
  BY DEF OpsShape
<1>1. ASSUME NEW t \in Tasks,
             Call(t) \/ Reject(t) \/ Serve(t) \/ Return(t) \/ Fail(t) \/ ServeStray
             \/ LoseLink \/ UNCHANGED callVars
      PROVE  RequestReplyTypeOK'
  BY <1>0, <1>1
  DEF RequestReplyTypeOK, Call, Reject, Serve, Return, Fail, ServeStray, LoseLink, callVars
<1>2. Poller \in Tasks /\ \A u \in Users : u \in Tasks
  BY TasksAssumption
<1>3. QED
  BY ZenonT(30), <1>1, <1>2, OpsSteps
  DEF opsVars, Starts, Service, Executes, IsRefused, ServiceReturns, RemoveStarts,
      MatrixServes, CallFails, PollStarts, PollReturns, LinkGoes, MatrixServesStray,
      CliStarts, CliConfirms, CliConnects, CliGoesOn, CliExecutes

(* What the tasks are at keeps its shape.                                  *)
LEMMA OpsShapeStep ==
    ASSUME OpsShape, [OpsNext]_opsVars
    PROVE  OpsShape'
<1>1. CommandsTyped'
  BY TasksAskStep, StraysAskStep, CliAsksStep
  DEF CommandsTyped, TasksAsk, StraysAsk, CliAsks
<1>2. QED
  BY <1>1, CallsStep, StraysAskStep, MatrixSettingsStep, DoingStep, RepliesTypedStep
  DEF OpsShape

(* It has it from the start.                                               *)
LEMMA OpsStarts == OpsInit => OpsShape
<1> SUFFICES ASSUME OpsInit PROVE OpsShape
  OBVIOUS
<1>1. RequestReplyTypeOK
  BY DEF OpsInit, RequestReplyInit, RequestReplyTypeOK
<1>2. stray = (strays # <<>>)
  BY Zenon DEF OpsInit, RequestReplyInit
<1>3. matrix \in Settings
  <2>1. \A o \in Outputs : \A s \in Sides : 0 \in 0 .. 24 /\ 100 \in 0 .. 100
    OBVIOUS
  <2>2. QED BY <2>1 DEF OpsInit, Settings
<1>4. DoingTyped
  BY AnOutputExists DEF OpsInit, DoingTyped
<1>5. RepliesTyped
  BY DEF OpsInit, RepliesTyped, IsReply
<1>6. TasksAsk /\ CliAsks
  BY PlainCommands DEF OpsInit, TasksAsk, CliAsks
<1>7. StraysAsk
  <2>1. strays \in Seq({}) /\ \A c \in {} : Sendable(c)
    BY EmptySeq DEF OpsInit
  <2>2. \E T : strays \in Seq(T) /\ \A c \in T : Sendable(c)
    <3> WITNESS {}
    <3> QED BY <2>1
  <2>3. QED BY <2>2, Zenon DEF StraysAsk
<1>8. QED
  BY <1>1, <1>2, <1>3, <1>4, <1>5, <1>6, <1>7
  DEF OpsShape, CommandsTyped, TasksAsk, CliAsks, StraysAsk

(* No call and no connection of the command line is made for a command     *)
(* that is not built, for any services, labels, volumes and command lines, *)
(* also where the command of a clear is made of a reply.                   *)
THEOREM OnlyBuiltCommands == OpsSpec => []CommandsAreBuilt
<1>1. OpsShape => CommandsAreBuilt
  BY DEF OpsShape, CommandsTyped, Sendable, Accepted, CommandsAreBuilt
<1>2. QED BY <1>1, OpsStarts, OpsShapeStep, PTL DEF OpsSpec

-----------------------------------------------------------------------------
\* The rest of the types.
DoneTyped ==
    /\ done = [k \in DOMAIN Limit |-> done[k]]
    /\ \A k \in DOMAIN Limit : done[k] \in 0 .. Limit[k]
ShownTyped ==
    /\ link \in {"up", "lost"}
    /\ cli.pc \in {"none", "asked", "connecting", "connected"}
    /\ data.power \in {"On", "Off"}
FlagsTyped == available \in BOOLEAN /\ moved \in [Users -> BOOLEAN]

(* The bounded events are counted.                                         *)
LEMMA DoneStep ==
    ASSUME DoneTyped, [OpsNext]_opsVars
    PROVE  DoneTyped'
<1>1. CASE UNCHANGED done
  BY <1>1 DEF DoneTyped
<1>2. ASSUME NEW kind \in {"service", "other"}, Counted(kind) PROVE DoneTyped'
  <2>1. kind \in DOMAIN Limit /\ \A k \in DOMAIN Limit : Limit[k] \in Nat
    BY SettingsAssumption
  <2>2. QED BY <1>2, <2>1 DEF Counted, DoneTyped
<1>3. QED
  BY <1>1, <1>2, OpsSteps
  DEF opsVars, Starts, Service, ServiceReturns, RemoveStarts, MatrixServes, CallFails,
      PollStarts, PollReturns, LinkGoes, MatrixServesStray, CliStarts, CliConfirms,
      CliConnects, CliGoesOn, CliExecutes

(* What the entities and the command line are at.                          *)
LEMMA ShownStep ==
    ASSUME OpsShape, ShownTyped, [OpsNext]_opsVars
    PROVE  ShownTyped'
<1>1. link' \in {"up", "lost"}
  BY OpsSteps
  DEF ShownTyped, opsVars, Starts, Service, ServiceReturns, RemoveStarts, MatrixServes,
      CallFails, PollStarts, PollReturns, LinkGoes, MatrixServesStray, CliStarts,
      CliConfirms, CliConnects, CliGoesOn, CliExecutes
<1>2. cli'.pc \in {"none", "asked", "connecting", "connected"}
  <2>1. ASSUME NEW pc \in {"none", "asked", "connecting", "connected"},
               cli' = [cli EXCEPT !.pc = pc]
        PROVE  cli'.pc \in {"none", "asked", "connecting", "connected"}
    BY <2>1 DEF OpsShape, CommandsTyped
  <2>2. CASE UNCHANGED cli
    BY <2>2 DEF ShownTyped
  <2>3. ASSUME NEW call \in CliCalls, CliStarts(call)
        PROVE  cli'.pc \in {"none", "asked", "connecting", "connected"}
    <3> DEFINE c == Execute(call.name, ExtractKwargs(call.name, call.ns))
    <3>1. \/ \E pc \in {"connecting", "asked"} : cli' = [pc |-> pc, cmd |-> c]
          \/ cli' = cli
      BY <2>3 DEF CliStarts
    <3> HIDE DEF c
    <3>2. QED BY <2>2, <3>1
  <2>4. ASSUME CliConfirms \/ CliConnects \/ CliExecutes
        PROVE  \E pc \in {"none", "asked", "connecting", "connected"} :
                   cli' = [cli EXCEPT !.pc = pc]
    BY <2>4 DEF CliConfirms, CliConnects, CliGoesOn, CliExecutes
  <2>5. QED
    BY <2>1, <2>2, <2>3, <2>4, OpsSteps
    DEF opsVars, Starts, Service, ServiceReturns, RemoveStarts, MatrixServes,
        CallFails, PollStarts, PollReturns, LinkGoes, MatrixServesStray
<1>3. data'.power \in {"On", "Off"}
  <2>1. CASE UNCHANGED data
    BY <2>1 DEF ShownTyped
  <2>2. ASSUME PollReturns PROVE data'.power \in {"On", "Off"}
    <3>1. IsReply(reply[Poller])
      BY TasksAssumption DEF OpsShape, RepliesTyped
    <3>2. ParseStatus(reply[Poller]).power \in {"On", "Off", "error"}
      <4>1. CASE reply[Poller] = <<>>
        BY <4>1, NothingIsParsed
      <4>2. ASSUME NEW m \in Settings, reply[Poller] = Report(m)
            PROVE  ParseStatus(reply[Poller]).power \in {"On", "Off", "error"}
        BY <4>2, ReportIsParsed DEF Settings
      <4>3. QED BY <3>1, <4>1, <4>2 DEF IsReply
    <3>3. QED BY <2>1, <2>2, <3>2 DEF PollReturns
  <2>3. QED
    BY <2>1, <2>2, OpsSteps
    DEF opsVars, entities, Starts, Service, ServiceReturns, RemoveStarts, MatrixServes,
        CallFails, PollStarts, LinkGoes, MatrixServesStray, CliStarts, CliConfirms,
        CliConnects, CliGoesOn, CliExecutes
<1>4. QED BY <1>1, <1>2, <1>3 DEF ShownTyped

(* The flags are Booleans.                                                 *)
LEMMA FlagsStep ==
    ASSUME FlagsTyped, [OpsNext]_opsVars
    PROVE  FlagsTyped'
<1>1. available' \in BOOLEAN
  <2>1. CASE available' = available
    BY <2>1 DEF FlagsTyped
  <2>2. ASSUME NEW u \in Users, Starts(u) PROVE available' \in BOOLEAN
    BY <2>1, <2>2, Zenon DEF Starts, Service
  <2>3. ASSUME NEW t \in Tasks, UpdateFailed(t) PROVE available' \in BOOLEAN
    BY <2>3, Zenon DEF UpdateFailed
  <2>4. ASSUME PollReturns PROVE available' \in BOOLEAN
    BY <2>4, Zenon DEF PollReturns
  <2>5. QED
    BY <2>1, <2>2, <2>3, <2>4, OpsSteps, TasksAssumption
    DEF opsVars, entities, ServiceReturns, RemoveStarts, MatrixServes,
        CallFails, PollStarts, LinkGoes, MatrixServesStray, CliStarts, CliConfirms,
        CliConnects, CliGoesOn, CliExecutes
<1>2. moved' \in [Users -> BOOLEAN]
  <2>1. CASE moved' = moved
    BY <2>1 DEF FlagsTyped
  <2>2. ASSUME NEW u \in Users, Starts(u) PROVE moved' \in [Users -> BOOLEAN]
    BY <2>2 DEF Starts, Service, FlagsTyped
  <2>3. ASSUME NEW c, NEW by, Obeys(c, by) PROVE moved' \in [Users -> BOOLEAN]
    <3> DEFINE old(u) == u \in by \/ doing[u].job \notin {"read", "remove", "cleared"}
               kept(u) == moved[u] /\ c.name # "status"
               other(u) == moved[u] \/ Obey(matrix, c).source[doing[u].output]["L"]
                                          # matrix.source[doing[u].output]["L"]
    <3>1. moved' = [u \in Users |-> IF old(u) THEN kept(u) ELSE other(u)]
      BY <2>3 DEF Obeys
    <3>2. \A u \in Users : kept(u) \in BOOLEAN /\ other(u) \in BOOLEAN
      BY Zenon
    <3> HIDE DEF old, kept, other
    <3>3. QED BY <3>1, <3>2
  <2>4. QED
    BY <2>1, <2>2, <2>3, OpsSteps
    DEF opsVars, ServiceReturns, RemoveStarts, MatrixServes, CallFails, PollStarts,
        PollReturns, LinkGoes, MatrixServesStray, CliStarts, CliConfirms,
        CliConnects, CliGoesOn, CliExecutes
<1>3. QED BY <1>1, <1>2 DEF FlagsTyped

(* Every variable keeps its type: every reply can be read, every count is  *)
(* within its bound, the settings of the matrix are settings.              *)
THEOREM OperationsTypeCorrect == OpsSpec => []OpsTypeOK
<1> DEFINE Types == OpsShape /\ DoneTyped /\ ShownTyped /\ FlagsTyped
<1>1. OpsInit => Types
  <2> SUFFICES ASSUME OpsInit PROVE Types
    OBVIOUS
  <2>1. OpsShape
    BY OpsStarts
  <2>2. DoneTyped
    <3>1. \A k \in DOMAIN Limit : Limit[k] \in Nat
      BY SettingsAssumption
    <3>2. QED BY <3>1 DEF OpsInit, DoneTyped
  <2>3. data.power \in {"On", "Off"}
    BY <2>1, ReportIsParsed DEF OpsInit, OpsShape, Settings
  <2>4. ShownTyped
    BY <2>3 DEF OpsInit, ShownTyped
  <2>5. FlagsTyped
    BY DEF OpsInit, FlagsTyped
  <2>6. QED BY <2>1, <2>2, <2>4, <2>5
<1>2. Types /\ [OpsNext]_opsVars => Types'
  BY OpsShapeStep, DoneStep, ShownStep, FlagsStep
<1>3. Types => OpsTypeOK
  <2> SUFFICES ASSUME Types PROVE OpsTypeOK
    OBVIOUS
  <2>1. \A t \in Tasks : cmd[t].name \in CommandNames
    BY DEF OpsShape, CommandsTyped, Sendable
  <2>2. \A t \in Tasks : reply[t] # <<>> => StatusReadable(reply[t])
    BY ReportIsReadable DEF OpsShape, RepliesTyped, IsReply
  <2>3. cli.cmd.name \in CommandNames
    BY DEF OpsShape, CommandsTyped, Sendable
  <2>4. QED
    BY <2>1, <2>2, <2>3
    DEF OpsShape, OpsTypeOK, DoingTyped, DoneTyped, ShownTyped, FlagsTyped
<1>4. QED BY <1>1, <1>2, <1>3, PTL DEF OpsSpec

-----------------------------------------------------------------------------
\* The source of the channel that u's service clears.
Fed(u) == matrix.source[doing[u].output]["L"]

\* A clear, from its STATUS to its end.  Each part holds unless others have
\* routed the output since the STATUS: the source that the reply names feeds
\* it, so does the one that REM names, and once that is obeyed none does.
ClearAt(u) ==
    LET job == doing[u].job
        o == doing[u].output
    IN /\ job = "read" => cmd[u] = GetStatus
       /\ job = "read" /\ phase[u] = "served" =>
             moved[u] \/ Column(FindSource(CurrentReport(u), o)) = Fed(u)
       /\ job = "remove" /\ phase[u] \in {"ok", "calling"} =>
             \E source :
                /\ cmd[u] = ClearOutput(o, source)
                /\ moved[u] \/ Column(source) = Fed(u)
       /\ job = "remove" /\ phase[u] = "served" => moved[u] \/ Fed(u) = 0
       /\ job = "cleared" => ~InCall(u) /\ (moved[u] \/ Fed(u) = 0)

(* What others do to the output of a service is either nothing or known.   *)
LEMMA ClearFrame ==
    ASSUME NEW u \in Users, ClearAt(u),
           doing'[u] = doing[u], cmd'[u] = cmd[u], reply'[u] = reply[u],
           phase'[u] = phase[u] \/ (InCall(u) /\ phase'[u] = "lost"),
           \/ doing[u].job \notin {"read", "remove", "cleared"}
           \/ moved[u] /\ moved'[u]
           \/ ~moved[u] /\ (moved'[u] \/ Fed(u)' = Fed(u))
    PROVE  ClearAt(u)'
<1>1. doing'[u].job = doing[u].job /\ doing'[u].output = doing[u].output
  OBVIOUS
<1>2. phase'[u] = phase[u] \/ (doing[u].job # "cleared" /\ phase'[u] = "lost")
  BY DEF ClearAt
<1>3. CASE doing[u].job \notin {"read", "remove", "cleared"}
  BY <1>1, <1>3 DEF ClearAt
<1>4. CASE moved[u] /\ moved'[u]
  BY <1>1, <1>2, <1>4 DEF ClearAt, InCall
<1>5. CASE ~moved[u] /\ moved'[u]
  BY <1>1, <1>2, <1>5 DEF ClearAt, InCall
<1>6. CASE ~moved[u] /\ Fed(u)' = Fed(u)
  BY <1>1, <1>2, <1>6 DEF ClearAt, InCall, CurrentReport
<1>7. QED BY <1>3, <1>4, <1>5, <1>6

(* So a command that others sent, or nobody known, disturbs no clear.      *)
LEMMA OthersObeyed ==
    ASSUME NEW u \in Users, ClearAt(u), NEW c, NEW by, u \notin by, Obeys(c, by),
           doing'[u] = doing[u], cmd'[u] = cmd[u], reply'[u] = reply[u],
           phase'[u] = phase[u]
    PROVE  ClearAt(u)'
<1> DEFINE m == Obey(matrix, c)
           o == doing[u].output
<1>1. matrix' = m
  BY DEF Obeys
<1>2. doing[u].job \in {"read", "remove", "cleared"} =>
          moved'[u] = (moved[u] \/ m.source[o]["L"] # matrix.source[o]["L"])
  BY DEF Obeys
<1>3. Fed(u)' = m.source[o]["L"] /\ Fed(u) = matrix.source[o]["L"]
  BY <1>1 DEF Fed
<1> HIDE DEF m, o
<1>4. \/ doing[u].job \notin {"read", "remove", "cleared"}
      \/ moved[u] /\ moved'[u]
      \/ ~moved[u] /\ (moved'[u] \/ Fed(u)' = Fed(u))
  <2>1. CASE doing[u].job \notin {"read", "remove", "cleared"}
    BY <2>1
  <2>2. ASSUME moved'[u] = (moved[u] \/ m.source[o]["L"] # matrix.source[o]["L"])
        PROVE  (moved[u] /\ moved'[u]) \/ (~moved[u] /\ (moved'[u] \/ Fed(u)' = Fed(u)))
    BY <1>3, <2>2, Zenon
  <2>3. QED BY <1>2, <2>1, <2>2, Zenon
<1>5. QED BY <1>4, ClearFrame

(* STATUS leaves the settings alone.                                       *)
LEMMA StatusIsObeyed == \A m : Obey(m, GetStatus) = m
  BY DEF Obey, GetStatus, Execute

(* REM takes the source it names from the channel it feeds.                *)
LEMMA RemoveIsObeyed ==
    ASSUME NEW m \in Settings, NEW o \in Outputs, NEW source
    PROVE  Obey(m, ClearOutput(o, source)).source[o]["L"] =
              IF m.source[o]["L"] = Column(source) THEN 0 ELSE m.source[o]["L"]
<1> DEFINE c == ClearOutput(o, source)
           s == Change(m.source, c, Arg(c, "output_channel", "LR"),
                       LAMBDA old : IF old = c.args.input THEN 0 ELSE old)
<1>1. c.name = "output_remove" /\ c.args.output = o /\ c.args.input = Column(source)
      /\ DOMAIN c.args = {"output", "input"}
  BY DEF ClearOutput, Execute
<1>2. Obey(m, c) = [m EXCEPT !.source = s]
  BY <1>1 DEF Obey
<1>3. Obey(m, c).source = s
  <2> HIDE DEF s, c
  <2>1. QED BY <1>2 DEF Settings
<1>4. Arg(c, "output_channel", "LR") = "LR"
  BY <1>1 DEF Arg
<1> HIDE DEF c
<1>5. s[o]["L"] = IF m.source[o]["L"] = Column(source) THEN 0 ELSE m.source[o]["L"]
  BY <1>1, <1>4 DEF Change, Sides
<1>6. QED BY <1>3, <1>5 DEF c

(* The matrix obeys a step of the clear itself.                            *)
LEMMA OwnObeyed ==
    ASSUME OpsShape, NEW u \in Users, ClearAt(u), MatrixServes(u)
    PROVE  ClearAt(u)'
<1>1. /\ u \in Tasks /\ doing[u].output \in Outputs /\ matrix \in Settings
      /\ doing' = doing /\ cmd' = cmd
  BY TasksAssumption DEF OpsShape, DoingTyped, MatrixServes
<1>2. phase[u] = "calling" /\ phase'[u] = "served"
  BY <1>1 DEF MatrixServes, Serve, OpsShape, RequestReplyTypeOK
<1>3. matrix' = Obey(matrix, cmd[u])
      /\ moved'[u] = (moved[u] /\ cmd[u].name # "status")
  BY <1>1 DEF MatrixServes, Obeys
<1>4. reply'[u] = IF cmd[u] = GetStatus THEN Report(matrix) ELSE <<>>
  BY <1>1 DEF MatrixServes, OpsShape, RepliesTyped
<1> DEFINE o == doing[u].output
<1>5. CASE doing[u].job = "read"
  <2>1. cmd[u] = GetStatus
    BY <1>5 DEF ClearAt
  <2>2. matrix' = matrix
    BY <1>3, <2>1, StatusIsObeyed
  <2>3. FindSource(ParseStatus(Report(matrix)), o) = SourceToken(matrix.source[o]["L"])
    BY <1>1, ReportIsParsed
  <2>4. matrix.source[o]["L"] \in 0 .. 24
    BY <1>1 DEF Settings, Sides
  <2>5. Column(FindSource(ParseStatus(Report(matrix)), o)) = matrix.source[o]["L"]
    BY <2>3, <2>4, SourcesHaveColumns
  <2>6. Column(FindSource(CurrentReport(u), o))' = Fed(u)'
    BY <1>1, <1>4, <2>1, <2>2, <2>5 DEF CurrentReport, Fed
  <2>7. QED BY <1>1, <1>2, <1>5, <2>1, <2>6 DEF ClearAt
<1>6. CASE doing[u].job = "remove"
  <2>1. PICK source : cmd[u] = ClearOutput(o, source)
                      /\ (moved[u] \/ Column(source) = Fed(u))
    BY <1>2, <1>6 DEF ClearAt
  <2>2. cmd[u].name # "status"
    BY <2>1 DEF ClearOutput, Execute
  <2>3. Fed(u)' = IF Fed(u) = Column(source) THEN 0 ELSE Fed(u)
    BY <1>1, <1>3, <2>1, RemoveIsObeyed DEF Fed
  <2>4. moved'[u] \/ Fed(u)' = 0
    BY <1>3, <2>1, <2>2, <2>3
  <2>5. QED BY <1>1, <1>2, <1>6, <2>4 DEF ClearAt
<1>7. CASE doing[u].job = "cleared"
  BY <1>2, <1>7 DEF ClearAt, InCall
<1>8. CASE doing[u].job \notin {"read", "remove", "cleared"}
  BY <1>1, <1>8 DEF ClearAt
<1>9. QED BY <1>5, <1>6, <1>7, <1>8

(* A clear goes on with what its STATUS named, ...                         *)
LEMMA ReturnedClear ==
    ASSUME OpsShape, NEW u \in Users, ClearAt(u), ServiceReturns(u)
    PROVE  ClearAt(u)'
<1> DEFINE o == doing[u].output
           source == FindSource(CurrentReport(u), o)
<1>1. u \in Tasks /\ phase[u] = "served" /\ phase'[u] = "ok"
  BY TasksAssumption DEF ServiceReturns, Return, OpsShape, RequestReplyTypeOK
<1>2. matrix' = matrix /\ moved' = moved
  BY DEF ServiceReturns
<1>3. \/ doing[u].job = "write" /\ doing' = [doing EXCEPT ![u].job = "none"]
      \/ /\ doing[u].job = "remove" \/ (doing[u].job = "read" /\ source = NoSource)
         /\ doing' = [doing EXCEPT ![u].job = "cleared"]
      \/ /\ doing[u].job = "read" /\ doing' = [doing EXCEPT ![u].job = "remove"]
         /\ cmd' = [cmd EXCEPT ![u] = ClearOutput(o, source)]
  BY DEF ServiceReturns
<1>4. doing[u].job = "read" => moved[u] \/ Column(source) = Fed(u)
  BY <1>1 DEF ClearAt
<1>5. Column(NoSource) = 0
  <2>1. SourceToken(0) = NoSource /\ Column(SourceToken(0)) = 0
    BY SourcesHaveColumns
  <2>2. QED BY <2>1
<1>6. u \in DOMAIN doing /\ doing[u] = [job |-> doing[u].job, output |-> o]
      /\ u \in DOMAIN cmd
  BY <1>1 DEF OpsShape, DoingTyped, CommandsTyped
<1> HIDE DEF source, o
<1>7. CASE doing' = [doing EXCEPT ![u].job = "none"]
  BY <1>6, <1>7 DEF ClearAt
<1>8. ASSUME doing' = [doing EXCEPT ![u].job = "cleared"],
             doing[u].job = "remove" \/ (doing[u].job = "read" /\ source = NoSource)
      PROVE  ClearAt(u)'
  <2>1. doing'[u] = [job |-> "cleared", output |-> o]
    BY <1>6, <1>8
  <2>2. moved[u] \/ Fed(u) = 0
    BY <1>1, <1>4, <1>5, <1>8 DEF ClearAt
  <2>3. Fed(u)' = Fed(u)
    BY <1>2, <2>1 DEF Fed, o
  <2>4. QED BY <1>1, <1>2, <2>1, <2>2, <2>3 DEF ClearAt, InCall
<1>9. ASSUME doing' = [doing EXCEPT ![u].job = "remove"], doing[u].job = "read",
             cmd' = [cmd EXCEPT ![u] = ClearOutput(o, source)]
      PROVE  ClearAt(u)'
  <2>1. doing'[u] = [job |-> "remove", output |-> o]
    BY <1>6, <1>9
  <2>2. Fed(u)' = Fed(u)
    BY <1>2, <2>1 DEF Fed, o
  <2>3. cmd'[u] = ClearOutput(o, source)
    BY <1>6, <1>9
  <2>4. moved'[u] \/ Column(source) = Fed(u)'
    BY <1>2, <1>4, <1>9, <2>2
  <2>5. QED BY <1>1, <2>1, <2>3, <2>4 DEF ClearAt
<1>10. QED BY <1>3, <1>7, <1>8, <1>9

(* ... whatever each step does.                                            *)
LEMMA ClearStep ==
    ASSUME OpsShape, FlagsTyped, [OpsNext]_opsVars, NEW u \in Users, ClearAt(u)
    PROVE  ClearAt(u)'
<1>1. u \in Tasks /\ u # Poller
  BY TasksAssumption
<1>2. /\ doing = [v \in Users |-> doing[v]] /\ cmd = [t \in Tasks |-> cmd[t]]
      /\ reply = [t \in Tasks |-> reply[t]] /\ phase = [t \in Tasks |-> phase[t]]
      /\ moved = [v \in Users |-> moved[v]]
  BY DEF OpsShape, FlagsTyped, DoingTyped, RepliesTyped, CommandsTyped, RequestReplyTypeOK
<1>3. ASSUME doing'[u] = doing[u], cmd'[u] = cmd[u], reply'[u] = reply[u],
             phase'[u] = phase[u] \/ (InCall(u) /\ phase'[u] = "lost"),
             matrix' = matrix, moved'[u] = moved[u]
      PROVE  ClearAt(u)'
  <2>1. Fed(u)' = Fed(u)
    BY <1>3 DEF Fed
  <2>2. moved[u] => moved'[u]
    BY <1>3, Zenon
  <2>3. QED BY <1>3, <2>1, <2>2, ClearFrame
<1>4. CASE UNCHANGED opsVars
  BY <1>3, <1>4 DEF opsVars, callVars
<1>5. ASSUME NEW v \in Users, Starts(v) PROVE ClearAt(u)'
  <2>0. PICK job \in {"write", "read"}, o \in Outputs :
            \E c : Service(v, job, o, c) /\ (job = "read" => c = GetStatus)
    BY <1>5 DEF Starts
  <2>1. PICK c : Service(v, job, o, c) /\ (job = "read" => c = GetStatus)
    BY <2>0
  <2>2. CASE v # u
    <3>1. doing'[u] = doing[u] /\ cmd'[u] = cmd[u] /\ phase'[u] = phase[u]
      <4>1. Executes(v, c) \/ IsRefused(v, c)
        BY <2>1 DEF Service
      <4>2. cmd'[u] = cmd[u] /\ phase'[u] = phase[u]
        BY <1>1, <1>2, <2>2, <4>1 DEF Executes, IsRefused, Call, Reject
      <4>3. \E now : doing' = [doing EXCEPT ![v] = now]
        BY <2>1 DEF Service
      <4>4. QED BY <1>2, <2>2, <4>2, <4>3
    <3>2. matrix' = matrix /\ reply' = reply /\ moved'[u] = moved[u]
      BY <1>2, <2>1, <2>2 DEF Service
    <3>3. QED BY <1>3, <3>1, <3>2
  <2>3. ASSUME v = u, Executes(u, c),
               doing' = [doing EXCEPT ![u] = [job |-> job, output |-> o]]
        PROVE  ClearAt(u)'
    <3>1. phase'[u] = "calling" /\ cmd'[u] = c
      BY <1>1, <1>2, <2>3 DEF Executes, Call
    <3>2. doing'[u] = [job |-> job, output |-> o]
      BY <1>2, <2>3
    <3>3. QED BY <2>1, <3>1, <3>2 DEF ClearAt
  <2>4. ASSUME v = u, doing' = [doing EXCEPT ![u] = [job |-> "none", output |-> o]]
        PROVE  ClearAt(u)'
    BY <1>2, <2>4 DEF ClearAt
  <2>5. QED BY <2>1, <2>2, <2>3, <2>4 DEF Service
<1>6. ASSUME NEW v \in Users, ServiceReturns(v) PROVE ClearAt(u)'
  <2>1. CASE v = u
    BY <1>6, <2>1, ReturnedClear
  <2>2. CASE v # u
    <3>1. doing'[u] = doing[u] /\ cmd'[u] = cmd[u]
      <4>1. \E job : doing' = [doing EXCEPT ![v].job = job]
        BY <1>6 DEF ServiceReturns
      <4>2. \E c : cmd' = [cmd EXCEPT ![v] = c]
        BY <1>6 DEF ServiceReturns
      <4>3. QED BY <1>1, <1>2, <2>2, <4>1, <4>2
    <3>2. reply'[u] = reply[u] /\ phase'[u] = phase[u]
      BY <1>1, <1>2, <1>6, <2>2 DEF ServiceReturns, Return
    <3>3. QED BY <1>3, <1>6, <3>1, <3>2 DEF ServiceReturns
  <2>3. QED BY <2>1, <2>2
<1>7. ASSUME NEW v \in Users, RemoveStarts(v) PROVE ClearAt(u)'
  <2>1. CASE v # u
    <3>1. doing'[u] = doing[u] /\ cmd'[u] = cmd[u] /\ phase'[u] = phase[u]
      BY <1>1, <1>2, <1>7, <2>1 DEF RemoveStarts, Executes, IsRefused, Call, Reject
    <3>2. QED BY <1>3, <1>7, <3>1 DEF RemoveStarts
  <2>2. ASSUME v = u, Executes(u, cmd[u]), UNCHANGED doing PROVE ClearAt(u)'
    <3>1. phase'[u] = "calling" /\ cmd' = cmd
      BY <1>1, <1>2, <2>2 DEF Executes, Call
    <3>2. doing[u].job = "remove" /\ phase[u] = "ok" /\ matrix' = matrix /\ moved' = moved
      BY <1>7, <2>2 DEF RemoveStarts
    <3>3. QED BY <2>2, <3>1, <3>2 DEF ClearAt, Fed
  <2>3. ASSUME v = u, doing' = [doing EXCEPT ![u].job = "none"] PROVE ClearAt(u)'
    <3>1. doing'[u].job = "none"
      BY <1>2, <2>3 DEF OpsShape, DoingTyped
    <3>2. QED BY <3>1 DEF ClearAt
  <2>4. QED BY <1>7, <2>1, <2>2, <2>3 DEF RemoveStarts
<1>8. ASSUME NEW t \in Tasks, MatrixServes(t) PROVE ClearAt(u)'
  <2>1. CASE t = u
    BY <1>8, <2>1, OwnObeyed
  <2>2. CASE t # u
    <3>1. phase'[u] = phase[u] /\ reply'[u] = reply[u]
      BY <1>1, <1>2, <1>8, <2>2 DEF MatrixServes, Serve
    <3>2. Obeys(cmd[t], {t} \cap Users) /\ u \notin {t} \cap Users
      BY <1>8, <2>2 DEF MatrixServes
    <3>3. doing' = doing /\ cmd' = cmd
      BY <1>8 DEF MatrixServes
    <3>4. QED BY <3>1, <3>2, <3>3, OthersObeyed
  <2>3. QED BY <2>1, <2>2
<1>9. ASSUME NEW t \in Tasks, CallFails(t) PROVE ClearAt(u)'
  <2>1. doing'[u] = IF u = t THEN [doing[u] EXCEPT !.job = "none"] ELSE doing[u]
    BY <1>9 DEF CallFails
  <2>2. CASE t = u
    <3>1. doing'[u].job = "none"
      BY <2>1, <2>2 DEF OpsShape, DoingTyped
    <3>2. QED BY <3>1 DEF ClearAt
  <2>3. CASE t # u
    BY <1>1, <1>2, <1>3, <1>9, <2>1, <2>3 DEF CallFails, Fail
  <2>4. QED BY <2>2, <2>3
<1>10. CASE PollStarts \/ PollReturns
  BY <1>1, <1>2, <1>3, <1>10
  DEF PollStarts, PollReturns, Executes, IsRefused, Call, Reject, Return
<1>11. CASE LinkGoes
  <2>1. phase'[u] = phase[u] \/ (InCall(u) /\ phase'[u] = "lost")
    BY <1>1, <1>2, <1>11 DEF LinkGoes, LoseLink, InCall
  <2>2. QED BY <1>3, <1>11, <2>1 DEF LinkGoes
<1>12. CASE MatrixServesStray
  <2>1. phase' = phase
    BY <1>12 DEF MatrixServesStray, ServeStray, callVars
  <2>2. QED BY <1>12, <2>1, OthersObeyed DEF MatrixServesStray
<1>13. ASSUME NEW call \in CliCalls, CliStarts(call) PROVE ClearAt(u)'
  BY <1>3, <1>13 DEF CliStarts, callVars
<1>14. CASE CliConfirms \/ CliConnects
  BY <1>3, <1>14 DEF CliConfirms, CliConnects, CliGoesOn, callVars
<1>15. CASE CliExecutes
  <2>1. phase' = phase /\ cmd' = cmd /\ reply' = reply /\ doing' = doing
    BY <1>15 DEF CliExecutes, callVars
  <2>2. CASE matrix' = matrix /\ moved' = moved
    BY <1>3, <2>1, <2>2
  <2>3. CASE Obeys(cli.cmd, {})
    BY <2>1, <2>3, OthersObeyed
  <2>4. QED BY <1>15, <2>2, <2>3 DEF CliExecutes
<1>16. QED
  BY <1>4, <1>5, <1>6, <1>7, <1>8, <1>9, <1>10, <1>11, <1>12, <1>13, <1>14, <1>15,
     OpsSteps

(* A clear that ended well left its output without a source, unless others *)
(* have routed it since the STATUS the clear went by: for any number of    *)
(* users, outputs and sources, and whatever fails, is lost or comes late.  *)
THEOREM ClearsAreHeld == OpsSpec => []ClearsWhatFeedsIt
<1> DEFINE Held == OpsShape /\ FlagsTyped /\ \A u \in Users : ClearAt(u)
<1>1. OpsInit => Held
  <2> SUFFICES ASSUME OpsInit PROVE Held
    OBVIOUS
  <2>1. FlagsTyped /\ \A u \in Users : ClearAt(u)
    BY DEF OpsInit, FlagsTyped, ClearAt
  <2>2. QED BY <2>1, OpsStarts
<1>2. Held /\ [OpsNext]_opsVars => Held'
  BY OpsShapeStep, FlagsStep, ClearStep
<1>3. Held => ClearsWhatFeedsIt
  BY DEF ClearAt, Fed, ClearsWhatFeedsIt
<1>4. QED BY <1>1, <1>2, <1>3, PTL DEF OpsSpec
=============================================================================
