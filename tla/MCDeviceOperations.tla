-------------------------- MODULE MCDeviceOperations --------------------------
(* An instance of DeviceOperations for TLC.                                *)
EXTENDS DeviceOperations

CONSTANTS u1, u2, poll

MCUsers == {u1, u2}
MCTasks == {u1, u2, poll}
MCLimit == [service |-> 2, other |-> 1]

Line(name, given, steps, yes) ==
    [name |-> name, yes |-> yes,
     ns |-> [given |-> given, increase |-> steps, decrease |-> {}]]
\* A route, a clear and a step of the right channel; a delay and a unit that
\* validate rejects.
MCCliCalls ==
    {Line("route", [output |-> 0, input |-> 17], {}, FALSE),
     Line("output_remove", [output |-> 1, input |-> 1], {}, FALSE),
     Line("output_remove", [output |-> 1, input |-> 17], {}, TRUE),
     Line("output_volume", [output |-> 1, level |-> <<"abs", 99>>, channel |-> "R"],
          {}, FALSE),
     Line("output_volume", [output |-> 1, unit |-> "dB"], {"level"}, FALSE),
     Line("output_delay", [output |-> 1, delay_ms |-> 600], {}, FALSE)}
=============================================================================
