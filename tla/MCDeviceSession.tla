--------------------------- MODULE MCDeviceSession ---------------------------
(* Instances of DeviceSession for TLC.                                     *)
EXTENDS DeviceSession

MCLimit(refusals, drops, banners, timeouts, cancels) ==
    [k \in EventKind |-> CASE k = "refusal" -> refusals [] k = "drop" -> drops
                           [] k = "banner" -> banners [] k = "timeout" -> timeouts
                           [] k = "cancel" -> cancels]
LimitAll == MCLimit(1, 1, 1, 1, 1)
LimitDrop == MCLimit(0, 1, 0, 0, 0)
LimitBanner == MCLimit(0, 0, 1, 0, 0)
=============================================================================
