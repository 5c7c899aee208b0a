------------------------------- MODULE ACUnit -------------------------------
(***************************************************************************)
(* What ACUnitDriver (ionemo_drivers/base.py) promises its caller: a unit   *)
(* with a mode, a target temperature and a fan speed, each changed by its   *)
(* own setter and by nothing else.  Set-points count half degrees, requested*)
(* temperatures quarter degrees.                                            *)
(***************************************************************************)
EXTENDS Integers

CONSTANTS Modes, Temperatures, FanSpeeds, Setpoints, Fallback

VARIABLES mode, target, fan
vars == <<mode, target, fan>>

Init ==
    /\ mode \in {"off", "auto", "cool", "heat", "fan", "dry"}
    /\ target \in Setpoints
    /\ fan \in FanSpeeds

\* Fan mode has no set-point: the one in use is forgotten.
SetMode(m) ==
    /\ mode' = m
    /\ target' = IF m = "fan" THEN Fallback ELSE target
    /\ UNCHANGED fan

Distance(s, q) == IF 2 * s > q THEN 2 * s - q ELSE q - 2 * s

\* The set-points a requested temperature may be rounded to.
Nearest(q) ==
    {s \in Setpoints : \A r \in Setpoints : Distance(s, q) <= Distance(r, q)}

\* Setting a temperature turns the unit on and leaves fan mode.
SetTemperature(q) ==
    /\ target' \in Nearest(q)
    /\ \/ mode = "off" /\ mode' \in {"auto", "cool", "heat", "dry"}
       \/ mode = "fan" /\ mode' = "auto"
       \/ mode \notin {"off", "fan"} /\ mode' = mode
    /\ UNCHANGED fan

SetFanSpeed(s) == fan' = s /\ UNCHANGED <<mode, target>>

Next ==
    \/ \E m \in Modes : SetMode(m)
    \/ \E q \in Temperatures : SetTemperature(q)
    \/ \E s \in FanSpeeds : SetFanSpeed(s)

Spec == Init /\ [][Next]_vars
=============================================================================
