--------------------------- MODULE DaikinControl ---------------------------
(***************************************************************************)
(* The pure part of ionemo_drivers/ac/daikin_brp.py: how the adapter's      *)
(* control fields read in the AC contract, and how a setter turns the       *)
(* fields it last saw into the full payload of a set_control_info request.  *)
(*                                                                          *)
(* Temperatures given to set_temperature() count quarter degrees, set-points*)
(* on the wire count half degrees.  The fields shum and f_dir follow stemp  *)
(* or are echoed; nothing below depends on them.                            *)
(***************************************************************************)
EXTENDS Integers

ContractModes == {"off", "auto", "cool", "heat", "fan", "dry"}
FanSpeeds == {"auto", "silent", "1", "2", "3", "4", "5"}

WireModes == {"0", "1", "2", "3", "4", "6"}
WireRates == {"A", "B", "3", "4", "5", "6", "7"}

MODE_TO_STR ==
    [m \in WireModes |-> CASE m \in {"0", "1"} -> "auto" [] m = "2" -> "dry"
                           [] m = "3" -> "cool" [] m = "4" -> "heat"
                           [] m = "6" -> "fan"]

MODE_TO_DAIKIN ==
    [m \in ContractModes |->
        CASE m = "off" -> [pow |-> "0", mode |-> "0"]
          [] m = "auto" -> [pow |-> "1", mode |-> "1"]
          [] m = "cool" -> [pow |-> "1", mode |-> "3"]
          [] m = "heat" -> [pow |-> "1", mode |-> "4"]
          [] m = "fan" -> [pow |-> "1", mode |-> "6"]
          [] m = "dry" -> [pow |-> "1", mode |-> "2"]]

FAN_TO_DAIKIN ==
    [s \in FanSpeeds |-> CASE s = "auto" -> "A" [] s = "silent" -> "B"
                           [] s = "1" -> "3" [] s = "2" -> "4" [] s = "3" -> "5"
                           [] s = "4" -> "6" [] s = "5" -> "7"]

FRATE_TO_STR ==
    [r \in WireRates |-> CHOOSE s \in FanSpeeds : FAN_TO_DAIKIN[s] = r]

STEMP_MIN == 20        \* 10.0 degrees
STEMP_MAX == 64        \* 32.0 degrees
FALLBACK_STEMP == 44   \* 22.0 degrees
NO_SETPOINT == 0       \* "--" or "M": no set-point applies

Setpoints == STEMP_MIN..STEMP_MAX

\* The writable fields of get_control_info / set_control_info.
Controls == [pow : {"0", "1"}, mode : WireModes,
             stemp : Setpoints \cup {NO_SETPOINT}, f_rate : WireRates]

\* What get_data() reports of a control response.
View(c) ==
    [mode |-> IF c.pow = "0" THEN "off" ELSE MODE_TO_STR[c.mode],
     target |-> IF c.stemp = NO_SETPOINT THEN FALLBACK_STEMP ELSE c.stemp,
     fan |-> FRATE_TO_STR[c.f_rate]]

WithMode(c, m) ==
    [c EXCEPT !.pow = MODE_TO_DAIKIN[m].pow,
              !.mode = MODE_TO_DAIKIN[m].mode,
              !.stemp = IF m = "fan" THEN NO_SETPOINT
                        ELSE IF @ = NO_SETPOINT THEN FALLBACK_STEMP
                        ELSE @]

\* Mutant: the requested temperature is not clamped.
RoundedUnclamped(q) == q \div 2

\* round(clamped * 2) / 2 in half degrees; Python rounds ties to even.
Rounded(q) ==
    LET clamped == IF q < 2 * STEMP_MIN THEN 2 * STEMP_MIN
                   ELSE IF q > 2 * STEMP_MAX THEN 2 * STEMP_MAX ELSE q
        floor == clamped \div 2
    IN  IF clamped % 2 = 1 /\ floor % 2 = 1 THEN floor + 1 ELSE floor

\* Mutant: fan mode is kept when a temperature is set.
WithTemperatureInFanMode(c, q) ==
    [c EXCEPT !.stemp = Rounded(q), !.pow = "1"]

WithTemperature(c, q) ==
    [c EXCEPT !.stemp = Rounded(q),
              !.pow = "1",
              !.mode = IF @ = "6" THEN "1" ELSE @]

WithFanSpeed(c, s) == [c EXCEPT !.f_rate = FAN_TO_DAIKIN[s]]

\* The payload a setter sends: the fields it saw, with its change merged in.
Merge(c, job) ==
    CASE job[1] = "mode" -> WithMode(c, job[2])
      [] job[1] = "temp" -> WithTemperature(c, job[2])
      [] job[1] = "fan" -> WithFanSpeed(c, job[2])
=============================================================================
