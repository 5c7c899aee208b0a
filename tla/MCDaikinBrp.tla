---------------------------- MODULE MCDaikinBrp ----------------------------
(* DaikinBrp for TLC: the states the unit is found in and the remote sets. *)
EXTENDS DaikinBrp

Cooling == [pow |-> "1", mode |-> "3", stemp |-> 48, f_rate |-> "A"]
Ventilating == [pow |-> "1", mode |-> "6", stemp |-> NO_SETPOINT, f_rate |-> "3"]
OffHeating == [pow |-> "0", mode |-> "4", stemp |-> 42, f_rate |-> "A"]
OffVentilating == [pow |-> "0", mode |-> "6", stemp |-> NO_SETPOINT, f_rate |-> "B"]

NoRemote == {}
SwitchedOff == {OffHeating}
FoundCooling == {Cooling}
FoundAny == {Cooling, Ventilating, OffHeating, OffVentilating}
\* Beyond both ends, on a step, and at ties that round down and up.
TestTemperatures == {30, 85, 87, 100, 140}
=============================================================================
