---------------------------- MODULE MCAuroraBus ----------------------------
(* AuroraBus for TLC: two ports, two rates, two addresses. *)
EXTENDS AuroraBus

TwoPorts == <<"ttyUSB0", "ttyACM0">>
TwoRates == <<19200, 9600>>
TwoReads == <<"temp", "daily">>
=============================================================================
