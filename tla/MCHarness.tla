----------------------------- MODULE MCHarness -----------------------------
EXTENDS Harness

TwoBuiltins == <<"homewizard_p1", "aurora_rs485">>

\* A new driver, a replacement of a builtin, and one that replaces the new
\* driver by something that is no class.
ThreeEntries ==
    <<<<"acme", "AcmeMeter">>, <<"aurora_rs485", "BetterAurora">>, <<"acme", "a function">>>>

Types ==
    [v \in {"homewizard_p1", "aurora_rs485", "AcmeMeter", "BetterAurora", "a function"} |->
        CASE v \in {"homewizard_p1", "AcmeMeter"} -> "grid_meter"
          [] v \in {"aurora_rs485", "BetterAurora"} -> "pv_inverter"
          [] OTHER -> "not a class"]

Plain == [f \in RawFields |-> "float"]

Values == Kinds \cup {"absent"}

\* All pairs of import counters; of the other fields one at a time.
SomeDocuments ==
    {[Plain EXCEPT !["total_power_import_t1_kwh"] = x,
                   !["total_power_import_t2_kwh"] = y] : x \in Values, y \in Values}
    \cup {[Plain EXCEPT ![f] = x] : f \in RawFields, x \in Values}
=============================================================================
