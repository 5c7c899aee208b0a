---------------------------- MODULE ContractData ----------------------------
(***************************************************************************)
(* The data contracts of ionemo_drivers/base.py and                         *)
(* validate_contract_data() of ionemo_drivers/contract_validation.py.  A    *)
(* value is abstracted to its Python type; a dictionary is a function from  *)
(* its keys to such types.                                                  *)
(***************************************************************************)

Kinds == {"None", "float", "int", "bool", "str"}

\* A TypedDict's fields: numbers, but for those in strings.
Fields(keys, strings) == [k \in keys |-> IF k \in strings THEN "str" ELSE "float"]

GridMeterData ==
    [required |-> Fields({"grid_power_w", "import_total_kwh", "export_total_kwh"}, {}),
     optional |-> Fields({"import_t1_kwh", "import_t2_kwh", "export_t1_kwh",
                          "export_t2_kwh", "gas_total_m3", "voltage_l1_v",
                          "voltage_l2_v", "voltage_l3_v", "current_l1_a",
                          "current_l2_a", "current_l3_a", "frequency_hz"}, {})]

PVInverterData ==
    [required |-> Fields({"solar_power_w", "daily_energy_wh", "total_energy_wh"}, {}),
     optional |-> Fields({"temperature_c", "dc_voltage_v", "dc_current_a",
                          "grid_voltage_v", "grid_frequency_hz"}, {})]

EVChargerData ==
    [required |-> Fields({"state", "power_w", "current_l1_a", "current_l2_a",
                          "current_l3_a", "energy_total_kwh", "max_current_a"},
                         {"state"}),
     optional |-> Fields({"session_energy_kwh", "voltage_l1_v", "voltage_l2_v",
                          "voltage_l3_v"}, {})]

ACUnitData ==
    [required |-> Fields({"mode", "power_w", "temperature_c", "target_temp_c"}, {"mode"}),
     optional |-> Fields({"fan_speed", "humidity_pct"}, {"fan_speed"})]

CONTRACT_BY_DEVICE_TYPE ==
    [t \in {"grid_meter", "pv_inverter", "ev_charger", "ac_unit"} |->
        CASE t = "grid_meter" -> GridMeterData
          [] t = "pv_inverter" -> PVInverterData
          [] t = "ev_charger" -> EVChargerData
          [] t = "ac_unit" -> ACUnitData]

\* _matches_type(): bool is a subclass of int and never a number here.
MatchesType(kind, expected) ==
    IF expected = "float" THEN kind \in {"int", "float"} ELSE kind = expected

\* Mutant: None passes for a required key as it does for an optional one.
ViolationsLax(type, data) ==
    LET contract == CONTRACT_BY_DEVICE_TYPE[type]
        required == DOMAIN contract.required
        optional == DOMAIN contract.optional
        Wrong(key, kind) == data[key] # "None" /\ ~MatchesType(data[key], kind)
    IN  UNION {DOMAIN data \ (required \cup optional),
               required \ DOMAIN data,
               {key \in required \cap DOMAIN data :
                    Wrong(key, contract.required[key])},
               {key \in optional \cap DOMAIN data :
                    Wrong(key, contract.optional[key])}}

\* validate_contract_data(): the keys it complains about.
Violations(type, data) ==
    LET contract == CONTRACT_BY_DEVICE_TYPE[type]
        required == DOMAIN contract.required
        optional == DOMAIN contract.optional
        Wrong(key, kind) == ~MatchesType(data[key], kind)
    IN  UNION {DOMAIN data \ (required \cup optional),
               required \ DOMAIN data,
               {key \in required \cap DOMAIN data :
                    Wrong(key, contract.required[key])},
               {key \in optional \cap DOMAIN data :
                    data[key] # "None" /\ Wrong(key, contract.optional[key])}}
=============================================================================
