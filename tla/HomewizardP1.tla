---------------------------- MODULE HomewizardP1 ----------------------------
(***************************************************************************)
(* get_data() of ionemo_drivers/grid/homewizard_p1.py: one GET, its answer  *)
(* mapped to GridMeterData.  The JSON object is a function from the fields  *)
(* the driver reads to the Python type of their value, or "absent".         *)
(***************************************************************************)
EXTENDS ContractData

CONSTANT Documents   \* the JSON objects the dongle may send

Counters == {"total_power_import_t1_kwh", "total_power_import_t2_kwh",
             "total_power_export_t1_kwh", "total_power_export_t2_kwh"}

\* Optional fields of the contract and where they come from.
Source ==
    [gas_total_m3 |-> "total_gas_m3",
     voltage_l1_v |-> "active_voltage_l1_v", voltage_l2_v |-> "active_voltage_l2_v",
     voltage_l3_v |-> "active_voltage_l3_v", current_l1_a |-> "active_current_l1_a",
     current_l2_a |-> "active_current_l2_a", current_l3_a |-> "active_current_l3_a",
     frequency_hz |-> "active_frequency_hz"]

RawFields == Counters \cup {"active_power_w"} \cup {Source[k] : k \in DOMAIN Source}

ASSUME DocumentAssumption == Documents \subseteq [RawFields -> Kinds \cup {"absent"}]

VARIABLES
    document,   \* the object the last GET returned
    outcome,    \* what get_data() did: returned None or data, or raised
    data,       \* the data it returned
    failing,    \* self._last_error is set
    succeeded   \* self._last_success is not None

p1Vars == <<document, outcome, data, failing, succeeded>>

Nothing == <<>>   \* no object, no data

P1TypeOK ==
    /\ document \in Documents \cup {Nothing}
    /\ outcome \in {"not called", "None", "data", "raised"}
    /\ outcome # "data" => data = Nothing
    /\ failing \in BOOLEAN /\ succeeded \in BOOLEAN

P1Init ==
    /\ document = Nothing /\ outcome = "not called" /\ data = Nothing
    /\ failing = FALSE /\ succeeded = FALSE

\* get_status()
P1Status == IF failing THEN "error"
            ELSE IF ~succeeded THEN "disabled" ELSE "connected"

\* Mutant: a field that is null counts as missing.
GetOrDefault(raw, field, default) ==
    IF raw[field] \in {"absent", "None"} THEN default ELSE raw[field]

\* raw.get(field, 0.0) and raw.get(field)
Get(raw, field, default) == IF raw[field] = "absent" THEN default ELSE raw[field]

Numeric == {"int", "float", "bool"}

\* x + y in Python: "raises" is the TypeError.
Plus(x, y) ==
    IF x = "str" /\ y = "str" THEN "str"
    ELSE IF {x, y} \subseteq Numeric
    THEN IF "float" \in {x, y} THEN "float" ELSE "int"
    ELSE "raises"

Counter(raw, field) == Get(raw, field, "float")

\* _map_to_contract(): one value per key of the contract.
MapToContract(raw) ==
    LET t1 == Counter(raw, "total_power_import_t1_kwh")
        t2 == Counter(raw, "total_power_import_t2_kwh")
        e1 == Counter(raw, "total_power_export_t1_kwh")
        e2 == Counter(raw, "total_power_export_t2_kwh")
    IN  [grid_power_w |-> Get(raw, "active_power_w", "float"),
         import_total_kwh |-> Plus(t1, t2), export_total_kwh |-> Plus(e1, e2),
         import_t1_kwh |-> t1, import_t2_kwh |-> t2,
         export_t1_kwh |-> e1, export_t2_kwh |-> e2,
         gas_total_m3 |-> Get(raw, Source.gas_total_m3, "None"),
         voltage_l1_v |-> Get(raw, Source.voltage_l1_v, "None"),
         voltage_l2_v |-> Get(raw, Source.voltage_l2_v, "None"),
         voltage_l3_v |-> Get(raw, Source.voltage_l3_v, "None"),
         current_l1_a |-> Get(raw, Source.current_l1_a, "None"),
         current_l2_a |-> Get(raw, Source.current_l2_a, "None"),
         current_l3_a |-> Get(raw, Source.current_l3_a, "None"),
         frequency_hz |-> Get(raw, Source.frequency_hz, "None")]

\* The GET fails, its status is an error or its body is no JSON.
Unanswered ==
    /\ document' = Nothing /\ data' = Nothing
    /\ outcome' = "None"
    /\ failing' = TRUE
    /\ UNCHANGED succeeded

\* A JSON body that is not an object has no get(): AttributeError.
AnsweredOther ==
    /\ document' = Nothing /\ data' = Nothing
    /\ outcome' = "raised"
    /\ failing' = FALSE /\ succeeded' = TRUE

\* The status fields are set before the mapping, which may raise.
Answered(raw) ==
    /\ document' = raw
    /\ failing' = FALSE /\ succeeded' = TRUE
    /\ LET mapped == MapToContract(raw)
           raises == \E k \in DOMAIN mapped : mapped[k] = "raises"
       IN /\ outcome' = IF raises THEN "raised" ELSE "data"
          /\ data' = IF raises THEN Nothing ELSE mapped

GetData == Unanswered \/ AnsweredOther \/ \E raw \in Documents : Answered(raw)

----------------------------------------------------------------------------
(* What the dongle's object should come to, field by field. *)

Usable == {"absent", "int", "float"}

\* The contract can take every field that was sent.
Clean(raw) ==
    /\ \A f \in Counters \cup {"active_power_w"} : raw[f] \in Usable
    /\ \A k \in DOMAIN Source : raw[Source[k]] \in Usable \cup {"None"}

RequiredKinds(raw) == {raw[f] : f \in Counters \cup {"active_power_w"}}

\* Nothing required is missing, and nothing else unusable.
Whole(raw) == Clean(raw) /\ "absent" \notin RequiredKinds(raw)

\* The keys of the contract that come from a field each, and the sums.
TariffField ==
    [import_t1_kwh |-> "total_power_import_t1_kwh",
     import_t2_kwh |-> "total_power_import_t2_kwh",
     export_t1_kwh |-> "total_power_export_t1_kwh",
     export_t2_kwh |-> "total_power_export_t2_kwh"]

\* An object with all that is required, and nothing that is not a number where
\* one belongs, is turned into a reading the grid meter's contract accepts.  A
\* reading that the contract accepts hides nothing: no field that was sent was
\* null or of another type, but for the optional ones that are null.  And each
\* key of a reading comes from its own field: an optional one is None when the
\* field is not sent, a tariff is what was sent.
\*
\* Of the other objects it says nothing, for code and documents disagree on
\* them.  get_data() raises a TypeError, after its status fields were set to
\* "connected", on a counter that is null (README.md:139, base.py:224,
\* docs/contracts/grid_meter.md:48 and CONTRIBUTING.md:230 forbid it), and takes
\* a missing active_power_w or counter for 0.0 (README.md:141 wants None, and
\* docs/drivers/homewizard_p1.md:75 the sum of the phases).
ReadingIsRight ==
    document # Nothing =>
        /\ Whole(document) =>
             outcome = "data" /\ Violations("grid_meter", data) = {}
        /\ outcome = "data" /\ Violations("grid_meter", data) = {} =>
             Clean(document)
        /\ outcome = "data" =>
             /\ \A k \in DOMAIN Source :
                  data[k] = IF document[Source[k]] = "absent" THEN "None"
                            ELSE document[Source[k]]
             /\ \A k \in DOMAIN TariffField :
                  document[TariffField[k]] # "absent" =>
                    data[k] = document[TariffField[k]]
=============================================================================
