------------------------------ MODULE Harness ------------------------------
(***************************************************************************)
(* tools/harness.py, the stand-in for the application: it loads the         *)
(* registry, looks a driver up, builds it and polls it, judging each        *)
(* reading by its contract.  Polled with the builtin HomeWizard driver it   *)
(* runs HomewizardP1; of any other driver it only sees what get_data()      *)
(* does.                                                                    *)
(***************************************************************************)
EXTENDS Registry, HomewizardP1

CONSTANTS
    DriverIds,   \* names the user may ask for
    Counts,      \* --count; 0 is for ever
    MaxReads     \* bound: reads are counted up to here

P1 == "homewizard_p1"

ASSUME HarnessAssumption ==
    /\ P1 \in RangeOf(Builtins) /\ TypeOf[P1] = "grid_meter"
    /\ MaxReads \in Nat /\ Counts \subseteq 0..MaxReads

VARIABLES
    args,        \* the command line
    hpc,         \* where main() is
    reads,
    failures,
    exit,        \* the exit status
    interrupted, \* history: Ctrl-C was pressed in the loop
    spoilt       \* history: a read that returned nothing, raised, or was of a
                 \* device that did not send what the contract asks for

harness == <<args, hpc, reads, failures, exit, interrupted, spoilt>>
vars == <<registryVars, p1Vars, harness>>

Running == 2   \* no exit status yet

TypeOK ==
    /\ RegistryTypeOK /\ P1TypeOK
    /\ hpc \in {"load", "command", "poll", "judge", "sleep", "exited"}
    /\ reads \in 0..MaxReads /\ failures \in 0..reads
    /\ args.count > 0 => reads <= args.count
    /\ exit \in {0, 1, Running} /\ (hpc = "exited" <=> exit # Running)
    /\ interrupted \in BOOLEAN /\ spoilt \in BOOLEAN

\* "refused": a number that time.sleep() does not take, such as a negative one.
\* Only a poll is configured.
Commands ==
    {c \in [func : {"list", "schema", "discover", "poll"}, driver_id : DriverIds,
            config : {"complete", "incomplete", "malformed"}, count : Counts,
            interval : {"valid", "refused"}] :
        c.func # "poll" => c.config = "complete" /\ c.interval = "valid"}

Init ==
    /\ RegistryInit /\ P1Init
    /\ args \in Commands
    /\ hpc = "load" /\ reads = 0 /\ failures = 0 /\ exit = Running
    /\ interrupted = FALSE /\ spoilt = FALSE

\* sys.exit(main()); an exception that reaches the interpreter exits with 1.
Exit(status) == hpc' = "exited" /\ exit' = status
Traceback == 1

Quiet == UNCHANGED <<registryVars, p1Vars, args, reads, failures, interrupted, spoilt>>

LoadDrivers ==
    /\ hpc = "load" /\ Load
    /\ UNCHANGED <<p1Vars, harness>>

\* load_all_drivers() has returned, or an exception has left it.
Loaded ==
    /\ hpc = "load" /\ loading \in {"loaded", "raised"}
    /\ IF loading = "loaded" THEN hpc' = "command" /\ UNCHANGED exit
       ELSE Exit(Traceback)
    /\ Quiet

Known == args.driver_id \in DOMAIN DRIVER_REGISTRY

IsClass(name) == TypeOf[DRIVER_REGISTRY[name]] # "not a class"

\* cmd_list() reads attributes that only a driver class has.
List ==
    /\ hpc = "command" /\ args.func = "list"
    /\ Exit(IF DRIVER_REGISTRY = NoDrivers THEN 1
            ELSE IF \A n \in DOMAIN DRIVER_REGISTRY : IsClass(n) THEN 0
            ELSE Traceback)
    /\ Quiet

\* cmd_schema(), cmd_discover(): _require_driver() exits with a message; the
\* driver's own scan may raise.
Ask ==
    /\ hpc = "command" /\ args.func \in {"schema", "discover"}
    /\ \E raises \in BOOLEAN :
         /\ raises => args.func = "discover"
         /\ Exit(IF ~Known THEN 1
                 ELSE IF ~IsClass(args.driver_id) \/ raises THEN Traceback
                 ELSE 0)
    /\ Quiet

\* cmd_poll() up to its loop: a malformed pair exits with a message, a missing
\* key raises in the driver's __init__().
Poll ==
    /\ hpc = "command" /\ args.func = "poll"
    /\ IF ~Known \/ args.config = "malformed" THEN Exit(1)
       ELSE IF ~IsClass(args.driver_id) \/ args.config = "incomplete"
       THEN Exit(Traceback)
       ELSE hpc' = "poll" /\ UNCHANGED exit
    /\ Quiet

\* Mutant: one read too many.
GoesOnceMore == args.count = 0 \/ reads <= args.count

\* The loop's condition, as it stands before each read and each sleep.
Goes == args.count = 0 \/ reads < args.count

Polled == DRIVER_REGISTRY[args.driver_id]

\* A reading with more keys, all of one kind.
With(reading, keys, kind) ==
    [k \in DOMAIN reading \cup keys |-> IF k \in DOMAIN reading THEN reading[k] ELSE kind]

\* What another driver of a type may return: what the contract asks for, with
\* and without the optional keys, and three ways to miss it.
Required(type) == CONTRACT_BY_DEVICE_TYPE[type].required
Conforming(type) ==
    {Required(type),
     With(Required(type), DOMAIN CONTRACT_BY_DEVICE_TYPE[type].optional, "None")}
Broken(type) ==
    {With(Required(type), {"unexpected"}, "int")}
        \cup {[Required(type) EXCEPT ![k] = "None"] : k \in DOMAIN Required(type)}
        \cup {[j \in DOMAIN Required(type) \ {k} |-> Required(type)[j]] :
                k \in DOMAIN Required(type)}

\* data = driver.get_data() of another driver.
GetOther ==
    /\ outcome' \in {"None", "data", "raised"}
    /\ data' \in IF outcome' = "data"
                 THEN Conforming(TypeOf[Polled]) \cup Broken(TypeOf[Polled])
                 ELSE {Nothing}
    /\ UNCHANGED <<document, failing, succeeded>>

\* What the device sent is not what the contract asks for.
Spoils ==
    \/ outcome' # "data"
    \/ IF Polled = P1 THEN ~Clean(document')
       ELSE data' \notin Conforming(TypeOf[Polled])

Counted(n) == IF n < MaxReads THEN n + 1 ELSE n

\* Nothing in cmd_poll() handles an exception of get_data().
Read ==
    /\ hpc = "poll" /\ Goes
    /\ IF Polled = P1 THEN GetData ELSE GetOther
    /\ spoilt' = (spoilt \/ Spoils)
    /\ IF outcome' = "raised" THEN Exit(Traceback) /\ UNCHANGED reads
       ELSE hpc' = "judge" /\ reads' = Counted(reads) /\ UNCHANGED exit
    /\ UNCHANGED <<registryVars, args, failures, interrupted>>

\* The rest of the loop's body; the harness keeps nothing of a reading.
JudgeBy(fails) ==
    /\ hpc = "judge"
    /\ failures' = IF fails THEN Counted(failures) ELSE failures
    /\ hpc' = IF Goes THEN "sleep" ELSE "poll"
    /\ document' = Nothing /\ data' = Nothing /\ outcome' = "not called"
    /\ UNCHANGED <<registryVars, failing, succeeded, args, reads, exit,
                   interrupted, spoilt>>

Problems == outcome = "data" /\ Violations(TypeOf[Polled], data) # {}

\* Mutant: a read that returned None is reported and not counted.
JudgeDataOnly == JudgeBy(Problems)

Judge == JudgeBy(outcome = "None" \/ Problems)

\* time.sleep() raises ValueError, which nothing in cmd_poll() handles.
Sleep ==
    /\ hpc = "sleep"
    /\ IF args.interval = "refused" THEN Exit(Traceback)
       ELSE hpc' = "poll" /\ UNCHANGED exit
    /\ Quiet

Verdict == IF failures > 0 THEN 1 ELSE 0

Finish ==
    /\ hpc = "poll" /\ ~Goes
    /\ Exit(Verdict)
    /\ Quiet

\* Ctrl-C: before a read is counted, before it is judged, or while waiting.
Interrupt ==
    /\ hpc \in {"poll", "judge", "sleep"}
    /\ Exit(Verdict) /\ interrupted' = TRUE
    /\ UNCHANGED <<registryVars, p1Vars, args, reads, failures, spoilt>>

\* main() is called again in the same process, with another command line.
Again ==
    /\ hpc = "exited" /\ LoadAgain
    /\ args' \in Commands
    /\ hpc' = "load" /\ exit' = Running
    /\ reads' = 0 /\ failures' = 0 /\ interrupted' = FALSE /\ spoilt' = FALSE
    /\ document' = Nothing /\ outcome' = "not called" /\ data' = Nothing
    /\ failing' = FALSE /\ succeeded' = FALSE

Next ==
    \/ LoadDrivers \/ Loaded \/ List \/ Ask \/ Poll
    \/ Read \/ Judge \/ Sleep \/ Finish \/ Interrupt \/ Again

Spec == Init /\ [][Next]_vars

----------------------------------------------------------------------------
(* Properties *)

\* A poll exits with 0 only of a driver that is known and could be built, and
\* only if every read was of a device all of whose fields its contract can take
\* and none returned None or raised, but for reads cut off by Ctrl-C.  It exits
\* with 1 only if one of these failed, or the interval is one that time.sleep()
\* refuses.  (A required field that the dongle leaves out counts as 0.0 here, as
\* it does in the HomeWizard driver.)
VerdictIsRight ==
    hpc = "exited" /\ args.func = "poll" =>
        LET polls == /\ loading = "loaded" /\ Known /\ IsClass(args.driver_id)
                     /\ args.config = "complete"
        IN  /\ exit = 0 => polls /\ (spoilt => interrupted)
            /\ exit = 1 => ~polls \/ spoilt \/ args.interval = "refused"
=============================================================================
