------------------------------ MODULE Registry ------------------------------
(***************************************************************************)
(* ionemo_drivers/registry.py: the dictionary of drivers, filled by         *)
(* load_all_drivers() from the builtin modules and then from the entry      *)
(* points of installed packages, and looked up by name and by type.         *)
(***************************************************************************)
EXTENDS Naturals, Sequences

CONSTANTS
    Builtins,     \* builtin modules in the order they are imported; each
                  \* registers one class under its own name
    Entries,      \* entry points in the order they are found, as <<name, value>>
    TypeOf        \* the device type of each value that may be registered;
                  \* "not a class" if issubclass() cannot take it

DeviceTypes == {"grid_meter", "pv_inverter", "ev_charger", "ac_unit"}

RangeOf(s) == {s[i] : i \in DOMAIN s}

ASSUME RegistryAssumption ==
    /\ Builtins \in Seq(RangeOf(Builtins)) /\ Entries \in Seq(RangeOf(Entries))
    /\ RangeOf(Builtins) \subseteq DOMAIN TypeOf
    /\ \A e \in RangeOf(Entries) : e[2] \in DOMAIN TypeOf
    /\ \A v \in DOMAIN TypeOf : TypeOf[v] \in DeviceTypes \cup {"not a class"}

VARIABLES
    DRIVER_REGISTRY,
    modules,   \* builtin modules in sys.modules
    plugins,   \* entry points that failed and left their module in sys.modules
    loading,   \* "builtin", "external", "loaded", or "raised"
    next,      \* index of the next builtin module or entry point
    imports,   \* what importing each builtin module does
    loads      \* what ep.load() does for each entry point

registryVars ==
    <<DRIVER_REGISTRY, modules, plugins, loading, next, imports, loads>>

\* "late": the entry point's module registers its class when it is imported, as
\* CONTRIBUTING.md:162 has it, and ep.load() raises after that.
LoadResults == {"ok", "Exception", "late"}

RegistryTypeOK ==
    /\ DOMAIN DRIVER_REGISTRY \subseteq
         RangeOf(Builtins) \cup {e[1] : e \in RangeOf(Entries)}
    /\ \A n \in DOMAIN DRIVER_REGISTRY : DRIVER_REGISTRY[n] \in DOMAIN TypeOf
    /\ modules \subseteq RangeOf(Builtins) /\ plugins \subseteq DOMAIN Entries
    /\ loading \in {"builtin", "external", "loaded", "raised"}
    /\ next \in Nat

NoDrivers == [n \in {} |-> n]

RegistryInit ==
    /\ DRIVER_REGISTRY = NoDrivers /\ modules = {} /\ plugins = {}
    /\ loading = "builtin" /\ next = 1
    /\ imports \in [RangeOf(Builtins) -> {"ok", "ImportError", "Exception"}]
    /\ loads \in [DOMAIN Entries -> LoadResults]

\* register_driver(), and the assignment in _load_external_drivers().
Register(name, value) ==
    DRIVER_REGISTRY' = [n \in DOMAIN DRIVER_REGISTRY \cup {name} |->
                          IF n = name THEN value ELSE DRIVER_REGISTRY[n]]

(* load_all_drivers() *)

\* import_module(): a module that is already imported registers nothing again;
\* one that fails with anything but ImportError ends the loading.
ImportBuiltin ==
    /\ loading = "builtin" /\ next <= Len(Builtins)
    /\ LET b == Builtins[next]
           new == b \notin modules /\ imports[b] = "ok"
       IN /\ IF new THEN Register(b, b) ELSE UNCHANGED DRIVER_REGISTRY
          /\ modules' = IF new THEN modules \cup {b} ELSE modules
          /\ loading' = IF imports[b] = "Exception" THEN "raised" ELSE loading
    /\ next' = next + 1
    /\ UNCHANGED <<plugins, imports, loads>>

BuiltinsDone ==
    /\ loading = "builtin" /\ next = Len(Builtins) + 1
    /\ loading' = "external" /\ next' = 1
    /\ UNCHANGED <<DRIVER_REGISTRY, modules, plugins, imports, loads>>

Late == {i \in DOMAIN Entries : loads[i] = "late"}

\* Mutant: an entry point does not replace a driver of the same name.
LoadEntryKeeping ==
    /\ loading = "external" /\ next <= Len(Entries)
    /\ IF loads[next] = "ok" /\ Entries[next][1] \notin DOMAIN DRIVER_REGISTRY
       THEN Register(Entries[next][1], Entries[next][2])
       ELSE UNCHANGED DRIVER_REGISTRY
    /\ next' = next + 1
    /\ UNCHANGED <<modules, plugins, loading, imports, loads>>

\* Every exception of ep.load() is caught; nothing looks at what it returns.  A
\* module that fails late stays imported, and registers nothing when it is loaded
\* again, unless it was its import that failed.
LoadEntry ==
    /\ loading = "external" /\ next <= Len(Entries)
    /\ \/ /\ loads[next] = "ok" \/ (loads[next] = "late" /\ next \notin plugins)
          /\ Register(Entries[next][1], Entries[next][2])
       \/ /\ loads[next] = "Exception" \/ next \in plugins
          /\ UNCHANGED DRIVER_REGISTRY
    /\ plugins' \in {plugins} \cup {plugins \cup {i} : i \in {next} \cap Late}
    /\ next' = next + 1
    /\ UNCHANGED <<modules, loading, imports, loads>>

EntriesDone ==
    /\ loading = "external" /\ next = Len(Entries) + 1
    /\ loading' = "loaded"
    /\ UNCHANGED <<DRIVER_REGISTRY, modules, plugins, next, imports, loads>>

\* load_all_drivers() is called once more in the same process.
LoadAgain ==
    /\ loading \in {"loaded", "raised"}
    /\ loading' = "builtin" /\ next' = 1
    /\ UNCHANGED <<DRIVER_REGISTRY, modules, plugins, imports, loads>>

Load == ImportBuiltin \/ BuiltinsDone \/ LoadEntry \/ EntriesDone

(* Lookups *)

Raises == "TypeError"

\* get_drivers_for_type(): issubclass() is asked of every registered value.
DriversForType(type) ==
    IF type \notin DeviceTypes THEN {}
    ELSE IF \E n \in DOMAIN DRIVER_REGISTRY :
              TypeOf[DRIVER_REGISTRY[n]] = "not a class"
    THEN Raises
    ELSE {n \in DOMAIN DRIVER_REGISTRY : TypeOf[DRIVER_REGISTRY[n]] = type}

----------------------------------------------------------------------------
(* What loading should come to, whatever was loaded before. *)

\* The entry points that put something under a name.
Owners(name) ==
    {i \in DOMAIN Entries : loads[i] # "Exception" /\ Entries[i][1] = name}

\* A name stands for an entry point of that name that none which loads follows,
\* or for the builtin.
StandsFor(name, value) ==
    IF Owners(name) = {} THEN value = name
    ELSE \E i \in Owners(name) : /\ value = Entries[i][2]
                                 /\ \A j \in Owners(name) \ Late : j <= i

Loadable ==
    {b \in RangeOf(Builtins) : imports[b] = "ok"}
        \cup {Entries[i][1] : i \in {j \in DOMAIN Entries : loads[j] # "Exception"}}

\* Once everything is loaded, the first time or again, the registry holds the
\* builtins that could be imported and the names of the entry points that loaded
\* or had registered themselves before they failed, and nothing else.  The last
\* entry point that loads stands before the earlier ones of its name and before
\* a builtin; only a later one that registered itself and then failed can take
\* its place.  If all that is registered are classes, a lookup by type finds
\* each of them.
LoadingIsRight ==
    loading = "loaded" =>
        /\ DOMAIN DRIVER_REGISTRY = Loadable
        /\ \A n \in Loadable : StandsFor(n, DRIVER_REGISTRY[n])
        /\ (\A n \in Loadable : TypeOf[DRIVER_REGISTRY[n]] # "not a class") =>
             \A n \in Loadable :
                n \in DriversForType(TypeOf[DRIVER_REGISTRY[n]])
=============================================================================
