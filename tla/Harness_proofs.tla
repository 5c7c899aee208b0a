--------------------------- MODULE Harness_proofs ---------------------------
(***************************************************************************)
(* The registry, the HomeWizard driver's readings and the verdicts of the   *)
(* harness, for every list of builtin modules and entry points, every set   *)
(* of JSON objects and every number of reads.                               *)
(***************************************************************************)
EXTENDS Harness, TLAPS

----------------------------------------------------------------------------
(* The invariant *)

OkBuiltins == {b \in RangeOf(Builtins) : imports[b] = "ok"}

\* What the tables of the registry hold; a load is somewhere in its two lists.
Tables ==
    /\ imports \in [RangeOf(Builtins) -> {"ok", "ImportError", "Exception"}]
    /\ loads \in [DOMAIN Entries -> LoadResults]
    /\ DRIVER_REGISTRY = [n \in DOMAIN DRIVER_REGISTRY |-> DRIVER_REGISTRY[n]]
    /\ DOMAIN DRIVER_REGISTRY \subseteq Loadable
    /\ loading = "builtin" => next \in 1..(Len(Builtins) + 1)
    /\ loading = "external" => next \in 1..(Len(Entries) + 1)
    /\ loading = "loaded" => next = Len(Entries) + 1

\* The builtin modules that have been imported are registered, and are all that
\* can be once the entry points' turn has come, which it has where one failed late.
Imported ==
    /\ modules \subseteq OkBuiltins /\ modules \subseteq DOMAIN DRIVER_REGISTRY
    /\ loading = "builtin" =>
         \A i \in DOMAIN Builtins :
            i < next => imports[Builtins[i]] # "Exception"
                        /\ (imports[Builtins[i]] = "ok" => Builtins[i] \in modules)
    /\ loading \in {"external", "loaded"} \/ plugins # {} => OkBuiltins \subseteq modules

\* The entry points of a name that this load has reached.
Before(n) == {i \in Owners(n) : i < next}

\* The value of a name is one of its entry points'.
FromEntry(n) == \E i \in Owners(n) : DRIVER_REGISTRY[n] = Entries[i][2]

\* A name stands for its builtin or for an entry point, an entry point that the
\* load has reached has taken its name from the builtin, and none that loads comes
\* after the one the name stands for.  An entry point that will not register
\* itself again finds its name taken.
Assigned ==
    /\ \A n \in DOMAIN DRIVER_REGISTRY : DRIVER_REGISTRY[n] = n \/ FromEntry(n)
    /\ \A i \in plugins : /\ i \in Late /\ Entries[i][1] \in DOMAIN DRIVER_REGISTRY
                           /\ FromEntry(Entries[i][1])
    /\ loading \in {"external", "loaded"} =>
         \A n : Before(n) # {} =>
            /\ n \in DOMAIN DRIVER_REGISTRY
            /\ \E i \in Owners(n) : /\ DRIVER_REGISTRY[n] = Entries[i][2]
                                     /\ \A j \in Before(n) \ Late : j <= i

RegistryInv == RegistryTypeOK /\ Tables /\ Imported /\ Assigned

PollState == {"poll", "judge", "sleep"}

\* A poll that got past _require_driver() and the driver's __init__().
Polls == /\ loading = "loaded" /\ Known /\ IsClass(args.driver_id)
         /\ args.config = "complete"

\* The reading that is being judged counts as a failure.
Failing == outcome = "None" \/ Problems

\* Where main() is, and what it has got there with.
Stages ==
    /\ args \in Commands
    /\ hpc = "command" => loading = "loaded"
    /\ hpc \in PollState => args.func = "poll" /\ Polls
    /\ hpc = "exited" <=> exit # Running
    /\ interrupted => hpc = "exited"

\* A reading lives from its read to its verdict.
Readings ==
    /\ hpc \notin {"judge", "exited"} =>
         document = Nothing /\ data = Nothing /\ outcome = "not called"
    /\ hpc = "judge" => outcome \in {"None", "data"}

\* The failures counted, and the one about to be, tell whether anything spoilt
\* the poll; MaxReads = 0 leaves nothing to count with.
Tally ==
    /\ hpc \in {"load", "command"} => reads = 0 /\ failures = 0 /\ ~spoilt
    /\ failures > 0 => spoilt
    /\ MaxReads > 0 /\ spoilt =>
         /\ hpc \in {"poll", "sleep"} => failures > 0
         /\ hpc = "judge" => failures > 0 \/ Failing
    /\ hpc = "judge" => (Failing => spoilt) /\ (failures < reads \/ reads = MaxReads)

IInv ==
    /\ TypeOK /\ RegistryInv /\ Stages /\ Readings /\ Tally
    /\ ReadingIsRight /\ VerdictIsRight

----------------------------------------------------------------------------
(* The registry *)

\* The two lists are sequences.
LEMMA Lists ==
    /\ Len(Builtins) \in Nat /\ DOMAIN Builtins = 1..Len(Builtins)
    /\ Len(Entries) \in Nat /\ DOMAIN Entries = 1..Len(Entries)
<1>1. Builtins \in Seq(RangeOf(Builtins)) /\ Entries \in Seq(RangeOf(Entries))
  BY RegistryAssumption
<1> QED
  BY <1>1

\* A registry that has assigned every loaded entry point is the right one.
LEMMA LoadedRight ==
    ASSUME RegistryInv
    PROVE  LoadingIsRight
<1> SUFFICES ASSUME loading = "loaded"
             PROVE  /\ DOMAIN DRIVER_REGISTRY = Loadable
                    /\ \A n \in Loadable : StandsFor(n, DRIVER_REGISTRY[n])
                    /\ (\A n \in Loadable : TypeOf[DRIVER_REGISTRY[n]] # "not a class") =>
                         \A n \in Loadable :
                            n \in DriversForType(TypeOf[DRIVER_REGISTRY[n]])
  BY DEF LoadingIsRight
<1>1. next = Len(Entries) + 1
  BY DEF RegistryInv, Tables
<1>2. ASSUME NEW n PROVE Before(n) = Owners(n)
  <2>1. \A i \in DOMAIN Entries : i < next
    BY <1>1, Lists
  <2> QED
    BY <2>1 DEF Before, Owners
<1>3. Loadable \subseteq DOMAIN DRIVER_REGISTRY
  <2>1. ASSUME NEW i \in DOMAIN Entries, loads[i] # "Exception"
        PROVE  Entries[i][1] \in DOMAIN DRIVER_REGISTRY
    <3>1. i \in Owners(Entries[i][1])
      BY <2>1 DEF Owners
    <3> QED
      BY <1>2, <3>1 DEF RegistryInv, Assigned
  <2>2. OkBuiltins \subseteq DOMAIN DRIVER_REGISTRY
    BY DEF RegistryInv, Imported
  <2> QED
    BY <2>1, <2>2 DEF Loadable, OkBuiltins
<1>4. DOMAIN DRIVER_REGISTRY = Loadable
  BY <1>3 DEF RegistryInv, Tables
<1>5. ASSUME NEW n \in Loadable PROVE StandsFor(n, DRIVER_REGISTRY[n])
  <2>1. CASE Owners(n) = {}
    BY <1>4, <2>1 DEF RegistryInv, Assigned, FromEntry, StandsFor
  <2>2. CASE Owners(n) # {}
    BY <1>2, <2>2 DEF RegistryInv, Assigned, StandsFor
  <2> QED
    BY <2>1, <2>2
<1>6. ASSUME \A n \in Loadable : TypeOf[DRIVER_REGISTRY[n]] # "not a class",
             NEW n \in Loadable
      PROVE  n \in DriversForType(TypeOf[DRIVER_REGISTRY[n]])
  <2>1. TypeOf[DRIVER_REGISTRY[n]] \in DeviceTypes
    BY <1>4, <1>6, RegistryAssumption DEF RegistryInv, RegistryTypeOK
  <2> QED
    BY <1>4, <1>6, <2>1 DEF DriversForType
<1> QED
  BY <1>4, <1>5, <1>6

\* The first load starts with nothing registered.
LEMMA RegistryStart == RegistryInit => RegistryInv
<1> SUFFICES ASSUME RegistryInit PROVE RegistryInv
  OBVIOUS
<1>1. DOMAIN DRIVER_REGISTRY = {} /\ modules = {} /\ plugins = {}
      /\ loading = "builtin" /\ next = 1
      /\ DRIVER_REGISTRY = [n \in DOMAIN DRIVER_REGISTRY |-> DRIVER_REGISTRY[n]]
  BY DEF RegistryInit, NoDrivers
<1>2. /\ 1 \in 1..(Len(Builtins) + 1)
      /\ \A i \in DOMAIN Builtins : ~(i < 1)
  BY Lists
<1>3. RegistryTypeOK
  BY <1>1 DEF RegistryTypeOK
<1>4. Tables
  BY <1>1, <1>2 DEF RegistryInit, Tables
<1>5. Imported /\ Assigned
  BY <1>1, <1>2 DEF Imported, Assigned
<1> QED
  BY <1>3, <1>4, <1>5 DEF RegistryInv

\* One more builtin module.
LEMMA ImportKept ==
    ASSUME RegistryInv, ImportBuiltin
    PROVE  RegistryInv'
<1> DEFINE b == Builtins[next]
<1>0. /\ RegistryTypeOK /\ Tables /\ Imported /\ Assigned
      /\ loading = "builtin" /\ next \in DOMAIN Builtins /\ b \in RangeOf(Builtins)
      /\ next' = next + 1 /\ UNCHANGED <<plugins, imports, loads>> /\ next \in Nat
  <2>1. loading = "builtin" /\ next <= Len(Builtins)
        /\ next' = next + 1 /\ UNCHANGED <<plugins, imports, loads>>
    BY DEF ImportBuiltin
  <2>2. next \in 1..(Len(Builtins) + 1)
    BY <2>1 DEF RegistryInv, Tables
  <2>3. next \in DOMAIN Builtins
    BY <2>1, <2>2, Lists
  <2> QED
    BY <2>1, <2>2, <2>3, Lists DEF RegistryInv, RangeOf
<1>1. loading' = IF imports[b] = "Exception" THEN "raised" ELSE "builtin"
  BY <1>0 DEF ImportBuiltin
<1>2. Late' = Late /\ \A n : Owners(n)' = Owners(n)
  BY <1>0 DEF Owners, Late
<1>3. Loadable' = Loadable /\ OkBuiltins' = OkBuiltins
  BY <1>0 DEF Loadable, OkBuiltins
<1>4. /\ next' \in 1..(Len(Builtins) + 1)
      /\ \A i \in DOMAIN Builtins : i < next' => i < next \/ i = next
  BY <1>0, Lists
<1>5. CASE b \notin modules /\ imports[b] = "ok"
  <2>1. /\ DRIVER_REGISTRY' = [n \in DOMAIN DRIVER_REGISTRY \cup {b} |->
                                 IF n = b THEN b ELSE DRIVER_REGISTRY[n]]
        /\ modules' = modules \cup {b} /\ loading' = "builtin"
    BY <1>1, <1>5 DEF ImportBuiltin, Register
  <2>2. DOMAIN DRIVER_REGISTRY' = DOMAIN DRIVER_REGISTRY \cup {b}
    BY <2>1
  <2>3. DRIVER_REGISTRY' = [n \in DOMAIN DRIVER_REGISTRY' |-> DRIVER_REGISTRY'[n]]
    BY <2>1
  <2>4. b \in Loadable /\ b \in OkBuiltins
    BY <1>0, <1>5 DEF Loadable, OkBuiltins
  <2>5. RegistryTypeOK'
    <3>1. b \in DOMAIN TypeOf
      BY <1>0, RegistryAssumption
    <3>2. next' \in Nat
      BY <1>0
    <3> QED
      BY <1>0, <2>1, <2>2, <3>1, <3>2 DEF RegistryTypeOK
  <2>6. Tables'
    BY <1>0, <1>3, <1>4, <2>1, <2>2, <2>3, <2>4 DEF Tables
  <2>7. Imported'
    BY <1>0, <1>3, <1>4, <1>5, <2>1, <2>2, <2>4 DEF Imported
  <2>8. Assigned'
    <3>1. plugins' = {}
      BY <1>0, <1>5, <2>4 DEF Imported
    <3>2. ASSUME NEW n \in DOMAIN DRIVER_REGISTRY'
          PROVE  DRIVER_REGISTRY'[n] = n \/ FromEntry(n)'
      BY <1>0, <1>2, <2>1, <2>2, <3>2 DEF Assigned, FromEntry
    <3> QED
      BY <2>1, <3>1, <3>2 DEF Assigned
  <2> QED
    BY <2>5, <2>6, <2>7, <2>8 DEF RegistryInv
<1>6. CASE ~(b \notin modules /\ imports[b] = "ok")
  <2>1. UNCHANGED <<DRIVER_REGISTRY, modules>>
    BY <1>6 DEF ImportBuiltin
  <2>2. RegistryTypeOK'
    BY <1>0, <1>1, <2>1 DEF RegistryTypeOK
  <2>3. Tables'
    BY <1>0, <1>1, <1>3, <1>4, <2>1 DEF Tables
  <2>4. Imported'
    BY <1>0, <1>1, <1>3, <1>4, <1>6, <2>1 DEF Imported
  <2>5. Assigned'
    <3>1. \A n : FromEntry(n)' <=> FromEntry(n)
      BY <1>0, <1>2, <2>1 DEF FromEntry
    <3>2. loading' \in {"builtin", "raised"}
      BY <1>1
    <3> QED
      BY <1>0, <1>2, <2>1, <3>1, <3>2 DEF Assigned
  <2> QED
    BY <2>2, <2>3, <2>4, <2>5 DEF RegistryInv
<1> QED
  BY <1>5, <1>6

\* The builtin modules are done: all that can be imported are registered.
LEMMA BuiltinsDoneKept ==
    ASSUME RegistryInv, BuiltinsDone
    PROVE  RegistryInv'
<1>0. /\ RegistryTypeOK /\ Tables /\ Imported /\ Assigned
      /\ loading = "builtin" /\ next = Len(Builtins) + 1
      /\ loading' = "external" /\ next' = 1
      /\ UNCHANGED <<DRIVER_REGISTRY, modules, plugins, imports, loads>>
  BY DEF RegistryInv, BuiltinsDone
<1>1. Loadable' = Loadable /\ OkBuiltins' = OkBuiltins
  BY <1>0 DEF Loadable, OkBuiltins
<1>2. Late' = Late /\ \A n : Before(n)' = {} /\ (FromEntry(n)' <=> FromEntry(n))
  <2>1. \A i \in DOMAIN Entries : ~(i < 1)
    BY Lists
  <2> QED
    BY <1>0, <2>1 DEF Owners, Before, Late, FromEntry
<1>3. /\ 1 \in 1..(Len(Entries) + 1)
      /\ \A i \in DOMAIN Builtins : i < next
  BY <1>0, Lists
<1>4. RegistryTypeOK'
  BY <1>0 DEF RegistryTypeOK
<1>5. Tables'
  BY <1>0, <1>1, <1>3 DEF Tables
<1>6. OkBuiltins \subseteq modules
  BY <1>0, <1>3 DEF Imported, OkBuiltins, RangeOf
<1>7. Imported'
  BY <1>0, <1>1, <1>6 DEF Imported
<1>8. Assigned'
  BY <1>0, <1>2 DEF Assigned
<1> QED
  BY <1>4, <1>5, <1>7, <1>8 DEF RegistryInv

\* One more entry point.
LEMMA EntryKept ==
    ASSUME RegistryInv, LoadEntry
    PROVE  RegistryInv'
<1> DEFINE name == Entries[next][1]
           entry == Entries[next][2]
<1>0. /\ RegistryTypeOK /\ Tables /\ Imported /\ Assigned
      /\ loading = "external" /\ next \in DOMAIN Entries /\ next \in Nat
      /\ next' = next + 1 /\ UNCHANGED <<modules, loading, imports, loads>>
  <2>1. loading = "external" /\ next <= Len(Entries)
        /\ next' = next + 1 /\ UNCHANGED <<modules, loading, imports, loads>>
    BY DEF LoadEntry
  <2>2. next \in 1..(Len(Entries) + 1)
    BY <2>1 DEF RegistryInv, Tables
  <2> QED
    BY <2>1, <2>2, Lists DEF RegistryInv
<1>1. Loadable' = Loadable /\ OkBuiltins' = OkBuiltins
  BY <1>0 DEF Loadable, OkBuiltins
<1>2. Late' = Late /\ \A n : Owners(n)' = Owners(n)
  BY <1>0 DEF Owners, Late
<1>3. /\ next' \in 1..(Len(Entries) + 1) /\ next' \in Nat
      /\ \A i \in DOMAIN Entries : /\ i < next' <=> i < next \/ i = next
                                   /\ i < next => i <= next
      /\ next <= next
  BY <1>0, Lists
<1>4. plugins' \subseteq plugins \cup ({next} \cap Late) /\ plugins' \subseteq DOMAIN Entries
  BY <1>0 DEF LoadEntry, RegistryTypeOK
<1>5. OkBuiltins \subseteq modules
  BY <1>0 DEF Imported
<1>6. \A n : Before(n)' = Before(n) \cup ({next} \cap Owners(n))
  BY <1>0, <1>2, <1>3 DEF Before, Owners
<1>7. CASE Register(name, entry) /\ loads[next] # "Exception"
  <2>1. DRIVER_REGISTRY' = [n \in DOMAIN DRIVER_REGISTRY \cup {name} |->
                              IF n = name THEN entry ELSE DRIVER_REGISTRY[n]]
    BY <1>7 DEF Register
  <2>2. DOMAIN DRIVER_REGISTRY' = DOMAIN DRIVER_REGISTRY \cup {name}
    BY <2>1
  <2>3. DRIVER_REGISTRY' = [n \in DOMAIN DRIVER_REGISTRY' |-> DRIVER_REGISTRY'[n]]
    BY <2>1
  <2>4. name \in Loadable
    BY <1>0, <1>7 DEF Loadable
  <2>5. Entries[next] \in RangeOf(Entries)
    BY <1>0 DEF RangeOf
  <2>6. RegistryTypeOK'
    <3>1. name \in {e[1] : e \in RangeOf(Entries)} /\ entry \in DOMAIN TypeOf
      BY <2>5, RegistryAssumption
    <3> QED
      BY <1>0, <1>3, <1>4, <2>1, <2>2, <3>1 DEF RegistryTypeOK
  <2>7. Tables'
    BY <1>0, <1>1, <1>3, <2>2, <2>3, <2>4 DEF Tables
  <2>8. Imported'
    BY <1>0, <1>1, <1>5, <2>2 DEF Imported
  <2>9. next \in Owners(name) /\ DRIVER_REGISTRY'[name] = entry
        /\ \A n \in DOMAIN DRIVER_REGISTRY \ {name} :
             DRIVER_REGISTRY'[n] = DRIVER_REGISTRY[n]
    BY <1>0, <1>7, <2>1 DEF Owners
  <2>10. ASSUME NEW n, n = name \/ (n \in DOMAIN DRIVER_REGISTRY /\ FromEntry(n))
         PROVE  FromEntry(n)'
    BY <1>0, <1>2, <2>9, <2>10 DEF FromEntry
  <2>11. ASSUME NEW n, Before(n)' # {}
         PROVE  /\ n \in DOMAIN DRIVER_REGISTRY'
                /\ \E i \in Owners(n) : /\ DRIVER_REGISTRY'[n] = Entries[i][2]
                                        /\ \A j \in Before(n)' \ Late : j <= i
    <3>1. CASE n = name
      <4>1. \A j \in Before(n)' : j <= next
        BY <1>3, <1>6 DEF Before, Owners
      <4> QED
        BY <2>2, <2>9, <3>1, <4>1
    <3>2. CASE n # name
      <4>1. Before(n)' = Before(n)
        BY <1>6, <3>2 DEF Owners
      <4> QED
        BY <1>0, <2>2, <2>9, <2>11, <3>2, <4>1 DEF Assigned
    <3> QED
      BY <3>1, <3>2
  <2>12. Assigned'
    <3>1. \A n \in DOMAIN DRIVER_REGISTRY' : DRIVER_REGISTRY'[n] = n \/ FromEntry(n)'
      BY <1>0, <2>2, <2>9, <2>10 DEF Assigned
    <3>2. \A i \in plugins' : /\ i \in Late /\ Entries[i][1] \in DOMAIN DRIVER_REGISTRY'
                              /\ FromEntry(Entries[i][1])'
      BY <1>0, <1>4, <2>2, <2>10 DEF Assigned
    <3> QED
      BY <1>2, <2>11, <3>1, <3>2 DEF Assigned
  <2> QED
    BY <2>6, <2>7, <2>8, <2>12 DEF RegistryInv
<1>8. CASE (loads[next] = "Exception" \/ next \in plugins) /\ UNCHANGED DRIVER_REGISTRY
  <2>1. UNCHANGED DRIVER_REGISTRY /\ \A n : FromEntry(n)' <=> FromEntry(n)
    BY <1>2, <1>8 DEF FromEntry, Owners
  <2>2. plugins' \subseteq plugins
    BY <1>4, <1>8 DEF Late
  <2>3. RegistryTypeOK'
    BY <1>0, <1>3, <1>4, <2>1 DEF RegistryTypeOK
  <2>4. Tables'
    BY <1>0, <1>1, <1>3, <2>1 DEF Tables
  <2>5. Imported'
    BY <1>0, <1>1, <1>5, <2>1 DEF Imported
  <2>6. ASSUME NEW n, Before(n)' # {}
        PROVE  /\ n \in DOMAIN DRIVER_REGISTRY
               /\ \E i \in Owners(n) : /\ DRIVER_REGISTRY[n] = Entries[i][2]
                                       /\ \A j \in Before(n)' \ Late : j <= i
    <3>1. CASE next \in Owners(n)
      <4>1. n = name /\ next \in plugins /\ next \in Late
        BY <1>0, <1>8, <3>1 DEF Owners, Assigned
      <4>2. n \in DOMAIN DRIVER_REGISTRY /\ FromEntry(n)
        BY <1>0, <4>1 DEF Assigned
      <4>3. Before(n)' \ Late = Before(n) \ Late
        BY <1>6, <4>1
      <4>4. CASE Before(n) = {}
        BY <4>2, <4>3, <4>4 DEF FromEntry
      <4>5. CASE Before(n) # {}
        BY <1>0, <4>3, <4>5 DEF Assigned
      <4> QED
        BY <4>4, <4>5
    <3>2. CASE next \notin Owners(n)
      <4>1. Before(n)' = Before(n)
        BY <1>6, <3>2
      <4> QED
        BY <1>0, <2>6, <4>1 DEF Assigned
    <3> QED
      BY <3>1, <3>2
  <2>7. Assigned'
    BY <1>0, <1>2, <2>1, <2>2, <2>6 DEF Assigned
  <2> QED
    BY <2>3, <2>4, <2>5, <2>7 DEF RegistryInv
<1>9. \/ Register(name, entry) /\ loads[next] # "Exception"
      \/ (loads[next] = "Exception" \/ next \in plugins) /\ UNCHANGED DRIVER_REGISTRY
  BY DEF LoadEntry
<1> QED
  BY <1>7, <1>8, <1>9

\* The end of a load, and the next one.
LEMMA EndsKept ==
    ASSUME RegistryInv, EntriesDone \/ LoadAgain
    PROVE  RegistryInv'
<1>0. /\ RegistryTypeOK /\ Tables /\ Imported /\ Assigned
      /\ UNCHANGED <<DRIVER_REGISTRY, modules, plugins, imports, loads>>
  BY DEF RegistryInv, EntriesDone, LoadAgain
<1>1. Loadable' = Loadable /\ OkBuiltins' = OkBuiltins
  BY <1>0 DEF Loadable, OkBuiltins
<1>2. /\ Late' = Late
      /\ \A n : Owners(n)' = Owners(n) /\ (FromEntry(n)' <=> FromEntry(n))
  BY <1>0 DEF Owners, Late, FromEntry
<1>3. CASE EntriesDone
  <2>1. /\ loading = "external" /\ next = Len(Entries) + 1 /\ loading' = "loaded"
        /\ next' = next
    BY <1>3 DEF EntriesDone
  <2>2. \A n : Before(n)' = Before(n)
    BY <1>2, <2>1 DEF Before
  <2>3. RegistryTypeOK' /\ Tables' /\ Imported'
    BY <1>0, <1>1, <2>1 DEF RegistryTypeOK, Tables, Imported
  <2>4. Assigned'
    BY <1>0, <1>2, <2>1, <2>2 DEF Assigned
  <2> QED
    BY <2>3, <2>4 DEF RegistryInv
<1>4. CASE LoadAgain
  <2>1. loading \in {"loaded", "raised"} /\ loading' = "builtin" /\ next' = 1
    BY <1>4 DEF LoadAgain
  <2>2. 1 \in 1..(Len(Builtins) + 1) /\ \A i \in DOMAIN Builtins : ~(i < 1)
    BY Lists
  <2>3. RegistryTypeOK' /\ Tables' /\ Imported'
    BY <1>0, <1>1, <2>1, <2>2 DEF RegistryTypeOK, Tables, Imported
  <2>4. Assigned'
    BY <1>0, <1>2, <2>1 DEF Assigned
  <2> QED
    BY <2>3, <2>4 DEF RegistryInv
<1> QED
  BY <1>3, <1>4

\* What does not load leaves the registry alone.
LEMMA RegistryKept ==
    ASSUME RegistryInv, Load \/ LoadAgain \/ UNCHANGED registryVars
    PROVE  RegistryInv'
<1>1. CASE UNCHANGED registryVars
  BY <1>1 DEF registryVars, RegistryInv, RegistryTypeOK, Tables, Imported, Assigned,
              Before, Owners, FromEntry, Late, Loadable, OkBuiltins
<1> QED
  BY <1>1, ImportKept, BuiltinsDoneKept, EntryKept, EndsKept DEF Load

----------------------------------------------------------------------------
(* The contracts *)

Contract(type) == CONTRACT_BY_DEVICE_TYPE[type]

\* A contract asks for numbers and texts, under different names.
LEMMA ContractShape ==
    ASSUME NEW type \in DeviceTypes
    PROVE  /\ \A k \in DOMAIN Contract(type).required :
                Contract(type).required[k] \in {"float", "str"}
           /\ DOMAIN Contract(type).required \cap DOMAIN Contract(type).optional = {}
           /\ "unexpected" \notin DOMAIN Contract(type).required
                                    \cup DOMAIN Contract(type).optional
<1>1. CASE type = "grid_meter"
  BY <1>1 DEF Contract, CONTRACT_BY_DEVICE_TYPE, GridMeterData, Fields
<1>2. CASE type = "pv_inverter"
  BY <1>2 DEF Contract, CONTRACT_BY_DEVICE_TYPE, PVInverterData, Fields
<1>3. CASE type = "ev_charger"
  BY <1>3 DEF Contract, CONTRACT_BY_DEVICE_TYPE, EVChargerData, Fields
<1>4. CASE type = "ac_unit"
  BY <1>4 DEF Contract, CONTRACT_BY_DEVICE_TYPE, ACUnitData, Fields
<1> QED
  BY <1>1, <1>2, <1>3, <1>4 DEF DeviceTypes

\* When a reading has no violation: its keys are those of the contract, all the
\* required ones are there, and each value is of its type.
LEMMA NoViolation ==
    ASSUME NEW type, NEW d
    PROVE  Violations(type, d) = {} <=>
             /\ DOMAIN Contract(type).required \subseteq DOMAIN d
             /\ DOMAIN d \subseteq DOMAIN Contract(type).required
                                     \cup DOMAIN Contract(type).optional
             /\ \A k \in DOMAIN Contract(type).required \cap DOMAIN d :
                  MatchesType(d[k], Contract(type).required[k])
             /\ \A k \in DOMAIN Contract(type).optional \cap DOMAIN d :
                  d[k] = "None" \/ MatchesType(d[k], Contract(type).optional[k])
BY DEF Violations, Contract

\* The readings that another driver returns have violations exactly if they are
\* not what the contract asks for.
LEMMA ReadingsJudged ==
    ASSUME NEW type \in DeviceTypes,
           NEW d \in Conforming(type) \cup Broken(type)
    PROVE  Violations(type, d) = {} <=> d \in Conforming(type)
<1> DEFINE r == Required(type)
           o == Contract(type).optional
<1>0. r = Contract(type).required /\ Required(type) = r
  BY DEF Required, Contract
<1>1. /\ \A k \in DOMAIN r : r[k] \in {"float", "str"}
      /\ DOMAIN r \cap DOMAIN o = {}
      /\ "unexpected" \notin DOMAIN r \cup DOMAIN o
  BY <1>0, ContractShape
<1>2. Violations(type, d) = {} <=>
        /\ DOMAIN r \subseteq DOMAIN d /\ DOMAIN d \subseteq DOMAIN r \cup DOMAIN o
        /\ \A k \in DOMAIN r \cap DOMAIN d : MatchesType(d[k], r[k])
        /\ \A k \in DOMAIN o \cap DOMAIN d : d[k] = "None" \/ MatchesType(d[k], o[k])
  BY <1>0, NoViolation
<1>3. /\ Conforming(type) = {r, With(r, DOMAIN o, "None")}
      /\ Broken(type) = {With(r, {"unexpected"}, "int")}
            \cup {[r EXCEPT ![k] = "None"] : k \in DOMAIN r}
            \cup {[j \in DOMAIN r \ {k} |-> r[j]] : k \in DOMAIN r}
  BY DEF Conforming, Broken, Contract
<1> HIDE DEF r, o
<1>4. \A k \in {"float", "str"} : MatchesType(k, k) /\ ~MatchesType("None", k)
  BY DEF MatchesType
<1>5. CASE d \in Conforming(type)
  <2>1. CASE d = r
    BY <1>1, <1>2, <1>4, <1>5, <2>1
  <2>2. CASE d = With(r, DOMAIN o, "None")
    <3>1. /\ DOMAIN d = DOMAIN r \cup DOMAIN o
          /\ \A k \in DOMAIN r : d[k] = r[k]
          /\ \A k \in DOMAIN o : d[k] = "None"
      BY <1>1, <2>2 DEF With
    <3> QED
      BY <1>1, <1>2, <1>4, <1>5, <3>1
  <2> QED
    BY <1>3, <1>5, <2>1, <2>2
<1>6. CASE d \in Broken(type)
  <2>1. CASE d = With(r, {"unexpected"}, "int")
    <3>1. "unexpected" \in DOMAIN d
      BY <2>1 DEF With
    <3>2. d # r /\ d # With(r, DOMAIN o, "None")
      <4>1. DOMAIN With(r, DOMAIN o, "None") = DOMAIN r \cup DOMAIN o
        BY DEF With
      <4> QED
        BY <1>1, <3>1, <4>1
    <3> QED
      BY <1>1, <1>2, <1>3, <3>1, <3>2
  <2>2. ASSUME NEW k \in DOMAIN r, d = [r EXCEPT ![k] = "None"]
        PROVE  Violations(type, d) # {} /\ d \notin Conforming(type)
    <3>1. k \in DOMAIN d /\ d[k] = "None"
      BY <2>2
    <3>2. r[k] # "None" /\ With(r, DOMAIN o, "None")[k] = r[k]
      BY <1>1 DEF With
    <3> QED
      BY <1>1, <1>2, <1>3, <1>4, <3>1, <3>2
  <2>3. ASSUME NEW k \in DOMAIN r, d = [j \in DOMAIN r \ {k} |-> r[j]]
        PROVE  Violations(type, d) # {} /\ d \notin Conforming(type)
    <3>1. k \notin DOMAIN d
      BY <2>3
    <3>2. k \in DOMAIN With(r, DOMAIN o, "None")
      BY DEF With
    <3> QED
      BY <1>2, <1>3, <3>1, <3>2
  <2> QED
    BY <1>3, <1>6, <2>1, <2>2, <2>3
<1> QED
  BY <1>5, <1>6

----------------------------------------------------------------------------
(* The readings of the dongle *)

\* The keys of the grid meter's contract that the driver takes from one field.
Passed == DOMAIN Source
Tariffs == {"import_t1_kwh", "import_t2_kwh", "export_t1_kwh", "export_t2_kwh"}

\* The contract of a grid meter.
LEMMA GridContract ==
    /\ Contract("grid_meter").required =
         [k \in {"grid_power_w", "import_total_kwh", "export_total_kwh"} |-> "float"]
    /\ Contract("grid_meter").optional = [k \in Passed \cup Tariffs |-> "float"]
<1>1. Passed \cup Tariffs =
        {"import_t1_kwh", "import_t2_kwh", "export_t1_kwh", "export_t2_kwh",
         "gas_total_m3", "voltage_l1_v", "voltage_l2_v", "voltage_l3_v",
         "current_l1_a", "current_l2_a", "current_l3_a", "frequency_hz"}
  BY DEF Passed, Tariffs, Source
<1> QED
  BY <1>1 DEF Contract, CONTRACT_BY_DEVICE_TYPE, GridMeterData, Fields

\* What the driver makes of an object, key by key.
LEMMA Mapped ==
    ASSUME NEW raw
    PROVE  /\ DOMAIN MapToContract(raw) =
                {"grid_power_w", "import_total_kwh", "export_total_kwh"}
                  \cup Passed \cup Tariffs
           /\ MapToContract(raw)["grid_power_w"] = Get(raw, "active_power_w", "float")
           /\ MapToContract(raw)["import_total_kwh"] =
                Plus(Counter(raw, "total_power_import_t1_kwh"),
                     Counter(raw, "total_power_import_t2_kwh"))
           /\ MapToContract(raw)["export_total_kwh"] =
                Plus(Counter(raw, "total_power_export_t1_kwh"),
                     Counter(raw, "total_power_export_t2_kwh"))
           /\ \A k \in Tariffs : MapToContract(raw)[k] = Counter(raw, TariffField[k])
           /\ \A k \in Passed : MapToContract(raw)[k] = Get(raw, Source[k], "None")
<1> DEFINE d == MapToContract(raw)
<1>1. DOMAIN d = {"grid_power_w", "import_total_kwh", "export_total_kwh"}
                   \cup Passed \cup Tariffs
  BY DEF MapToContract, Passed, Tariffs, Source
<1>2. /\ d["grid_power_w"] = Get(raw, "active_power_w", "float")
      /\ d["import_total_kwh"] = Plus(Counter(raw, "total_power_import_t1_kwh"),
                                      Counter(raw, "total_power_import_t2_kwh"))
      /\ d["export_total_kwh"] = Plus(Counter(raw, "total_power_export_t1_kwh"),
                                      Counter(raw, "total_power_export_t2_kwh"))
  BY DEF MapToContract
<1>3. \A k \in Tariffs : d[k] = Counter(raw, TariffField[k])
  BY DEF MapToContract, Tariffs, TariffField
<1>4. \A k \in Passed : d[k] = Get(raw, Source[k], "None")
  BY DEF MapToContract, Passed, Source
<1> QED
  BY <1>1, <1>2, <1>3, <1>4

\* A sum of two counters is a number, text, or the TypeError.
LEMMA Sum ==
    ASSUME NEW x \in Kinds, NEW y \in Kinds
    PROVE  /\ Plus(x, y) # "raises" <=> \/ {x, y} \subseteq Numeric
                                        \/ x = "str" /\ y = "str"
           /\ x \in {"int", "float"} /\ y \in {"int", "float"}
                => Plus(x, y) \in {"int", "float"}
BY DEF Plus, Numeric, Kinds

\* A reading of the dongle is right.
LEMMA ReadingRight ==
    ASSUME NEW raw \in Documents, Answered(raw)
    PROVE  /\ outcome' \in {"data", "raised"}
           /\ outcome' # "data" => data' = Nothing
           /\ Whole(raw) => outcome' = "data"
           /\ outcome' = "data" =>
                /\ Violations("grid_meter", data') = {} <=> Clean(raw)
                /\ \A k \in DOMAIN Source :
                     data'[k] = IF raw[Source[k]] = "absent" THEN "None"
                                ELSE raw[Source[k]]
                /\ \A k \in DOMAIN TariffField :
                     raw[TariffField[k]] # "absent" => data'[k] = raw[TariffField[k]]
<1> DEFINE d == MapToContract(raw)
           t1 == Counter(raw, "total_power_import_t1_kwh")
           t2 == Counter(raw, "total_power_import_t2_kwh")
           e1 == Counter(raw, "total_power_export_t1_kwh")
           e2 == Counter(raw, "total_power_export_t2_kwh")
<1>1. raw \in [RawFields -> Kinds \cup {"absent"}]
  BY DocumentAssumption
<1>2. /\ \A f \in Counters \cup {"active_power_w"} : f \in RawFields
      /\ \A k \in Passed : Source[k] \in RawFields
  BY DEF RawFields, Passed
<1>3. /\ \A f \in Counters : Counter(raw, f) \in Kinds
      /\ Get(raw, "active_power_w", "float") \in Kinds
      /\ \A k \in Passed : Get(raw, Source[k], "None") \in Kinds
  BY <1>1, <1>2 DEF Counter, Get, Kinds
<1>4. /\ t1 \in Kinds /\ t2 \in Kinds /\ e1 \in Kinds /\ e2 \in Kinds
      /\ \A k \in Tariffs : TariffField[k] \in Counters
      /\ \A f \in Counters : \E k \in Tariffs : TariffField[k] = f
  BY <1>3 DEF Counters, Tariffs, TariffField
<1>5. "raises" \notin Kinds
  BY DEF Kinds
<1> HIDE DEF d, t1, t2, e1, e2
<1>6. /\ DOMAIN d = {"grid_power_w", "import_total_kwh", "export_total_kwh"}
                      \cup Passed \cup Tariffs
      /\ d["grid_power_w"] = Get(raw, "active_power_w", "float")
      /\ d["import_total_kwh"] = Plus(t1, t2) /\ d["export_total_kwh"] = Plus(e1, e2)
      /\ \A k \in Tariffs : d[k] = Counter(raw, TariffField[k])
      /\ \A k \in Passed : d[k] = Get(raw, Source[k], "None")
  BY Mapped DEF d, t1, t2, e1, e2
<1>7. (\E k \in DOMAIN d : d[k] = "raises") <=>
        Plus(t1, t2) = "raises" \/ Plus(e1, e2) = "raises"
  BY <1>3, <1>4, <1>5, <1>6
<1>8. IF \E k \in DOMAIN d : d[k] = "raises"
      THEN outcome' = "raised" /\ data' = Nothing
      ELSE outcome' = "data" /\ data' = d
  BY DEF Answered, d
<1>9. ASSUME Whole(raw) PROVE outcome' = "data"
  <2>1. \A f \in Counters : Counter(raw, f) \in {"int", "float"}
    BY <1>9 DEF Whole, Clean, RequiredKinds, Usable, Counter, Get
  <2>2. /\ t1 \in {"int", "float"} /\ t2 \in {"int", "float"}
        /\ e1 \in {"int", "float"} /\ e2 \in {"int", "float"}
    BY <2>1 DEF Counters, t1, t2, e1, e2
  <2>3. Plus(t1, t2) # "raises" /\ Plus(e1, e2) # "raises"
    BY <2>2, <1>4, Sum
  <2> QED
    BY <1>7, <1>8, <2>3
<1>10. ASSUME outcome' = "data"
       PROVE  /\ \A k \in DOMAIN Source :
                   data'[k] = IF raw[Source[k]] = "absent" THEN "None"
                              ELSE raw[Source[k]]
              /\ \A k \in DOMAIN TariffField :
                   raw[TariffField[k]] # "absent" => data'[k] = raw[TariffField[k]]
  <2>1. data' = d
    BY <1>8, <1>10
  <2>2. DOMAIN TariffField = Tariffs
    BY DEF TariffField, Tariffs
  <2> QED
    BY <1>6, <2>1, <2>2 DEF Passed, Counter, Get
<1>11. ASSUME outcome' = "data"
       PROVE  Violations("grid_meter", data') = {} <=> Clean(raw)
  <2>1. data' = d
    BY <1>8, <1>11
  <2>2. Violations("grid_meter", d) = {} <=>
          /\ \A k \in {"grid_power_w", "import_total_kwh", "export_total_kwh"} :
               d[k] \in {"int", "float"}
          /\ \A k \in Passed \cup Tariffs : d[k] \in {"None", "int", "float"}
    <3>1. \A kind : MatchesType(kind, "float") <=> kind \in {"int", "float"}
      BY DEF MatchesType
    <3> QED
      BY <1>6, <3>1, GridContract, NoViolation
  <2>3. \A f \in Counters : raw[f] \in Usable <=> Counter(raw, f) \in {"int", "float"}
    BY <1>1, <1>2 DEF Counter, Get, Usable, Kinds
  <2>4. raw["active_power_w"] \in Usable <=> d["grid_power_w"] \in {"int", "float"}
    BY <1>1, <1>2, <1>6 DEF Get, Usable, Kinds
  <2>5. \A k \in Passed :
          raw[Source[k]] \in Usable \cup {"None"} <=> d[k] \in {"None", "int", "float"}
    BY <1>1, <1>2, <1>6 DEF Get, Usable, Kinds
  <2>6. Plus(t1, t2) # "raises" /\ Plus(e1, e2) # "raises"
    BY <1>7, <1>8, <1>11
  <2>7. /\ \A k \in Tariffs : d[k] # "None"
        /\ \A f \in Counters : \E k \in Tariffs : d[k] = Counter(raw, f)
    <3>1. t1 # "None" /\ t2 # "None" /\ e1 # "None" /\ e2 # "None"
      BY <1>4, <2>6, Sum DEF Numeric
    <3>2. \A f \in Counters : Counter(raw, f) # "None"
      BY <3>1 DEF Counters, t1, t2, e1, e2
    <3> QED
      BY <1>4, <1>6, <3>2
  <2>8. /\ \A f \in Counters : Counter(raw, f) \in {"int", "float"}
        <=> \A k \in Tariffs : d[k] \in {"None", "int", "float"}
    BY <1>4, <1>6, <2>7
  <2>9. (\A f \in Counters : Counter(raw, f) \in {"int", "float"})
          => d["import_total_kwh"] \in {"int", "float"}
             /\ d["export_total_kwh"] \in {"int", "float"}
    BY <1>4, <1>6, Sum DEF Counters, t1, t2, e1, e2
  <2>10. Clean(raw) <=> /\ \A f \in Counters : raw[f] \in Usable
                        /\ raw["active_power_w"] \in Usable
                        /\ \A k \in Passed : raw[Source[k]] \in Usable \cup {"None"}
    BY DEF Clean, Passed
  <2> QED
    BY <2>1, <2>2, <2>3, <2>4, <2>5, <2>8, <2>9, <2>10
<1> QED
  BY <1>8, <1>9, <1>10, <1>11

----------------------------------------------------------------------------
(* The harness *)

\* The driver and the contract of a poll.
LEMMA PolledType ==
    ASSUME RegistryInv, Polls
    PROVE  TypeOf[Polled] \in DeviceTypes
<1>1. Polled \in DOMAIN TypeOf
  BY DEF RegistryInv, RegistryTypeOK, Polls, Known, Polled
<1> QED
  BY <1>1, RegistryAssumption DEF Polls, IsClass, Polled

\* One read: what it leaves to be judged, and what it tells of the device.
LEMMA OneRead ==
    ASSUME IInv, Read
    PROVE  /\ hpc = "poll" /\ Goes /\ Polls
           /\ P1TypeOK' /\ ReadingIsRight'
           /\ outcome' \in {"None", "data", "raised"}
           /\ Spoils <=> \/ outcome' # "data"
                         \/ Violations(TypeOf[Polled], data') # {}
<1>1. /\ hpc = "poll" /\ Goes /\ Polls /\ document = Nothing
      /\ P1TypeOK /\ TypeOf[Polled] \in DeviceTypes
  BY PolledType DEF IInv, Read, Stages, PollState, Readings, TypeOK
<1>2. CASE Polled = P1
  <2>1. GetData /\ TypeOf[Polled] = "grid_meter"
    BY <1>2, HarnessAssumption DEF Read
  <2>2. CASE Unanswered \/ AnsweredOther
    BY <1>1, <2>2 DEF Unanswered, AnsweredOther, P1TypeOK, ReadingIsRight, Spoils
  <2>3. CASE \E raw \in Documents : Answered(raw)
    <3>1. PICK raw \in Documents : Answered(raw)
      BY <2>3
    <3>2. document' = raw /\ ~failing' /\ succeeded'
      BY <3>1 DEF Answered
    <3>3. P1TypeOK' /\ outcome' \in {"data", "raised"}
      BY <3>1, <3>2, ReadingRight DEF P1TypeOK, Answered
    <3>4. ReadingIsRight'
      <4>1. Whole(raw) => Clean(raw)
        BY DEF Whole
      <4> QED
        BY <3>1, <3>2, <4>1, ReadingRight DEF ReadingIsRight
    <3>5. outcome' = "data" => (Violations(TypeOf[Polled], data') = {} <=> Clean(document'))
      BY <2>1, <3>1, <3>2, ReadingRight
    <3> QED
      BY <1>1, <1>2, <3>3, <3>4, <3>5 DEF Spoils
  <2> QED
    BY <2>1, <2>2, <2>3 DEF GetData
<1>3. CASE Polled # P1
  <2>1. GetOther
    BY <1>3 DEF Read
  <2>2. P1TypeOK' /\ outcome' \in {"None", "data", "raised"}
    BY <1>1, <2>1 DEF GetOther, P1TypeOK
  <2>3. ReadingIsRight'
    BY <1>1, <2>1 DEF GetOther, ReadingIsRight
  <2>4. outcome' = "data" =>
          (Violations(TypeOf[Polled], data') = {} <=> data' \in Conforming(TypeOf[Polled]))
    BY <1>1, <2>1, ReadingsJudged DEF GetOther
  <2> QED
    BY <1>1, <1>3, <2>2, <2>3, <2>4 DEF Spoils
<1> QED
  BY <1>2, <1>3

\* Counting stops at the bound.
LEMMA Counting ==
    ASSUME NEW n \in 0..MaxReads
    PROVE  /\ Counted(n) \in 0..MaxReads /\ n <= Counted(n) /\ Counted(n) <= n + 1
           /\ Counted(n) = n => n = MaxReads
           /\ n < MaxReads => Counted(n) = n + 1
           /\ MaxReads > 0 => Counted(n) > 0
BY HarnessAssumption DEF Counted

\* The steps before a poll, and those that end one.
LEMMA QuietKept ==
    ASSUME IInv, Loaded \/ List \/ Ask \/ Poll \/ Sleep \/ Finish
    PROVE  IInv'
<1>0. /\ TypeOK /\ RegistryInv /\ Stages /\ Readings /\ Tally /\ ReadingIsRight
      /\ Quiet /\ hpc # "exited"
  BY DEF IInv, Loaded, List, Ask, Poll, Sleep, Finish
<1>1. UNCHANGED <<registryVars, p1Vars, args, reads, failures, interrupted, spoilt>>
  BY <1>0 DEF Quiet
<1>2. RegistryInv' /\ RegistryTypeOK'
  <2>1. UNCHANGED registryVars
    BY <1>1
  <2> QED
    BY <1>0, <2>1, RegistryKept DEF RegistryInv
<1>3. P1TypeOK' /\ ReadingIsRight'
  BY <1>0, <1>1 DEF TypeOK, P1TypeOK, ReadingIsRight, p1Vars
<1>4. /\ Polls' <=> Polls
      /\ Failing' <=> Failing
      /\ Known' <=> Known
      /\ IsClass(args.driver_id)' <=> IsClass(args.driver_id)
  BY <1>1 DEF Polls, Failing, Problems, Known, IsClass, Polled, registryVars, p1Vars
<1>5. /\ hpc \in {"load", "command"} => ~spoilt /\ failures = 0 /\ reads = 0
      /\ ~interrupted
  BY <1>0 DEF Stages, Tally
<1>6. ASSUME hpc' \in {"command", "poll", "sleep", "exited"},
             hpc' = "exited" => exit' \in {0, 1},
             hpc' # "exited" => exit' = exit,
             hpc' = "command" => loading = "loaded" /\ hpc = "load",
             hpc' = "poll" => args.func = "poll" /\ Polls
                              /\ hpc \in {"command", "sleep"},
             hpc' # "sleep",
             hpc # "judge" \/ hpc' = "exited",
             hpc' = "exited" /\ args.func = "poll" =>
               /\ exit' = 0 => Polls /\ (spoilt => interrupted)
               /\ exit' = 1 => ~Polls \/ spoilt \/ args.interval = "refused"
      PROVE  IInv'
  <2>1. TypeOK'
    BY <1>0, <1>1, <1>2, <1>3, <1>6 DEF TypeOK, Running
  <2>2. Stages'
    BY <1>0, <1>1, <1>4, <1>5, <1>6 DEF Stages, PollState, Running, TypeOK, registryVars
  <2>3. Readings'
    BY <1>0, <1>1, <1>6 DEF Readings, p1Vars
  <2>4. Tally'
    BY <1>0, <1>1, <1>4, <1>5, <1>6 DEF Tally
  <2>5. VerdictIsRight'
    BY <1>1, <1>4, <1>6 DEF VerdictIsRight, Polls, registryVars
  <2> QED
    BY <1>2, <1>3, <2>1, <2>2, <2>3, <2>4, <2>5 DEF IInv
<1>7. CASE Loaded
  BY <1>6, <1>7 DEF Loaded, Exit, Traceback, Polls
<1>8. CASE List
  BY <1>6, <1>8 DEF List, Exit, Traceback
<1>9. CASE Ask
  BY <1>6, <1>9 DEF Ask, Exit, Traceback
<1>10. CASE Poll
  <2>1. loading = "loaded" /\ ~spoilt
    BY <1>0, <1>5, <1>10 DEF Poll, Stages
  <2> QED
    BY <1>0, <1>6, <1>10, <2>1 DEF Poll, Exit, Traceback, Polls, Commands, Stages
<1>11. CASE Sleep
  BY <1>0, <1>6, <1>11 DEF Sleep, Stages, PollState, Exit, Traceback
<1>12. CASE Finish
  <2>1. hpc = "poll" /\ ~Goes /\ hpc' = "exited" /\ exit' = Verdict /\ Polls
    BY <1>0, <1>12 DEF Finish, Exit, Stages, PollState
  <2>2. MaxReads > 0
    <3>1. args.count \in 0..MaxReads /\ args.count # 0
      BY <1>0, <2>1, HarnessAssumption DEF Goes, Stages, Commands
    <3>2. MaxReads \in Nat
      BY HarnessAssumption
    <3> QED
      BY <3>1, <3>2
  <2>3. spoilt <=> failures > 0
    BY <1>0, <2>1, <2>2 DEF Tally
  <2> QED
    BY <1>6, <2>1, <2>3 DEF Verdict
<1> QED
  BY <1>7, <1>8, <1>9, <1>10, <1>11, <1>12

\* A read: its reading is kept for the verdict, or its exception ends main().
LEMMA ReadKept ==
    ASSUME IInv, Read
    PROVE  IInv'
<1>0. /\ TypeOK /\ RegistryInv /\ Stages /\ Readings /\ Tally
      /\ hpc = "poll" /\ Goes /\ Polls
      /\ UNCHANGED <<registryVars, args, failures, interrupted>>
      /\ spoilt' = (spoilt \/ Spoils)
  BY OneRead DEF IInv, Read
<1>1. RegistryInv' /\ RegistryTypeOK'
  <2>1. UNCHANGED registryVars
    BY <1>0
  <2> QED
    BY <1>0, <2>1, RegistryKept DEF RegistryInv
<1>2. /\ P1TypeOK' /\ ReadingIsRight' /\ outcome' \in {"None", "data", "raised"}
      /\ Spoils <=> \/ outcome' # "data"
                    \/ Violations(TypeOf[Polled], data') # {}
  BY OneRead
<1>3. /\ Polls' /\ Polled' = Polled
      /\ args.func = "poll" /\ ~interrupted
  BY <1>0 DEF Polls, Known, IsClass, Polled, registryVars, Stages, PollState
<1>4. Spoils <=> outcome' = "raised" \/ Failing'
  BY <1>2, <1>3 DEF Failing, Problems
<1>5. spoilt \in BOOLEAN /\ spoilt' \in BOOLEAN
  BY <1>0 DEF TypeOK
<1>6. CASE outcome' = "raised"
  <2>1. hpc' = "exited" /\ exit' = 1 /\ reads' = reads /\ spoilt'
    BY <1>0, <1>4, <1>6 DEF Read, Exit, Traceback
  <2>2. TypeOK'
    BY <1>0, <1>1, <1>2, <1>5, <2>1 DEF TypeOK, Running
  <2>3. Stages'
    BY <1>0, <1>3, <2>1 DEF Stages, PollState, Running
  <2>4. Readings' /\ Tally'
    BY <2>1 DEF Readings, Tally
  <2>5. VerdictIsRight'
    BY <2>1 DEF VerdictIsRight
  <2> QED
    BY <1>1, <1>2, <2>2, <2>3, <2>4, <2>5 DEF IInv
<1>7. CASE outcome' # "raised"
  <2>1. hpc' = "judge" /\ exit' = exit /\ reads' = Counted(reads)
    BY <1>7 DEF Read
  <2>2. /\ reads \in 0..MaxReads /\ failures \in 0..reads /\ MaxReads \in Nat
        /\ args.count \in Nat
        /\ args.count = 0 \/ reads < args.count
    <3>1. args.count \in 0..MaxReads
      BY <1>0, HarnessAssumption DEF Stages, Commands
    <3> QED
      BY <1>0, <3>1, HarnessAssumption DEF TypeOK, Goes
  <2>3. /\ reads' \in 0..MaxReads /\ failures \in 0..reads'
        /\ args.count > 0 => reads' <= args.count
        /\ failures < reads' \/ reads' = MaxReads
    <3>1. /\ Counted(reads) \in 0..MaxReads /\ reads <= Counted(reads)
          /\ Counted(reads) <= reads + 1
          /\ Counted(reads) = reads + 1 \/ Counted(reads) = MaxReads
      BY <2>2 DEF Counted
    <3> HIDE DEF Counted
    <3>2. reads' \in Nat /\ reads' <= MaxReads /\ reads <= reads' /\ reads' <= reads + 1
          /\ (reads' = reads + 1 \/ reads' = MaxReads)
      BY <2>1, <2>2, <3>1
    <3> QED
      BY <2>2, <3>2
  <2>4. TypeOK'
    BY <1>0, <1>1, <1>2, <1>5, <2>1, <2>3 DEF TypeOK, Running
  <2>5. Stages'
    BY <1>0, <1>3, <2>1 DEF Stages, PollState
  <2>6. Readings'
    BY <1>2, <1>7, <2>1 DEF Readings
  <2>7. Tally'
    <3>1. failures' = failures /\ (spoilt' <=> spoilt \/ Failing')
      BY <1>0, <1>4, <1>7
    <3> QED
      BY <1>0, <2>1, <2>3, <3>1 DEF Tally
  <2>8. VerdictIsRight'
    BY <2>1 DEF VerdictIsRight
  <2> QED
    BY <1>1, <1>2, <2>4, <2>5, <2>6, <2>7, <2>8 DEF IInv
<1> QED
  BY <1>6, <1>7

\* The verdict on a reading.
LEMMA JudgeKept ==
    ASSUME IInv, Judge
    PROVE  IInv'
<1>0. /\ TypeOK /\ RegistryInv /\ Stages /\ Readings /\ Tally
      /\ hpc = "judge" /\ hpc' \in {"sleep", "poll"}
      /\ document' = Nothing /\ data' = Nothing /\ outcome' = "not called"
      /\ UNCHANGED <<registryVars, failing, succeeded, args, reads, exit, interrupted,
                     spoilt>>
      /\ failures' = IF Failing THEN Counted(failures) ELSE failures
  BY DEF IInv, Judge, JudgeBy, Failing
<1>1. RegistryInv' /\ RegistryTypeOK'
  <2>1. UNCHANGED registryVars
    BY <1>0
  <2> QED
    BY <1>0, <2>1, RegistryKept DEF RegistryInv
<1>2. P1TypeOK' /\ ReadingIsRight'
  BY <1>0 DEF TypeOK, P1TypeOK, ReadingIsRight
<1>3. Polls' /\ args.func = "poll"
  BY <1>0 DEF Polls, Known, IsClass, registryVars, Stages, PollState
<1>4. /\ reads \in Nat /\ failures \in Nat /\ MaxReads \in Nat /\ reads <= MaxReads
      /\ failures <= reads /\ (failures < reads \/ reads = MaxReads)
  <2>1. reads \in 0..MaxReads /\ failures \in 0..reads /\ MaxReads \in Nat
    BY <1>0, HarnessAssumption DEF TypeOK
  <2>2. failures < reads \/ reads = MaxReads
    BY <1>0 DEF Tally
  <2> QED
    BY <2>1, <2>2
<1>5. /\ failures' \in 0..reads /\ failures <= failures'
      /\ Failing /\ MaxReads > 0 => failures' > 0
      /\ ~Failing => failures' = failures
  <2>1. CASE Failing
    <3>1. failures' = IF failures < MaxReads THEN failures + 1 ELSE failures
      BY <1>0, <2>1 DEF Counted
    <3> QED
      BY <1>4, <2>1, <3>1
  <2>2. CASE ~Failing
    <3>1. failures' = failures
      BY <1>0, <2>2
    <3> QED
      BY <1>4, <2>2, <3>1
  <2> QED
    BY <2>1, <2>2
<1>6. TypeOK'
  BY <1>0, <1>1, <1>2, <1>5 DEF TypeOK, Running
<1>7. Stages'
  BY <1>0, <1>3 DEF Stages, PollState
<1>8. Readings'
  BY <1>0 DEF Readings
<1>9. Tally'
  <2>1. /\ Failing => spoilt
        /\ failures > 0 => spoilt
        /\ MaxReads > 0 /\ spoilt => failures > 0 \/ Failing
    BY <1>0 DEF Tally
  <2>2. failures > 0 => failures' > 0
    BY <1>4, <1>5
  <2>3. failures' > 0 => failures > 0 \/ Failing
    BY <1>4, <1>5
  <2>4. spoilt' = spoilt /\ hpc' \in {"sleep", "poll"}
    BY <1>0
  <2> QED
    BY <1>5, <2>1, <2>2, <2>3, <2>4 DEF Tally
<1>10. VerdictIsRight'
  BY <1>0 DEF VerdictIsRight
<1> QED
  BY <1>1, <1>2, <1>6, <1>7, <1>8, <1>9, <1>10 DEF IInv

\* Ctrl-C: the verdict is on what was counted.
LEMMA InterruptKept ==
    ASSUME IInv, Interrupt
    PROVE  IInv'
<1>0. /\ TypeOK /\ RegistryInv /\ Stages /\ Readings /\ Tally /\ ReadingIsRight
      /\ hpc \in PollState /\ hpc' = "exited" /\ exit' = Verdict /\ interrupted'
      /\ UNCHANGED <<registryVars, p1Vars, args, reads, failures, spoilt>>
  BY DEF IInv, Interrupt, Exit, PollState
<1>1. RegistryInv' /\ RegistryTypeOK'
  <2>1. UNCHANGED registryVars
    BY <1>0
  <2> QED
    BY <1>0, <2>1, RegistryKept DEF RegistryInv
<1>2. P1TypeOK' /\ ReadingIsRight'
  BY <1>0 DEF TypeOK, P1TypeOK, ReadingIsRight, p1Vars
<1>3. Polls' /\ args.func = "poll"
  BY <1>0 DEF Polls, Known, IsClass, registryVars, Stages
<1>4. exit' \in {0, 1} /\ (exit' = 1 => spoilt)
  BY <1>0 DEF Verdict, Tally
<1>5. interrupted' \in BOOLEAN
  BY DEF Interrupt
<1>6. TypeOK'
  BY <1>0, <1>1, <1>2, <1>4, <1>5 DEF TypeOK, Running
<1>7. Stages'
  BY <1>0, <1>4 DEF Stages, PollState, Running
<1>8. Readings' /\ Tally'
  BY <1>0 DEF Readings, Tally
<1>9. VerdictIsRight'
  BY <1>0, <1>3, <1>4 DEF VerdictIsRight, Polls
<1> QED
  BY <1>1, <1>2, <1>6, <1>7, <1>8, <1>9 DEF IInv

\* Loading, and the next command line.
LEMMA LoadKept ==
    ASSUME IInv, LoadDrivers \/ Again \/ UNCHANGED vars
    PROVE  IInv'
<1>0. TypeOK /\ RegistryInv /\ Stages /\ Readings /\ Tally /\ ReadingIsRight
      /\ VerdictIsRight
  BY DEF IInv
<1>1. RegistryInv' /\ RegistryTypeOK'
  <2>1. Load \/ LoadAgain \/ UNCHANGED registryVars
    BY DEF LoadDrivers, Again, vars
  <2> QED
    BY <1>0, <2>1, RegistryKept DEF RegistryInv
<1>2. CASE LoadDrivers
  <2>1. UNCHANGED <<p1Vars, harness>> /\ hpc = "load"
    BY <1>2 DEF LoadDrivers
  <2>2. P1TypeOK' /\ ReadingIsRight'
    BY <1>0, <2>1 DEF TypeOK, P1TypeOK, ReadingIsRight, p1Vars
  <2>3. TypeOK'
    BY <1>0, <1>1, <2>1, <2>2 DEF TypeOK, harness
  <2>4. Stages' /\ Readings' /\ Tally' /\ VerdictIsRight'
    BY <1>0, <2>1 DEF Stages, Readings, Tally, VerdictIsRight, PollState, harness, p1Vars
  <2> QED
    BY <1>1, <2>2, <2>3, <2>4 DEF IInv
<1>3. CASE Again
  <2>1. /\ args' \in Commands /\ hpc' = "load" /\ exit' = Running
        /\ reads' = 0 /\ failures' = 0 /\ ~interrupted' /\ ~spoilt'
        /\ document' = Nothing /\ outcome' = "not called" /\ data' = Nothing
    BY <1>3 DEF Again
  <2>2. P1TypeOK' /\ ReadingIsRight'
    BY <1>3 DEF Again, P1TypeOK, ReadingIsRight
  <2>3. TypeOK'
    <3>0. args'.count \in 0..MaxReads /\ MaxReads \in Nat
      BY <2>1, HarnessAssumption DEF Commands
    <3>1. 0 \in 0..MaxReads /\ 0 \in 0..0 /\ (args'.count > 0 => 0 <= args'.count)
      BY <3>0
    <3>2. interrupted' \in BOOLEAN /\ spoilt' \in BOOLEAN
      BY <1>3 DEF Again
    <3> QED
      BY <1>1, <2>1, <2>2, <3>1, <3>2 DEF TypeOK, Running
  <2>4. Stages' /\ Readings' /\ VerdictIsRight'
    BY <2>1 DEF Stages, Readings, VerdictIsRight, PollState
  <2>5. Tally'
    <3>1. hpc' = "load" /\ reads' = 0 /\ failures' = 0 /\ spoilt' = FALSE
      BY <1>3 DEF Again
    <3>2. ~(failures' > 0)
      BY <3>1
    <3> QED
      BY <3>1, <3>2 DEF Tally
  <2> QED
    BY <1>1, <2>2, <2>3, <2>4, <2>5 DEF IInv
<1>4. CASE UNCHANGED vars
  <2>1. UNCHANGED <<registryVars, p1Vars, harness>>
    BY <1>4 DEF vars
  <2>2. P1TypeOK' /\ ReadingIsRight'
    BY <1>0, <2>1 DEF TypeOK, P1TypeOK, ReadingIsRight, p1Vars
  <2>3. TypeOK'
    BY <1>0, <1>1, <2>1, <2>2 DEF TypeOK, harness
  <2>4. /\ Polls' <=> Polls
        /\ Failing' <=> Failing
    BY <2>1 DEF Polls, Failing, Problems, Known, IsClass, Polled, registryVars, p1Vars,
                harness
  <2>5. Stages' /\ Readings' /\ Tally'
    BY <1>0, <2>1, <2>4 DEF Stages, Readings, Tally, PollState, harness, p1Vars,
                            registryVars
  <2>6. VerdictIsRight'
    BY <1>0, <2>1, <2>4 DEF VerdictIsRight, Polls, harness
  <2> QED
    BY <1>1, <2>2, <2>3, <2>5, <2>6 DEF IInv
<1> QED
  BY <1>2, <1>3, <1>4

----------------------------------------------------------------------------

\* The inductive invariant.
THEOREM Invariance == Spec => []IInv
<1>1. Init => IInv
  <2> SUFFICES ASSUME Init PROVE IInv
    OBVIOUS
  <2>1. RegistryInv
    BY RegistryStart DEF Init
  <2>2. P1TypeOK /\ ReadingIsRight
    BY DEF Init, P1Init, P1TypeOK, ReadingIsRight
  <2>3. TypeOK
    <3>0. args.count \in 0..MaxReads /\ MaxReads \in Nat
      BY HarnessAssumption DEF Init, Commands
    <3>1. 0 \in 0..MaxReads /\ 0 \in 0..0 /\ (args.count > 0 => 0 <= args.count)
      BY <3>0
    <3> QED
      BY <2>1, <2>2, <3>1 DEF Init, TypeOK, RegistryInv, Running
  <2>4. Stages /\ Readings /\ VerdictIsRight
    BY DEF Init, P1Init, Stages, Readings, VerdictIsRight, PollState
  <2>5. Tally
    <3>1. hpc = "load" /\ reads = 0 /\ failures = 0 /\ spoilt = FALSE
      BY DEF Init
    <3> QED
      BY <3>1 DEF Tally
  <2> QED
    BY <2>1, <2>2, <2>3, <2>4, <2>5 DEF IInv
<1>2. IInv /\ [Next]_vars => IInv'
  BY QuietKept, ReadKept, JudgeKept, InterruptKept, LoadKept DEF Next
<1> QED
  BY <1>1, <1>2, PTL DEF Spec

\* The registry holds classes under names, reads are counted up to the bound,
\* and there is an exit status once main() has exited.
THEOREM TypeCorrect == Spec => []TypeOK
<1>1. IInv => TypeOK
  BY DEF IInv
<1> QED
  BY <1>1, Invariance, PTL

\* However often load_all_drivers() is called, and in whatever order names are
\* taken, the registry holds the builtins that can be imported and the names that
\* entry points have put there, each for the last entry point of its name that
\* loads, class or not, or for a later one that registered itself and then failed.
THEOREM DriversAreLoaded == Spec => []LoadingIsRight
<1>1. IInv => LoadingIsRight
  BY LoadedRight DEF IInv
<1> QED
  BY <1>1, Invariance, PTL

\* Every JSON object with all that is required, and nothing that is not a number
\* where one belongs, is turned into a reading that validates; a reading that
\* validates hides no field that could not be used; and each optional key and each
\* tariff comes from its own field.
THEOREM ReadingsAreRight == Spec => []ReadingIsRight
<1>1. IInv => ReadingIsRight
  BY DEF IInv
<1> QED
  BY <1>1, Invariance, PTL

\* A poll exits with 0 only of a known driver that could be built, and only if
\* no read was spoilt but for those that Ctrl-C cut off, for every registry; it
\* exits with 1 only for a reason.
THEOREM VerdictsAreRight == Spec => []VerdictIsRight
<1>1. IInv => VerdictIsRight
  BY DEF IInv
<1> QED
  BY <1>1, Invariance, PTL
====
