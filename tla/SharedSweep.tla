---------------------------- MODULE SharedSweep ----------------------------
(***************************************************************************)
(* The quick pre-filter of ionemo_drivers/lan_scan.py: drivers that scan at *)
(* once share one sweep of the subnet per _LIVE_HOSTS_TTL_S, and hold       *)
(* _live_hosts_lock across it.  Hosts come and go while sweeps and cached   *)
(* answers age.  Only the sweep's wait_s takes time.                        *)
(***************************************************************************)
EXTENDS Integers

CONSTANTS
    Drivers,      \* threads of run_discovery(), one driver each
    Hosts,        \* addresses of the subnet
    SweepTime,    \* wait_s
    TTL,          \* _LIVE_HOSTS_TTL_S
    MaxResets,    \* bound: reset_live_host_cache() calls while a scan waits
    NoDriver, NoCache,
    Unknown       \* None: /proc/net/arp could not be read

ASSUME SweepAssumption ==
    /\ NoDriver \notin Drivers
    /\ SweepTime \in Nat \ {0} /\ TTL \in Nat \ {0} /\ MaxResets \in Nat
    /\ Unknown # NoCache /\ \A S \in SUBSET Hosts : S # NoCache

VARIABLES
    pc,         \* where each driver's quick scan is
    lock,       \* owner of _live_hosts_lock
    elapsed,    \* time since the sweep under way began
    cache,      \* _live_hosts_cache for the subnet
    cacheAge,   \* time since it was stored, up to TTL
    list,       \* what _shared_live_hosts() returned to each driver
    waited,     \* time since each driver asked
    resets,     \* resets since each driver asked
    since       \* how long each host has been on the network, Absent if it is not

vars == <<pc, lock, elapsed, cache, cacheAge, list, waited, resets, since>>

\* Older than this no age makes a difference.
Cap == TTL + SweepTime
Absent == -1

Answers == {Unknown} \cup SUBSET Hosts

\* The type invariant.
TypeOK ==
    /\ pc \in [Drivers -> {"idle", "wait", "look", "sweep"}]
    /\ lock \in Drivers \cup {NoDriver}
    /\ elapsed \in 0..SweepTime
    /\ cache \in Answers \cup {NoCache}
    /\ cacheAge \in 0..TTL
    /\ list \in [Drivers -> Answers]
    /\ waited \in [Drivers -> Nat]
    /\ resets \in [Drivers -> 0..MaxResets]
    /\ since \in [Hosts -> Absent..Cap]

Init ==
    /\ pc = [d \in Drivers |-> "idle"]
    /\ lock = NoDriver /\ elapsed = 0
    /\ cache = NoCache /\ cacheAge = 0
    /\ list = [d \in Drivers |-> Unknown]
    /\ waited = [d \in Drivers |-> 0]
    /\ resets = [d \in Drivers |-> 0]
    /\ since \in [Hosts -> {Absent, Cap}]

GoTo(d, label) == pc' = [pc EXCEPT ![d] = label]

----------------------------------------------------------------------------
(* scan_subnet(quick=True), _shared_live_hosts() *)

Ask(d) ==
    /\ pc[d] = "idle"
    /\ GoTo(d, "wait")
    /\ UNCHANGED <<lock, elapsed, cache, cacheAge, list, waited, resets, since>>

\* Mutant: the lock protects the cache but not the sweep.
AcquireWhileSweeping(d) ==
    /\ pc[d] = "wait"
    /\ lock' = d
    /\ GoTo(d, "look")
    /\ UNCHANGED <<elapsed, cache, cacheAge, list, waited, resets, since>>

Acquire(d) ==
    /\ pc[d] = "wait" /\ lock = NoDriver
    /\ lock' = d
    /\ GoTo(d, "look")
    /\ UNCHANGED <<elapsed, cache, cacheAge, list, waited, resets, since>>

Cached == cache # NoCache /\ cacheAge < TTL

\* "with" ends and the answer is returned.
Return(d, answer) ==
    /\ list' = [list EXCEPT ![d] = answer]
    /\ waited' = [waited EXCEPT ![d] = 0]
    /\ resets' = [resets EXCEPT ![d] = 0]
    /\ lock' = NoDriver
    /\ GoTo(d, "idle")

\* Mutant: every use of the cached sweep renews it.
HitRenews(d) ==
    /\ pc[d] = "look" /\ Cached
    /\ Return(d, cache)
    /\ cacheAge' = 0
    /\ UNCHANGED <<elapsed, cache, since>>

Hit(d) ==
    /\ pc[d] = "look" /\ Cached
    /\ Return(d, cache)
    /\ UNCHANGED <<elapsed, cache, cacheAge, since>>

\* _discover_live_hosts() nudges every address and goes to sleep.
Miss(d) ==
    /\ pc[d] = "look" /\ ~Cached
    /\ elapsed' = 0
    /\ GoTo(d, "sweep")
    /\ UNCHANGED <<lock, cache, cacheAge, list, waited, resets, since>>

Stored(answer) == cache' = answer /\ cacheAge' = 0

\* The ARP table holds every host that was there from the nudge on, and may
\* hold any other.
SweepReads(d) ==
    /\ pc[d] = "sweep" /\ elapsed = SweepTime
    /\ \E found \in SUBSET Hosts :
          /\ {h \in Hosts : since[h] > SweepTime} \subseteq found
          /\ Stored(found)
          /\ Return(d, found)
    /\ UNCHANGED <<elapsed, since>>

\* Mutant: only a sweep that worked is cached.
SweepFailsUncached(d) ==
    /\ pc[d] = "sweep" /\ elapsed = SweepTime
    /\ Return(d, Unknown)
    /\ UNCHANGED <<elapsed, cache, cacheAge, since>>

SweepFails(d) ==
    /\ pc[d] = "sweep" /\ elapsed = SweepTime
    /\ Stored(Unknown)
    /\ Return(d, Unknown)
    /\ UNCHANGED <<elapsed, since>>

\* reset_live_host_cache()
Forget ==
    /\ lock = NoDriver
    /\ \A d \in Drivers : resets[d] < MaxResets
    /\ cache' = NoCache
    /\ resets' = [d \in Drivers |->
                    IF pc[d] = "wait" THEN resets[d] + 1 ELSE resets[d]]
    /\ UNCHANGED <<pc, lock, elapsed, cacheAge, list, waited, since>>

----------------------------------------------------------------------------
(* Time and the network *)

Host(h) ==
    /\ since' = [since EXCEPT ![h] = IF @ = Absent THEN 0 ELSE Absent]
    /\ UNCHANGED <<pc, lock, elapsed, cache, cacheAge, list, waited, resets>>

\* Mutant: one tick too long.
Oversleeping(d) == pc[d] = "sweep" /\ elapsed <= SweepTime

\* time.sleep(wait_s)
Sleeping(d) == pc[d] = "sweep" /\ elapsed < SweepTime

Older(age) == IF age \in {Absent, Cap} THEN age ELSE age + 1

\* Threads run between two ticks: nobody leaves a free lock lying.
Tick ==
    /\ \A d \in Drivers :
          \/ pc[d] = "idle"
          \/ pc[d] = "wait" /\ lock # NoDriver
          \/ Sleeping(d)
    /\ elapsed' = IF \E d \in Drivers : pc[d] = "sweep" THEN elapsed + 1
                  ELSE elapsed
    /\ cacheAge' = IF cacheAge < TTL THEN cacheAge + 1 ELSE TTL
    /\ waited' = [d \in Drivers |->
                    IF pc[d] = "idle" THEN 0 ELSE waited[d] + 1]
    /\ since' = [h \in Hosts |-> Older(since[h])]
    /\ UNCHANGED <<pc, lock, cache, list, resets>>

Sweep(d) == Miss(d) \/ SweepReads(d) \/ SweepFails(d)
Step(d) == Acquire(d) \/ Hit(d) \/ Sweep(d)

Next ==
    \/ \E d \in Drivers : Ask(d) \/ Step(d)
    \/ Forget \/ Tick
    \/ \E h \in Hosts : Host(h)

Spec == Init /\ [][Next]_vars

----------------------------------------------------------------------------
(* Properties *)

\* However the drivers start, at most one of them sweeps the subnet, and only
\* while there is no answer young enough to be shared.
OneSweep ==
    \A d \in Drivers : pc[d] = "sweep" =>
        /\ ~Cached
        /\ \A e \in Drivers : pc[e] = "sweep" => d = e

\* Drivers that start together queue behind one sweep, not behind one another's:
\* a scan has its list after a single sweep, plus one for each time the cache
\* was forgotten meanwhile, even where the ARP table cannot be read.
WaitBounded ==
    \A d \in Drivers : waited[d] <= SweepTime * (1 + resets[d])

\* A device that has been on the network for a sweep and the cache's lifetime
\* is never filtered out, whoever's sweep the answer comes from.
Settled == {h \in Hosts : since[h] = Cap}
NeverStale ==
    [][\A d \in Drivers : pc[d] # "idle" /\ pc'[d] = "idle"
          => list'[d] = Unknown \/ Settled \subseteq list'[d]]_vars
=============================================================================
