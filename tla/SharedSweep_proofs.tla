------------------------- MODULE SharedSweep_proofs -------------------------
(***************************************************************************)
(* SharedSweep for every set of drivers and hosts and all times.  OneSweep  *)
(* needs the owner of the lock (LockHeld); NeverStale needs what the cached *)
(* answer still says of the network (CacheKnows); WaitBounded needs how far *)
(* the sweep a scan waits for has come (Queued).                            *)
(***************************************************************************)
EXTENDS SharedSweep, TLAPS

\* A driver owns the lock exactly while it looks at the cache or sweeps.
LockHeld == \A d \in Drivers : pc[d] \in {"look", "sweep"} <=> lock = d

SweepsStale == \A d \in Drivers : pc[d] = "sweep" => ~Cached

\* A host missing from the cached answer was not there when the sweep began.
CacheKnows ==
    cache \notin {NoCache, Unknown} =>
        \A h \in Hosts : since[h] > SweepTime + cacheAge => h \in cache

Sweeping == \E d \in Drivers : pc[d] = "sweep"

\* Time a scan may have waited beyond the resets it saw.
Progress == IF Sweeping THEN elapsed ELSE IF Cached THEN SweepTime ELSE 0

Queued ==
    \A d \in Drivers : pc[d] # "idle" =>
        waited[d] <= SweepTime * resets[d] + Progress

Idle == \A d \in Drivers : pc[d] = "idle" => waited[d] = 0 /\ resets[d] = 0

IInv == TypeOK /\ LockHeld /\ SweepsStale /\ CacheKnows /\ Idle /\ Queued

----------------------------------------------------------------------------
\* What a returning call does to the values it touches.
LEMMA ReturnValues ==
    ASSUME TypeOK, NEW d \in Drivers, NEW answer \in Answers,
           Return(d, answer)
    PROVE  /\ pc' \in [Drivers -> {"idle", "wait", "look", "sweep"}]
           /\ lock' \in Drivers \cup {NoDriver}
           /\ list' \in [Drivers -> Answers]
           /\ waited' \in [Drivers -> Nat]
           /\ resets' \in [Drivers -> 0..MaxResets]
BY SweepAssumption DEF TypeOK, Return, GoTo

\* Every step keeps the variables in their types.
LEMMA TypePreserved ==
    ASSUME TypeOK, [Next]_vars
    PROVE  TypeOK'
<1> USE SweepAssumption
<1>1. ASSUME NEW d \in Drivers, Ask(d) \/ Acquire(d) PROVE TypeOK'
  BY <1>1 DEF TypeOK, Ask, Acquire, GoTo
<1>2. ASSUME NEW d \in Drivers, Hit(d) PROVE TypeOK'
  <2>1. cache \in Answers
    BY <1>2 DEF TypeOK, Hit, Cached
  <2> QED
    BY <1>2, <2>1, ReturnValues DEF TypeOK, Hit
<1>3. ASSUME NEW d \in Drivers, Miss(d) PROVE TypeOK'
  BY <1>3 DEF TypeOK, Miss, GoTo
<1>4. ASSUME NEW d \in Drivers, SweepReads(d) PROVE TypeOK'
  <2>1. PICK found \in SUBSET Hosts : Stored(found) /\ Return(d, found)
    BY <1>4 DEF SweepReads
  <2>2. found \in Answers
    BY DEF Answers
  <2> QED
    BY <1>4, <2>1, <2>2, ReturnValues DEF TypeOK, SweepReads, Stored
<1>5. ASSUME NEW d \in Drivers, SweepFails(d) PROVE TypeOK'
  <2>1. Unknown \in Answers
    BY DEF Answers
  <2> QED
    BY <1>5, <2>1, ReturnValues DEF TypeOK, SweepFails, Stored
<1>6. ASSUME Forget PROVE TypeOK'
  <2>1. resets' \in [Drivers -> 0..MaxResets]
    BY <1>6 DEF TypeOK, Forget
  <2> QED
    BY <1>6, <2>1 DEF TypeOK, Forget
<1>7. ASSUME Tick PROVE TypeOK'
  <2>1. elapsed' \in 0..SweepTime
    BY <1>7 DEF TypeOK, Tick, Sleeping
  <2>2. cacheAge' \in 0..TTL
    BY <1>7 DEF TypeOK, Tick
  <2>3. waited' \in [Drivers -> Nat]
    BY <1>7 DEF TypeOK, Tick
  <2>4. since' \in [Hosts -> Absent..Cap]
    BY <1>7 DEF TypeOK, Tick, Older, Absent, Cap
  <2> QED
    BY <1>7, <2>1, <2>2, <2>3, <2>4 DEF TypeOK, Tick
<1>8. ASSUME NEW h \in Hosts, Host(h) PROVE TypeOK'
  BY <1>8 DEF TypeOK, Host, Absent, Cap
<1>9. ASSUME UNCHANGED vars PROVE TypeOK'
  BY <1>9 DEF TypeOK, vars, Answers
<1> QED
  BY <1>1, <1>2, <1>3, <1>4, <1>5, <1>6, <1>7, <1>8, <1>9
     DEF Next, Step, Sweep

\* The two facts about the lock.
LEMMA LockPreserved ==
    ASSUME TypeOK, LockHeld, SweepsStale, [Next]_vars
    PROVE  LockHeld' /\ SweepsStale'
<1> USE SweepAssumption DEF TypeOK, LockHeld, SweepsStale
<1>1. ASSUME NEW d \in Drivers, Ask(d) \/ Acquire(d)
      PROVE LockHeld' /\ SweepsStale'
  BY <1>1 DEF Ask, Acquire, GoTo, Cached
<1>2. ASSUME NEW d \in Drivers, Hit(d) PROVE LockHeld' /\ SweepsStale'
  BY <1>2 DEF Hit, Return, GoTo, Cached
<1>3. ASSUME NEW d \in Drivers, Miss(d) PROVE LockHeld' /\ SweepsStale'
  BY <1>3 DEF Miss, GoTo, Cached
<1>4. ASSUME NEW d \in Drivers, NEW answer, pc[d] = "sweep", Return(d, answer)
      PROVE  LockHeld' /\ SweepsStale'
  BY <1>4 DEF Return, GoTo
<1>5. ASSUME NEW d \in Drivers, SweepReads(d) \/ SweepFails(d)
      PROVE LockHeld' /\ SweepsStale'
  BY <1>4, <1>5 DEF SweepReads, SweepFails
<1>6. ASSUME Forget PROVE LockHeld' /\ SweepsStale'
  BY <1>6 DEF Forget, Cached
<1>7. ASSUME Tick PROVE LockHeld' /\ SweepsStale'
  BY <1>7 DEF Tick, Cached
<1>8. ASSUME NEW h \in Hosts, Host(h) PROVE LockHeld' /\ SweepsStale'
  BY <1>8 DEF Host, Cached
<1>9. ASSUME UNCHANGED vars PROVE LockHeld' /\ SweepsStale'
  BY <1>9 DEF vars, Cached
<1> QED
  BY <1>1, <1>2, <1>3, <1>5, <1>6, <1>7, <1>8, <1>9 DEF Next, Step, Sweep

\* The cached answer ages no faster than the hosts on the network.
LEMMA CachePreserved ==
    ASSUME TypeOK, CacheKnows, [Next]_vars
    PROVE  CacheKnows'
<1> USE SweepAssumption DEF TypeOK, CacheKnows
<1>1. ASSUME NEW d \in Drivers, Ask(d) \/ Acquire(d) \/ Hit(d) \/ Miss(d)
      PROVE CacheKnows'
  BY <1>1 DEF Ask, Acquire, Hit, Miss
<1>2. ASSUME NEW d \in Drivers, SweepReads(d) PROVE CacheKnows'
  BY <1>2 DEF SweepReads, Stored
<1>3. ASSUME NEW d \in Drivers, SweepFails(d) PROVE CacheKnows'
  BY <1>3 DEF SweepFails, Stored
<1>4. ASSUME Forget PROVE CacheKnows'
  BY <1>4 DEF Forget
<1>5. ASSUME Tick PROVE CacheKnows'
  <2>1. SUFFICES ASSUME cache \notin {NoCache, Unknown}, NEW h \in Hosts,
                        since'[h] > SweepTime + cacheAge'
                 PROVE  h \in cache
    BY <1>5 DEF Tick
  <2>2. since'[h] = Older(since[h]) /\ since[h] \in Absent..Cap
    BY <1>5 DEF Tick
  <2>3. cacheAge' = IF cacheAge < TTL THEN cacheAge + 1 ELSE TTL
    BY <1>5 DEF Tick
  <2>4. since[h] > SweepTime + cacheAge
    BY <2>1, <2>2, <2>3 DEF Older, Absent, Cap
  <2> QED
    BY <2>1, <2>4
<1>6. ASSUME NEW h \in Hosts, Host(h) PROVE CacheKnows'
  BY <1>6 DEF Host, Absent
<1>7. ASSUME UNCHANGED vars PROVE CacheKnows'
  BY <1>7 DEF vars
<1> QED
  BY <1>1, <1>2, <1>3, <1>4, <1>5, <1>6, <1>7 DEF Next, Step, Sweep

\* One more reset earns a waiting scan one more sweep.
LEMMA OneMoreReset ==
    ASSUME NEW n \in Nat
    PROVE  /\ SweepTime * n \in Nat
           /\ SweepTime * (n + 1) = SweepTime * n + SweepTime
           /\ SweepTime * (1 + n) = SweepTime * n + SweepTime
BY SweepAssumption

\* Progress is a time and never longer than a sweep.
LEMMA ProgressRange ==
    ASSUME TypeOK
    PROVE  Progress \in 0..SweepTime
BY SweepAssumption DEF TypeOK, Progress

\* Only the owner of the lock looks or sweeps.
LEMMA SweeperOwns ==
    ASSUME LockHeld, NEW d \in Drivers, pc[d] \in {"look", "sweep"}
    PROVE  \A e \in Drivers : pc[e] \in {"look", "sweep"} => e = d
BY DEF LockHeld

\* A driver that is idle has no clock running.
LEMMA IdlePreserved ==
    ASSUME TypeOK, Idle, [Next]_vars
    PROVE  Idle'
<1> USE DEF TypeOK, Idle
<1>1. ASSUME NEW d \in Drivers, Ask(d) \/ Acquire(d) \/ Miss(d) PROVE Idle'
  BY <1>1 DEF Ask, Acquire, Miss, GoTo
<1>2. ASSUME NEW d \in Drivers, NEW answer, Return(d, answer) PROVE Idle'
  BY <1>2 DEF Return, GoTo
<1>3. ASSUME NEW d \in Drivers, Hit(d) \/ SweepReads(d) \/ SweepFails(d)
      PROVE Idle'
  BY <1>2, <1>3 DEF Hit, SweepReads, SweepFails
<1>4. ASSUME Forget PROVE Idle'
  BY <1>4 DEF Forget
<1>5. ASSUME Tick PROVE Idle'
  BY <1>5 DEF Tick
<1>6. ASSUME NEW h \in Hosts, Host(h) PROVE Idle'
  BY <1>6 DEF Host
<1>7. ASSUME UNCHANGED vars PROVE Idle'
  BY <1>7 DEF vars
<1> QED
  BY <1>1, <1>3, <1>4, <1>5, <1>6, <1>7 DEF Next, Step, Sweep

\* A scan that waits has waited for the sweep under way, or for one whose answer
\* it is about to share, and for one more after each reset.
LEMMA QueuedPreserved ==
    ASSUME IInv, TypeOK', [Next]_vars
    PROVE  Queued'
<1> USE SweepAssumption DEF IInv
<1>0. \A e \in Drivers : waited[e] \in Nat /\ SweepTime * resets[e] \in Nat
  BY OneMoreReset DEF TypeOK
<1>1. ASSUME NEW d \in Drivers, Ask(d) \/ Acquire(d) PROVE Queued'
  <2>1. UNCHANGED <<elapsed, cache, cacheAge, waited, resets>>
    BY <1>1 DEF Ask, Acquire
  <2>2. Sweeping' <=> Sweeping
    BY <1>1 DEF Ask, Acquire, GoTo, Sweeping, TypeOK
  <2>3. Progress' = Progress
    BY <2>1, <2>2 DEF Progress, Cached
  <2>4. \A e \in Drivers : pc'[e] # "idle" /\ pc[e] = "idle" =>
            waited[e] <= SweepTime * resets[e] + Progress
    BY ProgressRange, <1>0 DEF Idle
  <2> QED
    BY <2>1, <2>3, <2>4 DEF Queued
<1>2. ASSUME NEW d \in Drivers, Hit(d) PROVE Queued'
  <2>1. ~Sweeping /\ ~Sweeping'
    BY <1>2, SweeperOwns DEF Hit, Return, GoTo, Sweeping, TypeOK
  <2>2. Progress' = Progress
    BY <1>2, <2>1 DEF Hit, Progress, Cached
  <2>3. \A e \in Drivers : pc'[e] # "idle" =>
            pc[e] # "idle" /\ waited'[e] = waited[e] /\ resets'[e] = resets[e]
    BY <1>2 DEF Hit, Return, GoTo, TypeOK
  <2> QED
    BY <2>2, <2>3 DEF Queued
<1>3. ASSUME NEW d \in Drivers, Miss(d) PROVE Queued'
  <2>1. ~Sweeping
    BY <1>3, SweeperOwns DEF Miss, Sweeping
  <2>2. Progress = 0
    BY <1>3, <2>1 DEF Miss, Progress
  <2>3. Progress' = 0
    BY <1>3 DEF Miss, GoTo, Progress, Sweeping, TypeOK
  <2>4. \A e \in Drivers : pc'[e] # "idle" => pc[e] # "idle"
    BY <1>3 DEF Miss, GoTo, TypeOK
  <2> QED
    BY <1>3, <2>2, <2>3, <2>4 DEF Miss, Queued
<1>4. ASSUME NEW d \in Drivers, SweepReads(d) \/ SweepFails(d) PROVE Queued'
  <2>1. PICK answer : answer # NoCache /\ Stored(answer) /\ Return(d, answer)
    BY <1>4 DEF SweepReads, SweepFails
  <2>2. pc[d] = "sweep" /\ elapsed = SweepTime
    BY <1>4 DEF SweepReads, SweepFails
  <2>3. Progress = SweepTime
    BY <2>2 DEF Progress, Sweeping
  <2>4. ~Sweeping'
    BY <2>1, <2>2, SweeperOwns DEF Return, GoTo, Sweeping, TypeOK
  <2>5. Cached'
    BY <2>1 DEF Cached, Stored
  <2>6. Progress' = SweepTime
    BY <2>4, <2>5 DEF Progress
  <2>7. \A e \in Drivers : pc'[e] # "idle" =>
            pc[e] # "idle" /\ waited'[e] = waited[e] /\ resets'[e] = resets[e]
    BY <2>1 DEF Return, GoTo, TypeOK
  <2> QED
    BY <2>3, <2>6, <2>7 DEF Queued
<1>5. ASSUME Forget PROVE Queued'
  <2>1. \A e \in Drivers : pc[e] \in {"idle", "wait"}
    BY <1>5 DEF Forget, LockHeld, TypeOK
  <2>2. Progress' = 0
    BY <1>5, <2>1 DEF Forget, Progress, Sweeping, Cached
  <2>3. SUFFICES ASSUME NEW e \in Drivers, pc[e] = "wait"
                 PROVE  waited[e] <= SweepTime * (resets[e] + 1)
    BY <1>5, <2>1, <2>2 DEF Forget, Queued, TypeOK
  <2>4. waited[e] <= SweepTime * resets[e] + Progress
    BY <2>3 DEF Queued
  <2>5. resets[e] \in Nat
    BY DEF TypeOK
  <2> QED
    BY <1>0, <2>4, <2>5, ProgressRange, OneMoreReset
<1>6. ASSUME Tick PROVE Queued'
  <2>1. SUFFICES ASSUME NEW e \in Drivers, pc[e] # "idle"
                 PROVE  waited'[e] <= SweepTime * resets[e] + Progress'
    BY <1>6 DEF Tick, Queued
  <2>2. waited'[e] = waited[e] + 1
    BY <1>6, <2>1 DEF Tick
  <2>3. PICK o \in Drivers : pc[o] \in {"look", "sweep"}
    BY <1>6, <2>1 DEF Tick, Sleeping, LockHeld, TypeOK
  <2>4. pc[o] = "sweep"
    BY <1>6, <2>3 DEF Tick, Sleeping
  <2>5. Progress = elapsed /\ Progress' = elapsed + 1
    BY <1>6, <2>4 DEF Tick, Progress, Sweeping
  <2>6. waited[e] <= SweepTime * resets[e] + Progress
    BY <2>1 DEF Queued
  <2>7. elapsed \in Nat
    BY DEF TypeOK
  <2> QED
    BY <1>0, <2>2, <2>5, <2>6, <2>7
<1>7. ASSUME NEW h \in Hosts, Host(h) PROVE Queued'
  BY <1>7 DEF Host, Queued, Progress, Sweeping, Cached
<1>8. ASSUME UNCHANGED vars PROVE Queued'
  BY <1>8 DEF vars, Queued, Progress, Sweeping, Cached
<1> QED
  BY <1>1, <1>2, <1>3, <1>4, <1>5, <1>6, <1>7, <1>8 DEF Next, Step, Sweep

----------------------------------------------------------------------------
\* The inductive invariant: every conjunct is preserved with the help of the
\* others.
THEOREM Invariance == Spec => []IInv
<1>1. Init => IInv
  BY SweepAssumption, OneMoreReset
     DEF Init, IInv, TypeOK, Answers, LockHeld, SweepsStale, CacheKnows, Idle,
         Queued, Cap, Absent
<1>2. IInv /\ [Next]_vars => IInv'
  BY TypePreserved, LockPreserved, CachePreserved, IdlePreserved,
     QueuedPreserved DEF IInv
<1> QED
  BY <1>1, <1>2, PTL DEF Spec

\* _shared_live_hosts() keeps its cache, its lock and its answers well formed.
THEOREM TypeCorrect == Spec => []TypeOK
<1>1. IInv => TypeOK
  BY DEF IInv
<1> QED
  BY <1>1, Invariance, PTL

\* At most one driver sweeps, and never while there is an answer to share.
THEOREM SweepsAreShared == Spec => []OneSweep
<1>1. IInv => OneSweep
  BY SweeperOwns DEF IInv, OneSweep, SweepsStale
<1> QED
  BY <1>1, Invariance, PTL

\* A quick scan waits for one sweep, and for one more per reset of the cache.
THEOREM WaitsAreBounded == Spec => []WaitBounded
<1>1. ASSUME IInv, NEW d \in Drivers
      PROVE  waited[d] <= SweepTime * (1 + resets[d])
  <2>1. waited[d] \in Nat /\ resets[d] \in Nat
    BY <1>1 DEF IInv, TypeOK
  <2>2. CASE pc[d] = "idle"
    BY <1>1, <2>1, <2>2, OneMoreReset, SweepAssumption DEF IInv, Idle
  <2>3. CASE pc[d] # "idle"
    <3>1. waited[d] <= SweepTime * resets[d] + Progress
      BY <1>1, <2>3 DEF IInv, Queued
    <3>2. Progress \in 0..SweepTime
      BY <1>1, ProgressRange DEF IInv
    <3> QED
      BY <2>1, <3>1, <3>2, OneMoreReset, SweepAssumption
  <2> QED
    BY <2>2, <2>3
<1>2. IInv => WaitBounded
  BY <1>1 DEF WaitBounded
<1> QED
  BY <1>2, Invariance, PTL

\* No answer, shared or new, leaves out a host that has been on the network for
\* longer than a sweep and the time to live.
THEOREM AnswersAreFresh == Spec => NeverStale
<1> DEFINE Fresh ==
      \A d \in Drivers : pc[d] # "idle" /\ pc'[d] = "idle"
          => list'[d] = Unknown \/ Settled \subseteq list'[d]
<1>1. ASSUME IInv, [Next]_vars PROVE Fresh
  <2> USE SweepAssumption DEF IInv
  <2>1. SUFFICES ASSUME NEW d \in Drivers, pc[d] # "idle", pc'[d] = "idle",
                        list'[d] # Unknown
                 PROVE  Settled \subseteq list'[d]
    OBVIOUS
  <2>2. Hit(d) \/ SweepReads(d) \/ SweepFails(d)
    <3>1. ASSUME NEW e \in Drivers, Ask(e) \/ Acquire(e) \/ Miss(e) PROVE FALSE
      BY <1>1, <2>1, <3>1 DEF Ask, Acquire, Miss, GoTo, TypeOK
    <3>2. ASSUME NEW e \in Drivers, e # d,
                 Hit(e) \/ SweepReads(e) \/ SweepFails(e)
          PROVE  FALSE
      BY <1>1, <2>1, <3>2 DEF Hit, SweepReads, SweepFails, Return, GoTo, TypeOK
    <3>3. ~Forget /\ ~Tick /\ (\A h \in Hosts : ~Host(h)) /\ ~UNCHANGED vars
      BY <2>1 DEF Forget, Tick, Host, vars
    <3> QED
      BY <1>1, <3>1, <3>2, <3>3 DEF Next, Step, Sweep
  <2>3. CASE Hit(d)
    <3>1. list'[d] = cache /\ cache # NoCache /\ cacheAge < TTL
      BY <1>1, <2>3 DEF Hit, Cached, Return, TypeOK
    <3>2. \A h \in Settled : since[h] > SweepTime + cacheAge
      BY <1>1, <3>1 DEF Settled, Cap, TypeOK
    <3> QED
      BY <1>1, <2>1, <3>1, <3>2 DEF CacheKnows, Settled
  <2>4. CASE SweepReads(d)
    <3>1. PICK found \in SUBSET Hosts :
              /\ {h \in Hosts : since[h] > SweepTime} \subseteq found
              /\ Return(d, found)
      BY <2>4 DEF SweepReads
    <3>2. list'[d] = found
      BY <1>1, <3>1 DEF Return, TypeOK
    <3> QED
      BY <3>1, <3>2 DEF Settled, Cap
  <2>5. CASE SweepFails(d)
    BY <1>1, <2>1, <2>5 DEF SweepFails, Return, TypeOK
  <2> QED
    BY <2>2, <2>3, <2>4, <2>5
<1>2. IInv /\ [Next]_vars => [Fresh]_vars
  BY <1>1
<1> QED
  BY <1>2, Invariance, PTL DEF Spec, NeverStale
=============================================================================
