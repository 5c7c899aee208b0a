-------------------------- MODULE ProbePool_proofs --------------------------
(***************************************************************************)
(* The safety of ProbePool for every number of addresses and workers and    *)
(* every time limit.  LowEndCovered is a schedule bound: the address of     *)
(* rank r, with r at most k times the number of workers, has had its turn   *)
(* after k full probe times (OnTime).  It holds because the queue is worked *)
(* off from its low end (InOrder) and no two workers share an address       *)
(* (OneEach): while an address waits, the lowest one under way is a whole   *)
(* pool of ranks below it, and that one was on time.                        *)
(***************************************************************************)
EXTENDS ProbePool, FiniteSetTheorems, TLAPS

\* Nothing has been submitted.
Fresh ==
    pc \in {"start", "offline"} =>
        /\ queue = {} /\ finished = {} /\ found = {} /\ elapsed = 0
        /\ \A w \in Workers : busy[w] = NoAddress

\* shutdown() has cancelled what was queued.
Cancelled == pc \in {"returned", "raised"} => queue = {}

OneEach ==
    \A w, v \in Workers : w # v /\ busy[w] = busy[v] => busy[w] = NoAddress

\* Every address that was taken from the queue is below those left in it.
InOrder == pc = "collect" => \A a \in listed \ queue, b \in queue : a < b

\* What left the pool is in the result if it is a device.
Collected ==
    pc = "collect" =>
        \A a \in listed \ Pending :
            \/ answer[a] = "nothing"
            \/ answer[a] = "device" /\ a \in found

Size == Cardinality(Workers)

\* An address among the first k * Size starts before k - 1 probe times are
\* over, and its probe has ended when k are.
OnTime ==
    pc = "collect" =>
        \A k \in Nat \ {0}, a \in listed : Rank(a) <= Size * k =>
            /\ a \in queue => elapsed <= (k - 1) * ProbeTime
            /\ \A w \in Workers :
                  busy[w] = a => elapsed <= (k - 1) * ProbeTime + spent[w]
            /\ a \in finished => elapsed <= k * ProbeTime

IInv ==
    /\ TypeOK /\ Fresh /\ Cancelled /\ OneEach /\ InOrder /\ Collected
    /\ OnTime /\ LowEndCovered

----------------------------------------------------------------------------
(* Numbers of addresses *)

\* A set of addresses that is not empty has a lowest one.
LEMMA Lowest ==
    ASSUME NEW S \in SUBSET Nat, S # {}
    PROVE  \E m \in S : \A a \in S : m <= a
<1>1. PICK m \in S : \A a \in S : ~(<<a, m>> \in OpToRel(<, Nat))
  BY NatLessThanWellFounded, WFMin, Zenon
<1>2. \A a \in S : ~(a < m)
  BY <1>1 DEF OpToRel
<1> QED
  BY <1>2

\* When every worker has an address of its own, as many are under way as the
\* pool has workers.
LEMMA FullPool ==
    ASSUME NEW f \in [Workers -> Addresses],
           \A w, v \in Workers : f[w] = f[v] => w = v
    PROVE  Cardinality({f[w] : w \in Workers}) = Size
<1>1. f \in Bijection(Workers, {f[w] : w \in Workers})
  BY DEF Bijection, Injection, Surjection, IsInjective
<1> QED
  BY <1>1, FS_Bijection, PoolAssumption, Zenon DEF ExistsBijection, Size

\* Ranks count from one.
LEMMA RankPositive ==
    ASSUME listed \subseteq Addresses, NEW a \in listed
    PROVE  Rank(a) \in Nat \ {0}
<1> DEFINE Upto == {b \in listed : b <= a}
<1>1. IsFiniteSet(Addresses)
  BY FS_Interval, PoolAssumption DEF Addresses
<1>2. IsFiniteSet(Upto) /\ Cardinality(Upto) \in Nat
  BY <1>1, FS_Subset, FS_CardinalityType
<1>3. a \in Upto
  BY DEF Addresses
<1>4. Cardinality(Upto) # 0
  BY <1>2, <1>3, FS_EmptySet
<1> QED
  BY <1>2, <1>4 DEF Rank

\* The rank of an address exceeds that of the lowest of any set below it by at
\* least the size of the set.
LEMMA RankAbove ==
    ASSUME listed \subseteq Addresses, NEW S \in SUBSET listed,
           NEW m \in S, NEW a \in listed,
           \A b \in S : m <= b /\ b < a
    PROVE  Rank(m) + Cardinality(S) <= Rank(a)
<1> DEFINE Upto(c) == {b \in listed : b <= c}
           Low == Upto(m) \cup S
<1>1. IsFiniteSet(Addresses)
  BY FS_Interval, PoolAssumption DEF Addresses
<1>2. IsFiniteSet(Upto(m)) /\ IsFiniteSet(Upto(a)) /\ IsFiniteSet(S)
  BY <1>1, FS_Subset
<1>3. Upto(m) \cap S = {m}
  <2>1. \A b \in S : b <= m => b = m
    BY DEF Addresses
  <2> QED
    BY <2>1 DEF Addresses
<1>4. /\ IsFiniteSet(Low)
      /\ Cardinality(Low) = Cardinality(Upto(m)) + Cardinality(S) - 1
  <2>1. Cardinality(Upto(m) \cap S) = 1
    BY <1>3, FS_Singleton
  <2> QED
    BY <1>2, <2>1, FS_Union
<1>5. a \notin Low /\ Low \cup {a} \subseteq Upto(a)
  <2>1. m < a /\ \A b \in listed : b <= m => b < a
    BY DEF Addresses
  <2>2. \A b \in listed : b \in Int /\ (b < a => b <= a /\ b # a)
    BY DEF Addresses
  <2> QED
    BY <2>1, <2>2
<1>6. Cardinality(Low \cup {a}) = Cardinality(Low) + 1
  BY <1>4, <1>5, FS_AddElement
<1>7. Cardinality(Low \cup {a}) <= Cardinality(Upto(a))
  BY <1>2, <1>5, FS_Subset
<1>8. /\ Cardinality(Upto(m)) \in Nat /\ Cardinality(S) \in Nat
      /\ Cardinality(Upto(a)) \in Nat
  BY <1>2, FS_CardinalityType
<1> HIDE DEF Upto, Low
<1>9. Cardinality(Upto(m)) + Cardinality(S) <= Cardinality(Upto(a))
  BY <1>4, <1>6, <1>7, <1>8
<1> QED
  BY <1>9 DEF Rank, Upto

----------------------------------------------------------------------------
\* Every step keeps the variables in their types, and each future in one place.
LEMMA TypePreserved ==
    ASSUME TypeOK, Fresh, OneEach, [Next]_vars
    PROVE  TypeOK'
<1> USE PoolAssumption
<1>1. ASSUME NoRoute \/ Submit PROVE TypeOK'
  BY <1>1 DEF TypeOK, Fresh, NoRoute, Submit, pool, Running, Pending, devices
<1>2. ASSUME Collect PROVE TypeOK'
  BY <1>2 DEF TypeOK, Collect, pool, Running, Pending, devices
<1>3. ASSUME ResultRaises \/ Exhausted \/ GiveUp PROVE TypeOK'
  BY <1>3 DEF TypeOK, ResultRaises, Exhausted, GiveUp, Shutdown, Running,
              Pending, devices
<1>4. ASSUME NEW w \in Workers, Begin(w) PROVE TypeOK'
  <2>1. PICK a \in queue : /\ busy' = [busy EXCEPT ![w] = a]
                           /\ queue' = queue \ {a}
    BY <1>4 DEF Begin
  <2>2. Running' = Running \cup {a}
    BY <1>4, <2>1 DEF TypeOK, Begin, Running, Addresses
  <2>3. busy' \in [Workers -> listed \cup {NoAddress}]
    BY <2>1 DEF TypeOK
  <2> QED
    BY <1>4, <2>1, <2>2, <2>3 DEF TypeOK, Begin, Pending, devices
<1>5. ASSUME NEW w \in Workers, End(w) PROVE TypeOK'
  <2>1. Running' = Running \ {busy[w]} /\ busy[w] \in Running
    BY <1>5 DEF TypeOK, End, Running, OneEach
  <2>2. /\ busy' \in [Workers -> listed \cup {NoAddress}]
        /\ spent' \in [Workers -> 0..ProbeTime]
    BY <1>5 DEF TypeOK, End
  <2>3. busy[w] \in listed
    BY <1>5 DEF TypeOK, End
  <2> QED
    BY <1>5, <2>1, <2>2, <2>3 DEF TypeOK, End, Pending, devices
<1>6. ASSUME Tick PROVE TypeOK'
  <2>1. spent' \in [Workers -> 0..ProbeTime]
    BY <1>6 DEF TypeOK, Tick
  <2>2. elapsed' \in 0..ScanTimeout
    BY <1>6 DEF TypeOK, Tick
  <2> QED
    BY <1>6, <2>1, <2>2 DEF TypeOK, Tick, Pending, Running, devices
<1>7. ASSUME UNCHANGED vars PROVE TypeOK'
  BY <1>7 DEF TypeOK, vars, pool, Pending, Running, devices
<1> QED
  BY <1>1, <1>2, <1>3, <1>4, <1>5, <1>6, <1>7 DEF Next, Caller, Worker

\* A pool is empty before its scan begins, and its queue after it has ended.
LEMMA QuietKept ==
    ASSUME TypeOK, Fresh, Cancelled, [Next]_vars
    PROVE  Fresh' /\ Cancelled'
<1> USE DEF Fresh, Cancelled
<1>1. ASSUME Caller PROVE Fresh' /\ Cancelled'
  BY <1>1 DEF Caller, NoRoute, Submit, Collect, ResultRaises, Exhausted, GiveUp,
              Shutdown, pool
<1>2. ASSUME NEW w \in Workers, Begin(w) \/ End(w) PROVE Fresh' /\ Cancelled'
  BY <1>2 DEF Begin, End
<1>3. ASSUME Tick \/ UNCHANGED vars PROVE Fresh' /\ Cancelled'
  BY <1>3 DEF Tick, vars, pool
<1> QED
  BY <1>1, <1>2, <1>3 DEF Next, Worker

\* No two workers take the same address: it leaves the queue as one takes it.
LEMMA OneEachKept ==
    ASSUME TypeOK, OneEach, [Next]_vars
    PROVE  OneEach'
<1> USE DEF OneEach
<1>1. ASSUME Caller \/ Tick \/ UNCHANGED vars PROVE OneEach'
  BY <1>1 DEF Caller, NoRoute, Submit, Collect, ResultRaises, Exhausted, GiveUp,
              Tick, vars, pool
<1>2. ASSUME NEW w \in Workers, Begin(w) PROVE OneEach'
  <2>1. PICK a \in queue : busy' = [busy EXCEPT ![w] = a]
    BY <1>2 DEF Begin
  <2>2. \A v \in Workers : busy[v] # a
    BY PoolAssumption DEF TypeOK, Running
  <2> QED
    BY <2>1, <2>2 DEF TypeOK
<1>3. ASSUME NEW w \in Workers, End(w) PROVE OneEach'
  BY <1>3 DEF End, TypeOK
<1> QED
  BY <1>1, <1>2, <1>3 DEF Next, Worker

\* The workers take the lowest address of the queue.
LEMMA InOrderKept ==
    ASSUME TypeOK, InOrder, [Next]_vars
    PROVE  InOrder'
<1> USE DEF InOrder
<1>1. ASSUME Caller \/ Tick \/ UNCHANGED vars PROVE InOrder'
  BY <1>1 DEF Caller, NoRoute, Submit, Collect, ResultRaises, Exhausted, GiveUp,
              Shutdown, Tick, vars, pool
<1>2. ASSUME NEW w \in Workers, Begin(w) PROVE InOrder'
  <2>1. PICK a \in queue : /\ \A b \in queue : a <= b
                           /\ queue' = queue \ {a}
    BY <1>2 DEF Begin
  <2>2. \A b \in queue' : a < b
    BY <2>1 DEF TypeOK, Addresses
  <2> QED
    BY <1>2, <2>1, <2>2 DEF Begin
<1>3. ASSUME NEW w \in Workers, End(w) PROVE InOrder'
  BY <1>3 DEF End
<1> QED
  BY <1>1, <1>2, <1>3 DEF Next, Worker

\* A future leaves the pool only through future.result().
LEMMA CollectedKept ==
    ASSUME TypeOK, Fresh, OneEach, Collected, [Next]_vars
    PROVE  Collected'
<1> USE DEF Collected
<1>1. ASSUME Submit PROVE Collected'
  BY <1>1 DEF Submit, Pending
<1>2. ASSUME Collect PROVE Collected'
  BY <1>2 DEF Collect, pool, Pending, Running, devices
<1>3. ASSUME NoRoute \/ ResultRaises \/ Exhausted \/ GiveUp PROVE Collected'
  BY <1>3 DEF NoRoute, ResultRaises, Exhausted, GiveUp, Shutdown
<1>4. ASSUME NEW w \in Workers, Begin(w) PROVE Collected'
  <2>1. PICK a \in queue : /\ busy' = [busy EXCEPT ![w] = a]
                           /\ queue' = queue \ {a}
    BY <1>4 DEF Begin
  <2>2. Running' = Running \cup {a}
    BY <1>4, <2>1, PoolAssumption DEF TypeOK, Begin, Running, Addresses
  <2> QED
    BY <1>4, <2>1, <2>2 DEF Begin, Pending
<1>5. ASSUME NEW w \in Workers, End(w) PROVE Collected'
  <2>1. Running' = Running \ {busy[w]}
    BY <1>5 DEF TypeOK, End, Running, OneEach
  <2> QED
    BY <1>5, <2>1 DEF End, Pending
<1>6. ASSUME Tick \/ UNCHANGED vars PROVE Collected'
  BY <1>6 DEF Tick, vars, pool, Pending, Running
<1> QED
  BY <1>1, <1>2, <1>3, <1>4, <1>5, <1>6 DEF Next, Caller, Worker

----------------------------------------------------------------------------
(* The schedule *)

\* While an address waits, one is under way that comes a whole pool before it.
LEMMA PoolAhead ==
    ASSUME TypeOK, OneEach, InOrder, pc = "collect",
           \A w \in Workers : busy[w] # NoAddress,
           NEW a \in queue
    PROVE  \E w \in Workers : /\ busy[w] \in listed
                              /\ Rank(busy[w]) + Size <= Rank(a)
<1> DEFINE S == {busy[w] : w \in Workers}
<1>1. busy \in [Workers -> Addresses] /\ S \subseteq listed /\ S \cap queue = {}
  BY PoolAssumption DEF TypeOK, Running
<1>2. Cardinality(S) = Size
  BY <1>1, FullPool DEF OneEach
<1>3. S # {} /\ S \in SUBSET Nat
  BY <1>1, PoolAssumption DEF Addresses
<1>4. PICK m \in S : \A b \in S : m <= b
  BY <1>3, Lowest
<1>5. \A b \in S : b < a
  BY <1>1 DEF InOrder
<1>6. Rank(m) + Cardinality(S) <= Rank(a)
  BY <1>1, <1>4, <1>5, RankAbove DEF TypeOK
<1> QED
  BY <1>1, <1>2, <1>4, <1>6

\* The pool's size and the ranks are numbers.
LEMMA SizePositive == Size \in Nat \ {0}
BY PoolAssumption, FS_CardinalityType, FS_EmptySet DEF Size

\* A tick keeps the schedule: an address that still waits is at least a pool
\* behind one whose probe has not used up its time.
LEMMA TickOnTime ==
    ASSUME TypeOK, OneEach, InOrder, OnTime, Tick
    PROVE  OnTime'
<1> USE PoolAssumption, SizePositive
<1>1. SUFFICES ASSUME pc = "collect",
                      NEW k \in Nat \ {0}, NEW a \in listed, Rank(a) <= Size * k
               PROVE  /\ a \in queue => elapsed + 1 <= (k - 1) * ProbeTime
                      /\ \A w \in Workers : busy[w] = a =>
                            elapsed + 1 <= (k - 1) * ProbeTime + spent'[w]
                      /\ finished = {}
  BY DEF OnTime, Tick, Rank, TypeOK
<1>2. finished = {}
  BY <1>1 DEF Tick
<1>3. ASSUME NEW w \in Workers, busy[w] = a
      PROVE  elapsed + 1 <= (k - 1) * ProbeTime + spent'[w]
  <2>1. spent'[w] = spent[w] + 1
    BY <1>3, <1>1 DEF Tick, TypeOK, Addresses
  <2>2. elapsed <= (k - 1) * ProbeTime + spent[w]
    BY <1>1, <1>3 DEF OnTime
  <2>3. (k - 1) * ProbeTime \in Int /\ elapsed \in Int /\ spent[w] \in Int
    BY DEF TypeOK
  <2> QED
    BY <2>1, <2>2, <2>3
<1>4. ASSUME a \in queue PROVE elapsed + 1 <= (k - 1) * ProbeTime
  <2>1. \A w \in Workers : busy[w] # NoAddress /\ spent[w] < ProbeTime
    BY <1>4 DEF Tick
  <2>2. PICK w \in Workers : busy[w] \in listed /\ Rank(busy[w]) + Size <= Rank(a)
    BY <1>1, <1>4, <2>1, PoolAhead
  <2>3. Rank(busy[w]) \in Nat \ {0} /\ Rank(a) \in Nat
    BY <2>2, RankPositive DEF TypeOK
  <2>4. Size * (k - 1) = Size * k - Size /\ Size * k \in Int
    OBVIOUS
  <2>5. Rank(busy[w]) <= Size * (k - 1)
    BY <1>1, <2>2, <2>3, <2>4
  <2>6. k # 1
    BY <2>3, <2>5
  <2>7. k - 1 \in Nat \ {0}
    BY <2>6
  <2>8. elapsed <= ((k - 1) - 1) * ProbeTime + spent[w]
    BY <1>1, <2>2, <2>5, <2>7 DEF OnTime
  <2>9. ((k - 1) - 1) * ProbeTime = (k - 1) * ProbeTime - ProbeTime
    OBVIOUS
  <2>10. (k - 1) * ProbeTime \in Int /\ elapsed \in Int /\ spent[w] \in Int
    BY DEF TypeOK
  <2> QED
    BY <2>1, <2>8, <2>9, <2>10
<1> QED
  BY <1>2, <1>3, <1>4

\* Every step keeps the schedule; only a tick takes time.
LEMMA OnTimeKept ==
    ASSUME TypeOK, Fresh, OneEach, InOrder, OnTime, [Next]_vars
    PROVE  OnTime'
<1> USE PoolAssumption
<1>1. ASSUME Submit PROVE OnTime'
  <2>1. \A k \in Nat \ {0} : 0 <= (k - 1) * ProbeTime
    OBVIOUS
  <2>2. elapsed' = 0 /\ finished' = {} /\ \A w \in Workers : busy'[w] = NoAddress
    BY <1>1 DEF Submit, Fresh
  <2>3. \A a \in listed' : a # NoAddress
    BY <1>1 DEF Submit, TypeOK
  <2> QED
    BY <2>1, <2>2, <2>3 DEF OnTime
<1>2. ASSUME Collect PROVE OnTime'
  BY <1>2 DEF OnTime, Collect, pool, Rank
<1>3. ASSUME NoRoute \/ ResultRaises \/ Exhausted \/ GiveUp PROVE OnTime'
  BY <1>3 DEF OnTime, NoRoute, ResultRaises, Exhausted, GiveUp, Shutdown
<1>4. ASSUME NEW w \in Workers, Begin(w) PROVE OnTime'
  <2>1. PICK b \in queue : /\ busy' = [busy EXCEPT ![w] = b]
                           /\ queue' = queue \ {b}
    BY <1>4 DEF Begin
  <2>2. SUFFICES ASSUME pc = "collect",
                        NEW k \in Nat \ {0}, NEW a \in listed,
                        Rank(a) <= Size * k
                 PROVE  /\ a \in queue' => elapsed <= (k - 1) * ProbeTime
                        /\ \A v \in Workers : busy'[v] = a =>
                              elapsed <= (k - 1) * ProbeTime + spent[v]
                        /\ a \in finished => elapsed <= k * ProbeTime
    BY <1>4 DEF OnTime, Begin, Rank
  <2>3. /\ a \in queue => elapsed <= (k - 1) * ProbeTime
        /\ \A v \in Workers :
              busy[v] = a => elapsed <= (k - 1) * ProbeTime + spent[v]
        /\ a \in finished => elapsed <= k * ProbeTime
    BY <2>2 DEF OnTime
  <2>4. (k - 1) * ProbeTime \in Int /\ elapsed \in Int /\ spent[w] \in Nat
    BY DEF TypeOK
  <2>5. ASSUME NEW v \in Workers, busy'[v] = a
        PROVE  elapsed <= (k - 1) * ProbeTime + spent[v]
    <3>1. CASE v # w
      BY <2>1, <2>3, <2>5, <3>1 DEF TypeOK
    <3>2. CASE v = w
      BY <2>1, <2>3, <2>4, <2>5, <3>2 DEF TypeOK
    <3> QED
      BY <3>1, <3>2
  <2> QED
    BY <2>1, <2>3, <2>5
<1>5. ASSUME NEW w \in Workers, End(w) PROVE OnTime'
  <2>1. SUFFICES ASSUME pc = "collect",
                        NEW k \in Nat \ {0}, NEW a \in listed,
                        Rank(a) <= Size * k
                 PROVE  /\ a \in queue => elapsed <= (k - 1) * ProbeTime
                        /\ \A v \in Workers : busy'[v] = a =>
                              elapsed <= (k - 1) * ProbeTime + spent'[v]
                        /\ a \in finished' => elapsed <= k * ProbeTime
    BY <1>5 DEF OnTime, End, Rank
  <2>2. /\ a \in queue => elapsed <= (k - 1) * ProbeTime
        /\ \A v \in Workers :
              busy[v] = a => elapsed <= (k - 1) * ProbeTime + spent[v]
        /\ a \in finished => elapsed <= k * ProbeTime
    BY <2>1 DEF OnTime
  <2>3. a # NoAddress
    BY DEF TypeOK
  <2>4. \A v \in Workers : busy'[v] = a => busy[v] = a /\ spent'[v] = spent[v]
    BY <1>5, <2>3 DEF End, TypeOK
  <2>5. busy[w] = a => elapsed <= k * ProbeTime
    <3>1. (k - 1) * ProbeTime = k * ProbeTime - ProbeTime
      OBVIOUS
    <3>2. k * ProbeTime \in Int /\ elapsed \in Int /\ spent[w] \in 0..ProbeTime
      BY DEF TypeOK
    <3> QED
      BY <2>2, <3>1, <3>2
  <2> QED
    BY <1>5, <2>2, <2>4, <2>5 DEF End
<1>6. ASSUME Tick PROVE OnTime'
  BY <1>6, TickOnTime
<1>7. ASSUME UNCHANGED vars PROVE OnTime'
  BY <1>7 DEF OnTime, vars, pool, Rank
<1> QED
  BY <1>1, <1>2, <1>3, <1>4, <1>5, <1>6, <1>7 DEF Next, Caller, Worker

\* At the scan's time limit none of the addresses it promises is pending.
LEMMA ReachedInTime ==
    ASSUME TypeOK, OnTime, pc = "collect", elapsed = ScanTimeout
    PROVE  Reached \cap Pending = {}
<1> USE PoolAssumption, SizePositive
<1> DEFINE turns == (ScanTimeout - 1) \div ProbeTime
<1>1. turns \in Nat /\ turns * ProbeTime <= ScanTimeout - 1
  OBVIOUS
<1> HIDE DEF turns
<1>2. SUFFICES ASSUME NEW a \in listed, Rank(a) <= Size * turns, a \in Pending
               PROVE  FALSE
  BY DEF Reached, turns, Size
<1>3. turns # 0
  BY <1>1, <1>2, RankPositive DEF TypeOK
<1>4. turns \in Nat \ {0}
  BY <1>1, <1>3
<1>5. /\ a \in queue => elapsed <= (turns - 1) * ProbeTime
      /\ \A w \in Workers :
            busy[w] = a => elapsed <= (turns - 1) * ProbeTime + spent[w]
      /\ a \in finished => elapsed <= turns * ProbeTime
  BY <1>2, <1>4 DEF OnTime
<1>6. (turns - 1) * ProbeTime = turns * ProbeTime - ProbeTime
  BY <1>4
<1>7. turns * ProbeTime \in Int /\ \A w \in Workers : spent[w] \in 0..ProbeTime
  BY <1>1 DEF TypeOK
<1> QED
  BY <1>1, <1>2, <1>5, <1>6, <1>7 DEF Pending, Running

\* The result of a scan covers the low end of the range.
LEMMA CoveragePreserved ==
    ASSUME TypeOK, Collected, OnTime, LowEndCovered, [Next]_vars
    PROVE  LowEndCovered'
<1>1. SUFFICES ASSUME pc' = "returned",
                      \A a \in listed' : answer'[a] # "TimeoutError"
               PROVE  \A a \in Reached' : \/ answer'[a] = "nothing"
                                          \/ answer'[a] = "device" /\ a \in found'
  BY DEF LowEndCovered
<1>2. /\ listed' = listed /\ answer' = answer
      /\ Reached' = Reached /\ Reached \subseteq listed
  BY DEF Next, Caller, Worker, NoRoute, Submit, Collect, ResultRaises, Exhausted,
         GiveUp, Begin, End, Tick, vars, Reached, Rank
<1>3. CASE pc = "returned"
  <2>1. found' = found
    BY <1>3 DEF Next, Caller, Worker, NoRoute, Submit, Collect, ResultRaises,
                Exhausted, GiveUp, Begin, End, Tick, vars
  <2> QED
    BY <1>1, <1>2, <1>3, <2>1 DEF LowEndCovered
<1>4. CASE pc # "returned"
  <2>1. Exhausted \/ GiveUp \/ ResultRaises
    BY <1>1, <1>4 DEF Next, Caller, Worker, NoRoute, Submit, Collect, Begin, End,
                      Tick, vars
  <2>2. ~ResultRaises
    BY <1>1, <1>2 DEF ResultRaises, Shutdown, TypeOK
  <2>3. pc = "collect" /\ found' = found /\ Reached \cap Pending = {}
    BY <2>1, <2>2, ReachedInTime DEF Exhausted, GiveUp
  <2> QED
    BY <1>2, <2>3 DEF Collected
<1> QED
  BY <1>3, <1>4

----------------------------------------------------------------------------
\* The inductive invariant.
THEOREM Invariance == Spec => []IInv
<1>1. Init => IInv
  <2> SUFFICES ASSUME Init PROVE IInv
    OBVIOUS
  <2>1. TypeOK
    BY PoolAssumption DEF Init, TypeOK, Running, Pending, devices
  <2> QED
    BY <2>1 DEF Init, IInv, Fresh, Cancelled, OneEach, InOrder, Collected, OnTime,
                LowEndCovered
<1>2. IInv /\ [Next]_vars => IInv'
  BY TypePreserved, QuietKept, OneEachKept, InOrderKept, CollectedKept,
     OnTimeKept, CoveragePreserved DEF IInv
<1> QED
  BY <1>1, <1>2, PTL DEF Spec

\* Each future is queued, running, finished or collected, and the clocks keep
\* to their limits.
THEOREM TypeCorrect == Spec => []TypeOK
BY Invariance, PTL DEF IInv

\* A scan that returns, complete or not, has given every address of the low end
\* its turn and has hidden no exception there, unless a probe has raised
\* TimeoutError: max_workers addresses for every full probe time that fits into
\* scan_timeout.
THEOREM LowEndIsCovered == Spec => []LowEndCovered
BY Invariance, PTL DEF IInv

\* After the result no further address is contacted.
THEOREM NothingProbedLate == Spec => NoLateProbe
<1> DEFINE Quiet == pc \in {"returned", "raised"} =>
                       \A w \in Workers : busy'[w] \in {busy[w], NoAddress}
<1>1. ASSUME IInv, [Next]_vars PROVE Quiet
  <2>1. ASSUME NEW w \in Workers, Begin(w) PROVE Quiet
    BY <1>1, <2>1 DEF IInv, Cancelled, Begin
  <2>2. ASSUME NEW w \in Workers, End(w) PROVE Quiet
    BY <1>1, <2>2 DEF IInv, TypeOK, End
  <2>3. ASSUME Caller \/ Tick \/ UNCHANGED vars PROVE Quiet
    BY <2>3 DEF Caller, NoRoute, Submit, Collect, ResultRaises, Exhausted, GiveUp,
                Tick, vars, pool
  <2> QED
    BY <1>1, <2>1, <2>2, <2>3 DEF Next, Worker
<1>2. IInv /\ [Next]_vars => [Quiet]_vars
  BY <1>1
<1> QED
  BY <1>2, Invariance, PTL DEF Spec, NoLateProbe
=============================================================================
