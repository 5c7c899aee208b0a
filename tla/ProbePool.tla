----------------------------- MODULE ProbePool -----------------------------
(***************************************************************************)
(* The probing half of scan_subnet() in ionemo_drivers/lan_scan.py: a pool  *)
(* of max_workers threads works through the addresses in ascending order,   *)
(* as_completed() collects the results until scan_timeout, and what is left *)
(* is cancelled.  A probe lasts at most ProbeTime; the builtin ones never    *)
(* raise, an external driver's may.                                         *)
(***************************************************************************)
EXTENDS Integers, FiniteSets

CONSTANTS
    N,             \* addresses of the subnet, in ascending order
    Workers,       \* threads of the pool
    ProbeTime,     \* longest probe(), 2.5 s per request
    ScanTimeout,   \* scan_timeout
    MaxRaising,    \* bound: addresses whose probe raises
    NoAddress

Addresses == 1..N

ASSUME PoolAssumption ==
    /\ N \in Nat /\ ProbeTime \in Nat \ {0} /\ ScanTimeout \in Nat \ {0}
    /\ MaxRaising \in Nat
    /\ Workers # {} /\ IsFiniteSet(Workers)
    /\ NoAddress \notin Addresses

VARIABLES
    pc,          \* where the scan is, "offline" if it found no local address
    listed,      \* probe_ips: all addresses, or those the pre-filter left
    answer,      \* what the probe of each listed address comes to
    queue,       \* futures that no worker has started
    busy,        \* the address each worker probes
    spent,       \* how long it has been at it
    finished,    \* futures that as_completed() has not yielded yet
    found,       \* devices of the result
    elapsed      \* time since as_completed() was called

pool == <<queue, busy, spent>>
vars == <<pc, listed, answer, pool, finished, found, elapsed>>

\* FuturesTimeout is the builtin TimeoutError, whoever raises it.
Answers == {"device", "nothing", "TimeoutError", "Exception"}

devices == {a \in listed : answer[a] = "device"}

Running == {busy[w] : w \in Workers} \ {NoAddress}
Pending == queue \cup Running \cup finished

\* The type invariant: a future is queued, running, finished or collected.
TypeOK ==
    /\ pc \in {"start", "collect", "returned", "raised", "offline"}
    /\ listed \subseteq Addresses /\ answer \in [listed -> Answers]
    /\ queue \subseteq listed /\ finished \subseteq listed
    /\ found \subseteq devices
    /\ busy \in [Workers -> listed \cup {NoAddress}]
    /\ spent \in [Workers -> 0..ProbeTime]
    /\ elapsed \in 0..ScanTimeout
    /\ queue \cap Running = {} /\ Running \cap finished = {}
    /\ queue \cap finished = {} /\ Pending \cap found = {}

Init ==
    /\ pc = "start"
    /\ listed \in SUBSET Addresses
    /\ answer \in [listed -> Answers]
    /\ Cardinality({a \in listed : answer[a] \notin {"device", "nothing"}}) <= MaxRaising
    /\ queue = {} /\ finished = {} /\ found = {}
    /\ busy = [w \in Workers |-> NoAddress]
    /\ spent = [w \in Workers |-> 0]
    /\ elapsed = 0

----------------------------------------------------------------------------
(* The caller's thread *)

\* "Could not determine the local network address."
NoRoute ==
    /\ pc = "start"
    /\ pc' = "offline"
    /\ UNCHANGED <<listed, answer, pool, finished, found, elapsed>>

Submit ==
    /\ pc = "start"
    /\ queue' = listed
    /\ pc' = "collect"
    /\ UNCHANGED <<listed, answer, busy, spent, finished, found, elapsed>>

\* Mutant: a yielded future stays in the set of finished ones.
CollectTwice ==
    /\ pc = "collect"
    /\ \E a \in finished :
          /\ answer[a] \in {"device", "nothing"}
          /\ found' = found \cup ({a} \cap devices)
    /\ UNCHANGED <<pc, listed, answer, pool, finished, elapsed>>

\* result = future.result()
Collect ==
    /\ pc = "collect"
    /\ \E a \in finished :
          /\ answer[a] \in {"device", "nothing"}
          /\ finished' = finished \ {a}
          /\ found' = found \cup ({a} \cap devices)
    /\ UNCHANGED <<pc, listed, answer, pool, elapsed>>

\* Mutant: shutdown(wait=False) without cancel_futures.
ShutdownKeepsQueue(label) == pc' = label /\ UNCHANGED queue

\* pool.shutdown(wait=False, cancel_futures=True), however the scan ends.
Shutdown(label) == pc' = label /\ queue' = {}

\* Every future has been yielded.
Exhausted ==
    /\ pc = "collect" /\ Pending = {}
    /\ Shutdown("returned")
    /\ UNCHANGED <<listed, answer, busy, spent, finished, found, elapsed>>

\* as_completed() raises: partial results are accepted.
GiveUp ==
    /\ pc = "collect" /\ Pending # {} /\ elapsed = ScanTimeout
    /\ Shutdown("returned")
    /\ UNCHANGED <<listed, answer, busy, spent, finished, found, elapsed>>

\* future.result() raises what the probe has raised: a TimeoutError is taken
\* for the scan's own, everything else leaves scan_subnet().
ResultRaises ==
    /\ pc = "collect"
    /\ \E a \in finished :
          /\ \/ answer[a] = "TimeoutError" /\ Shutdown("returned")
             \/ answer[a] = "Exception" /\ Shutdown("raised")
          /\ finished' = finished \ {a}
    /\ UNCHANGED <<listed, answer, busy, spent, found, elapsed>>

----------------------------------------------------------------------------
(* The workers of the pool *)

\* Mutant: the last future submitted is started first.
BeginLast(w) ==
    /\ busy[w] = NoAddress
    /\ \E a \in queue :
          /\ \A b \in queue : b <= a
          /\ busy' = [busy EXCEPT ![w] = a]
          /\ queue' = queue \ {a}
    /\ UNCHANGED <<pc, listed, answer, spent, finished, found, elapsed>>

Begin(w) ==
    /\ busy[w] = NoAddress
    /\ \E a \in queue :
          /\ \A b \in queue : a <= b
          /\ busy' = [busy EXCEPT ![w] = a]
          /\ queue' = queue \ {a}
    /\ UNCHANGED <<pc, listed, answer, spent, finished, found, elapsed>>

\* An answer, a refused connection or the request's timeout.  Nobody looks at
\* the future of an abandoned probe.
End(w) ==
    /\ busy[w] # NoAddress
    /\ finished' = finished \cup {busy[w]}
    /\ busy' = [busy EXCEPT ![w] = NoAddress]
    /\ spent' = [spent EXCEPT ![w] = 0]
    /\ UNCHANGED <<pc, listed, answer, queue, found, elapsed>>

\* Threads run between two ticks; the clock of a returned scan has stopped.
Tick ==
    /\ pc \in {"collect", "returned", "raised"}
    /\ pc = "collect" => /\ elapsed < ScanTimeout
                         /\ finished = {} /\ Pending # {}
    /\ \E w \in Workers : busy[w] # NoAddress
    /\ \A w \in Workers : IF busy[w] = NoAddress THEN queue = {}
                          ELSE spent[w] < ProbeTime
    /\ elapsed' = IF pc = "collect" THEN elapsed + 1 ELSE elapsed
    /\ spent' = [w \in Workers |->
                   IF busy[w] = NoAddress THEN 0 ELSE spent[w] + 1]
    /\ UNCHANGED <<pc, listed, answer, queue, busy, finished, found>>

Caller == NoRoute \/ Submit \/ Collect \/ ResultRaises \/ Exhausted \/ GiveUp
Worker(w) == Begin(w) \/ End(w)

Next == Caller \/ Tick \/ \E w \in Workers : Worker(w)

Spec == Init /\ [][Next]_vars

\* Threads run, probes time out and time passes.
Fairness ==
    /\ WF_vars(Caller) /\ WF_vars(Tick)
    /\ \A w \in Workers : WF_vars(Worker(w))

FairSpec == Spec /\ Fairness

----------------------------------------------------------------------------
(* Properties *)

\* The comment at scan_timeout: a scan that gives up has still given the low
\* end of the range its turn, max_workers addresses for every full probe time,
\* and no probe there has raised: an exception is never hidden in a partial
\* result.  Only a probe that raises TimeoutError can end a scan before that.
Rank(a) == Cardinality({b \in listed : b <= a})
Reached ==
    {a \in listed :
        Rank(a) <= Cardinality(Workers) * ((ScanTimeout - 1) \div ProbeTime)}
LowEndCovered ==
    pc = "returned" /\ (\A a \in listed : answer[a] # "TimeoutError") =>
        \A a \in Reached : \/ answer[a] = "nothing"
                           \/ answer[a] = "device" /\ a \in found

\* Once the scan has returned or raised no further address is contacted: only
\* the probes under way run to their own timeout.
NoLateProbe ==
    [][(pc \in {"returned", "raised"}) =>
          \A w \in Workers : busy'[w] \in {busy[w], NoAddress}]_vars

\* Every scan ends, and leaves no probe behind for ever.
EveryScanEnds == <>(pc \in {"returned", "raised", "offline"} /\ Running = {})
=============================================================================
