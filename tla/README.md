# Verification of ionemo-drivers

TLA+ specifications of the device drivers in `ionemo_drivers/`, the TLC runs
that check them on small instances, and TLAPS proofs for every instance. Paths
below are relative to the repository; line numbers refer to the modelled commit.

## 1. The system

The package is a library. A host application (APScheduler, a web interface)
creates one driver object per device and calls it from a pool of threads.

| Component | State | Operations | Shared with |
|---|---|---|---|
| Aurora RS-485 (`pv/aurora_rs485.py`) | port object, last error, last success, `_port_unavailable`, a lock | `get_data`, `get_status`, `discover` | pool threads; the bus |
| Daikin BRP (`ac/daikin_brp.py`) | control cache with its time, last error, last success; **no lock** | `get_data`, `set_mode`, `set_temperature`, `set_fan_speed`, `get_status` | poller, optimizer, UI; the adapter; the infrared remote |
| Alfen EVE (`ev/alfen_eve.py`) | HTTPS session, certificate path, last error, last success, a lock | `get_data`, `set_current`, `get_status` | poller and optimizer threads; the charger |
| Certificate store (`cert_store.py`) | one PEM file per device, on disk, pinned or configured | `resolve_verify`, `_pin_cert`, `configure_session_tls` | restarts of the process; whoever else changes the file |
| LAN scan (`lan_scan.py`) | process-wide cache of live hosts, a lock, a thread pool per scan | `scan_subnet`, `reset_live_host_cache` | every driver's `discover_quick()` |
| HomeWizard P1 (`grid/homewizard_p1.py`) | last error, last success | `get_data`, `discover` | LAN scan |
| Contract validation (`contract_validation.py`) | none | `validate_contract_data` | tests |
| Registry (`registry.py`) | name-to-class dictionary | load, register, look up | plug-ins |
| Base classes (`base.py`) | none | abstract interface, data contracts | all drivers |
| Harness (`tools/harness.py`) | none | command line | - |

Drivers talk to their devices by request and reply with a timeout; they talk to
each other only through the LAN scan's cache and the certificate directory.

What is hard here, and what makes each part correct:

- **Aurora**: `get_data()` takes its lock with a timeout, and the caller that
  gives up resets the port *without* the lock. Correct means: the lock is never
  leaked, calls are bounded, the driver recovers, and the status tells a missing
  adapter, a sleeping inverter and a healthy one apart.
- **The RS-485 bus**: a reply carries neither its sender nor its command, and a
  serial port has one speed and one input queue however many handles are open.
  Correct means: a scan finds what is there, a late reply never passes for the
  answer of a later call, whoever disturbs the line, it works again afterwards.
- **Daikin**: each write carries all control fields, merged into a cached read;
  requests time out before or after they take effect; nothing is locked. Correct
  means: writes made in turn change only what they were asked to change, the
  cache is dropped whenever it may be wrong, a failed poll stays visible.
- **Alfen and the certificate store**: an authenticated session that may expire
  before any request, requests that are applied after their caller gave up, one
  retry, a certificate file that survives restarts or disappears under them.
  Correct means: an acknowledged limit is in force, no stale session survives,
  the lock is always released, the number of requests is bounded.
- **LAN scan**: drivers started together share one sweep; the pool gives up after
  a time. Correct means: one sweep, no stale answers, no device missed in the
  part of the range that had its turn, nothing left running.

- **Registry, contracts, harness**: drivers of other packages may fail to load,
  replace a builtin or be no class at all; devices send null or ill-typed fields.
  Correct means: nothing that fails takes more with it than itself, and the
  exit status of a poll is right about what the device sent.

`PROJECT.json` lists every hazard at its line with the properties that cover it.

## 2. Modules

| Module | Models | Abstraction |
|---|---|---|
| `AuroraRS485` | `get_data()` per thread, the lock, the unlocked reset, the port object, the eight exchanges | a value is absent or present; a reply right or wrong; time in seconds |
| `RS485Line` | external: ports, inverters, line speed, input queue, replies under way | a reply is the pair of address and command it answers, or garbage |
| `AuroraDiscover` | `discover()`, `_open_serial()`, `_probe_address()`; what a scan should find | texts of warnings; a frame is right or garbage |
| `AuroraBus` | `get_data()` of one caller on the line, composed with `AuroraDiscover` | the commands of one call are the constant `Reads` |
| `DaikinControl` | the translation tables, `View` (fields to contract) and `Merge` (setter to payload) | half and quarter degrees as integers; `shum`, `f_dir` left out |
| `DaikinBrp` | poller and setters at HTTP-request granularity, the cache, the remote, the adapter | an adapter is healthy or not; the cache is fresh or not |
| `ACUnit` | the abstract unit `ACUnitDriver` promises | only mode, target and fan speed |
| `CertStore` | the certificate file, pinned or configured: absent, broken (torn or unreadable), whole | the PEM's content |
| `AlfenEve` | construction, login, the three reads, `set_current()` with its 401 retry, late requests, restarts | readings parse or do not; charger and network are healthy or not |
| `SharedSweep` | `_shared_live_hosts()`, `_discover_live_hosts()`, the reset | hosts come and go; the ARP table holds at least who was there throughout |
| `ProbePool` | `scan_subnet()`'s executor, `as_completed()`, timeout, shutdown | a probe finds a device or not, or raises, within `ProbeTime` |
| `Registry` | loading of builtins and entry points, lookup by type | an import or `ep.load()` works, raises, or raises after the plug-in registered itself; a class is its device type |
| `ContractData` | the four data contracts, `validate_contract_data()` | a value is its Python type |
| `HomewizardP1` | `get_data()`, the mapping of every field, `get_status()` | a JSON object is the type of each field, or "absent" |
| `Harness` | `main()`, its four commands, the polling loop, over `Registry`, `HomewizardP1` and `ContractData` | printing; other drivers are what their `get_data()` returns |
| `MCAuroraBus`, `MCDaikinBrp`, `MCHarness` | constant values for TLC | - |
| `AuroraRS485_proofs`, `AuroraRS485Pair_proofs`, `AuroraBus_proofs`, `DaikinBrp_proofs`, `AlfenEve_proofs`, `SharedSweep_proofs`, `ProbePool_proofs`, `Harness_proofs` | proofs; the last also about `Registry`, `HomewizardP1`, `ContractData` | - |

How state and actions correspond to the code:

* A thread's `pc` names the next statement with an effect on shared state. In
  `AuroraRS485`, "close", "forget" and "report" are the three statements of
  `_reset_serial_on_lock_timeout()`, and other threads may run between any two.
  "opened" is the step between the two statements of an open that others can tell
  apart: `self._serial` is assigned (`OpenPort`), `_port_unavailable` is not yet
  cleared (`PortAvailable`).
  `wire` is the port object a blocked `read()` uses, which may differ from
  `serial` once a resetting caller has replaced `self._serial`.
* `frame` variables (`cmd`, `missing`, `read`, `amps`, ...) are locals of the call
  that owns the lock; they are cleared when it returns.
* `DaikinBrp` splits each request into being served by the adapter and being
  processed by the driver (`GetServed`/`GetReply`, `SetServed`/`SetConfirmed`),
  and `_get_control_cached()` into its test and its copy (`Look`/`Copy`). The
  cache and its time stamp are written together: the time stamp is read first,
  and the extra GET caused by an older stamp is among the modelled behaviours
  (`CacheExpires` may fire at any time).
* In `DaikinBrp` a write whose caller timed out may stay in `late` and be applied
  at any later time (`LateWrite`), when the constant `Delays` allows it.
* `AuroraDiscover` is the sequence of calls of one scan: `spc` is "open" at
  `_open_serial()`, "probe" and "read" in `_probe_address()`, "close" in the
  `finally`, "next port" after the loop over the rates. `ScanStep` takes from the
  composition whether another handle shares the port. `AuroraBus` adds a driver
  object (`polled`) with `ppc` and `serial`; a pulled adapter leaves a handle
  "dead", so that its next use raises.
* In `AuroraBus` a call may begin as soon as the last one has returned, as the
  next caller in the queue of the lock does, with replies still under way. `gap`
  and `mixed` remember that a value was missed, or a scan met, for as long as such
  replies remain.
* `RS485Line` keeps settings and queue with the port, as the operating system
  does. `prompt` is the weather: until `Settle`, replies may be late or lost.
  Replies still under way when the last handle is closed are lost
  (`Abandon`), which assumes that they come before anyone opens the port again.
  A dead handle keeps its path: an adapter comes back at the same path only
  once it is closed.
* `Harness` drives `Registry` and `HomewizardP1` as `main()` does; `outcome` and
  `data` are what the last `get_data()` did. `Again` is another call of `main()`,
  which takes its arguments as a parameter, in the same process. An uncaught
  exception exits with 1, as Python does.
* `AlfenEve` runs one action per request; `ChargerChange` and `Expire` may happen
  between any two of them, `Restart` and `FileDamaged` at any point. While the
  charger is not `healthy` a request may also time out, be refused, get another
  status or values that do not convert. `Caught` is the host application handling
  an exception of `set_current()`. A request that timed out, or whose process
  ended, may stay in `late` and be applied at any later time (`LateLimit`);
  `MaxLate` bounds how many different limits wait there.
* `CertStore` knows whether a file is configured (`explicit`, `ca_cert_path`): such
  a path is not looked at before the first login. `Damage` is anybody deleting the
  file or taking away the right to read it.
* `SharedSweep` treats a host as surely found only if it was present during the
  whole sweep; any other host may or may not be in the ARP table.
* In `ProbePool`, `ResultRaises` is `future.result()`: `FuturesTimeout` is the builtin
  `TimeoutError`, so a probe's own ends the scan like its timeout.
* `ProbePool` submits in ascending order and starts the lowest queued address
  first, as the executor's FIFO queue does.
* In `Registry`, "late" is an entry point whose module registers its class on
  import, as `CONTRIBUTING.md:162` shows, and whose `ep.load()` then raises.
  `plugins` are those whose module stays imported: loaded again, they register
  nothing.
* Variables `lastCall`, `lastPoll`, `lastSet`, `overtaken`, `waited`, `resets`,
  `disturbed`, `foreign`, `gap`, `mixed`, `value`, `interrupted`, `spoilt` are
  history: no action's guard depends on them, except the named bound `MaxResets`.

Time: a `Tick` may pass only when every thread is blocked in something that
takes time (a lock with another owner, a read, the closing of a port, a sleep, a
probe), so running
code is instantaneous compared with a second. `age`, `held`, `elapsed`, `spent`
are bounded by the guards of `Tick`, `cacheAge` and `since` are capped where more
age makes no difference.

`ACUnit` is the abstract specification of the AC driver: `DaikinBrp`'s
`ImplementsContract` says that the contract's view of the adapter, computed by
`View`, changes only by `SetMode`, `SetTemperature` or `SetFanSpeed` of `ACUnit`
(or stutters).

## 3. Runs

| Run | Instance | Shows |
|---|---|---|
| `aurora_callers` | 2 threads, `LockWait` 4, `CommandTime` 1 | locking, bounded calls, status under constant resets; every call returns; an answering inverter is reported connected again and again |
| `aurora_two` | 2 threads, the code's 10 s and 1 s | no reset ever happens; a failed poll never shows as connected |
| `aurora_status` | 3 threads, 10 s and 1 s | **violated**: a failed poll shows as connected |
| `aurora_bus` | 2 ports, 2 rates, 2 addresses, 2 commands, `MaxLate` 1; unpolled worlds: any ports and inverters; polled: one inverter, and another port only as one that is refused | scans find what is there, end and leave no handle; what late replies can do; polls recover |
| `daikin_turns` | one thread, all modes, 5 temperatures, 2 speeds, 4 initial units | the cache equals the unit between calls; refinement of `ACUnit` |
| `daikin_race` | poller, 2 controllers, remote, delayed writes | a failed poll shows; the cache heals once things are quiet |
| `daikin_merge` | poller and one controller | **violated**: a late GET undoes a mode change |
| `alfen_session` | poller, optimizer, 2 currents, `MaxLate` 1, disk faults, damaged files, with and without `ca_cert_path` | locking, acknowledged limits, bounded requests, over what `set_current()` raises, recovery |
| `alfen_tofu` | poller and optimizer | **violated**: a torn pin is never fetched again |
| `lan_sweep` | 3 drivers, 1 host, sweep 2, TTL 3, 1 reset | one sweep, bounded waits, no stale answer |
| `lan_pool` | 2 workers, 5 addresses, one may raise, probe 2, timeout 4 | low end complete, no late probe, every scan ends |
| `harness` | 2 builtins, 3 entry points, 3 names, counts 0 to 2, valid and refused intervals, some 100 JSON objects | loading, readings and the verdict of a poll |

Why the bounds are enough. A lock timeout of 4 makes resets overlap with every
one of the eight exchanges, with two callers resetting each other in turn, and a slow
`close()` lets the killed caller open a port the resetting one then forgets;
`aurora_two` and `aurora_status` keep the code's own times, with which a reset
needs three callers. On the bus two ports show the order of the search and of
its warnings, two rates and two addresses an inverter found, skipped and missed
at each; two commands, one of them required, show an answer displaced by one;
one late reply beside the one asked for is the least that can displace it.
The Daikin runs separate sequential correctness, which needs all
arguments (both ends of the temperature range, both kinds of tie, a step), from
races, which need few arguments and many threads. In Alfen the
lock lets one call in at a time, so that one poller and one optimizer meet in every
order, and an acknowledged limit can be overwritten by a later call of the same
optimizer or by a late request of an earlier one; two currents tell them apart.
A sweep of 2 and a TTL of 3 let a
host arrive before, within and after a sweep. In the pool the timeout cuts off a
scan of five addresses with one still queued; `MaxRaising` bounds the probes that raise, of which the
first ends the scan. The harness run gives the mapping all pairs of import
counters and every type in each field; its entry points are
a new driver, a replacement of a builtin, and one that replaces the new driver
by no class, and each may load, fail, or fail late, before the registry is loaded
again. No run uses symmetry.
`lan_pool` is the only run without deadlock checking: a scan ends.

Fairness: the scheduler calls pollers again and again, running threads run,
and requests have timeouts, which gives weak fairness of steps, of polls and of
`Tick`. Alfen's lock has no timeout; getting it needs strong fairness, justified
because calls are seconds apart and a waiting thread then finds the lock free.
On the bus, replies arrive and running calls run; nobody has to start a scan.
`Recovery`, `SelfHealing` and `PollsRecover` assume in their statement that the device answers
from some point on, not that the driver does anything. `PollsRecover` also assumes
that again and again no reply is under way between two calls, which is so when the
scheduler's calls are seconds apart.

What the violated runs say about the code:

* `aurora_status`: reset by a second and third caller, the owner meets
  `assert self._serial is not None`; `str()` of that error is empty, the empty
  text counts as healthy. `docs/drivers/aurora_rs485.md` calls concurrent calls
  safe.
* `daikin_merge`: the poller's GET is answered before a write, processed after
  it, and replaces the newer cache; the next setter writes the old mode back.
  `docs/drivers/daikin_brp.md` says the second setter merges into the first.
* `alfen_tofu`: `write_text()` creates the file before it fills
  it; the next start accepts any file that exists. From then on every login fails
  against the comment in `__init__()`.

What the passing properties leave open, and a reader of the code should know:

* `ErrorMeansNoPort` has an exception of one step: between lines 381 and 394 the port
  is open and `get_status()` still says "error".
* `AnswersAreOwn` excuses a displaced answer after a value that timed out: its late
  reply may be taken for the next value, since `reset_input_buffer()` cannot
  discard what has not come. This carries over into the next call when that one
  begins while a reply is still under way, as it can for callers that queue on the
  lock; when calls are seconds apart the reply has come by then and is discarded.
* `PollsRecover` asks for the line to be at the driver's rate. A scan leaves it
  at the last rate it tried, and a driver whose port stays open never sets it
  back: it sleeps until the adapter is replugged or its port is dropped.
* `LimitIsAcknowledged` does not speak of a limit after a request given up earlier
  was applied late: nothing in the protocol orders that one before a newer call.
  Nor does it speak of the time after a restart.
* `LoadingIsRight` speaks of loading that returned: a builtin that fails with
  anything but ImportError ends it, and no later driver is loaded. A value that
  is no class makes every lookup by type raise.
* `VerdictIsRight` takes a required field that the dongle leaves out for sent, as
  the driver does. An interval that `time.sleep()` refuses, a negative one, ends
  the poll with a traceback and exit status 1.

Where documents and code disagree, beside the three violated runs. The model
follows the code, and the comment of the property named says so:

| Document | Code | Property |
|---|---|---|
| `docs/drivers/aurora_rs485.md:129`: other rates are tried "if nothing responds" at 19200 | all rates are tried always, as the docstring (`aurora_rs485.py:247-251`) and `tests/test_aurora_driver.py:615` say | `ScanIsRight` |
| `base.py:263`: `discover()` must "never raise an exception" | it raises beside a poller of the same port and when the adapter is pulled | `LateRepliesHarmless` |
| `base.py` (`DRIVER_CALL_TIMEOUT`): a call takes 15 s at most | 10 s of waiting and eight exchanges of 1 s are 18 s, and runs reach them; an Alfen call may wait for five requests of 10 s | `CallBounded`, `RequestsBounded` |
| `README.md:139`: "Never raise from `get_data()` or `set_current()`" | `set_current()` raises `OSError` or `ValueError` over a certificate file that is torn, missing or unreadable; `tests/test_alfen_driver.py:162-166` knows the `FileNotFoundError` | `RaisesOnlyOverCertificate` |
| `alfen_eve.py:68`: TOFU is retried on every poll | a pin deleted while the driver holds its path is not fetched again before a restart | `Recovery` (its premise) |
| `docs/contracts/ev_charger.md:69-70`: clamp, and pause below the minimum | `set_current()` sends the value as it is | `LimitIsAcknowledged` |
| `README.md:141`: `None` for the whole reading if a required field cannot be read | Alfen reads answered with another status than 200 and 401 are skipped, their fields become 0.0, and the status is "connected" | none: values are abstracted |
| `README.md:139`, `base.py:224`, `docs/contracts/grid_meter.md:48`, `CONTRIBUTING.md:230`: `get_data()` never raises | a null counter of the HomeWizard meter raises `TypeError`, with the status "connected" | `ReadingIsRight` (silent on these objects) |
| `docs/drivers/homewizard_p1.md:75`: a missing `active_power_w` is summed from the phases; `README.md:141` | it becomes 0.0, as do missing counters | `ReadingIsRight` (silent on these objects) |

`LowEndCovered` gives a scan 15 workers
and `(60 - 1) div ProbeTime` rounds: all 253 addresses when a probe takes at most
2.5 s, but requests' timeout counts per connection and per read, so a host that
accepts and then stalls takes longer.

## 4. Proofs

`AuroraRS485_proofs` proves, for every set of threads, every `LockWait` and every
`CommandTime`: `TypeOK`, `OneOwner`, `CallBounded`, `ErrorMeansNoPort`.
`CallBounded` alone is not inductive: how old a call may be depends on the
exchange it has reached (`Clocks`), the exchange counter belongs to the owner of
the lock (`OneOwner`) and starts anew with each owner (`FreshFrame`).
`ErrorMeansNoPort` needs that only the owner installs a port (`OpensNothing`), and
is about the owner between its two statements, through a reset in between.
Assumptions: `ThreadAssumption`, `TimeAssumption`.

`SharedSweep_proofs` proves, for every set of drivers and hosts, every sweep time
and TTL: `TypeOK`, `OneSweep`, `WaitBounded` and the action property `NeverStale`.
The invariant relates the lock to who looks or sweeps (`LockHeld`), the cached
answer to how long hosts have been present (`CacheKnows`), and each scan's
waiting time to the sweep under way (`Progress`, `Queued`): once an answer has
been stored nobody who waits can see it expire, because time does not pass while
the lock is free. Assumption: `SweepAssumption`.

`AuroraRS485Pair_proofs` is about the application as it is deployed, under the
hypothesis `TwoCallers`: at most two threads, and a complete read shorter than
the lock's timeout (with the code's numbers, 8 s and 10 s). It proves `NoReset`
and `FailedPollNotConnected`. The invariant says that whoever waits is never
older than the time the owner has spent (`Turn`, `Unspent`); without resets the
owner keeps its port (`PortKept`), so the assertion that leaves an empty text is
not reached (`ErrorKept`). It builds on the invariant of `AuroraRS485_proofs`. With three
threads both are false: `aurora_status` is the counterexample.

`AuroraBus_proofs` proves `TypeOK`, `NoHandleLeft`, `AnswersAreOwn`,
`LateRepliesHarmless` and `ScanIsRight`, for all lists of ports, rates and reads, any
inverters, addresses and number of late replies. The invariant has two layers. What holds
in any weather: where the scan has its handle open (`Handles`), where a call of the
poller is (`Calls`), which disturbances a scan remembers (`Marked`), that a scan beside
no driver object reads only what was sent at its own rate (`Genuine`) and so lists
only inverters that are there (`Real`), that a call which has missed no answer, nor followed one that had while
replies were under way, finds nothing on the bus but the reply to the request
under way (`OwnReplies`), and that `mixed` marks every scan on its port (`Mixed`). What holds while nothing disturbs a scan: no reply outlives its
probe (`Calm`), the port is open until its last rate (`Opening`), `found` holds exactly the
devices of the addresses tried (`SoFar`), and the ports passed were silent with
the worst of their warnings kept (`Behind`). `ScanIsRight` then compares a loop
over three lists with one choice of the first inhabited port; it is proved as a
step property of the loops, without induction over the lists. Assumptions: `PortAssumption`,
`BusAssumption`, `PollAssumption`.

`AlfenEve_proofs` proves all six invariants of the charger: `TypeOK`, `OneOwner`,
`LimitIsAcknowledged`, `PollFailureShows`, `RequestsBounded`,
`RaisesOnlyOverCertificate`, for any number of callers and currents. `RequestsBounded` needs a budget for each
point of a call, including the second login after a 401 (`Frame`, `Budget`);
`LimitIsAcknowledged` that between the charger's change and the reply the lock's
owner alone knows the new limit, unless a late request has overtaken it
(`Acknowledged`, `Exclusive`); `RaisesOnlyOverCertificate` that whoever logs in has a
certificate path, and that nobody pins a file once there is one (`Certificate`);
`PollFailureShows` that `set_current()` never reaches the end of the reads
(`Roles`, `FailedPoll`).

`DaikinBrp_proofs` proves `TypeOK` for any threads; `PollFailureShows` for one
poller (`OnePoller`) beside any setters, remote and delayed writes; and, for calls
made in turn (`InTurn`: one thread, no remote, no delayed write), `CacheCoherent`
and the refinement `ImplementsContract` of `ACUnit`, for every temperature and every
initial unit. The lemmas `ModeMerged`, `TemperatureMerged`, `FanMerged` say what a
setter's merge does to the contract's view, and `RoundedIsNearest` that clamping
and rounding choose a nearest set-point. The hypotheses are those of the run
`daikin_turns`; they are needed, as `daikin_merge` shows. `TemperatureKeepsMode` is the
rule that run refutes, proved for calls in turn.

`ProbePool_proofs` proves `TypeOK`, `LowEndCovered` and the action property
`NoLateProbe` for every number of addresses and workers and all times. The heart is `OnTime`: of
the first `k * Size` addresses none starts after `k - 1` probe times, and none is
running after `k`. It is kept because a waiting address is at least a pool behind
one that is under way (`PoolAhead`), which is a counting argument over the ranks of the
addresses the workers hold (`OneEach`, `InOrder`, `RankAbove`). Assumption:
`PoolAssumption`.

`Harness_proofs` proves `TypeOK`, `LoadingIsRight`, `ReadingIsRight` and
`VerdictIsRight`, for any lists of builtins and plug-ins, any set of documents of the meter
and any number of polls. For the registry, a name holds its
builtin or one of its entry points, and none that loads comes after that one among
those the load has reached (`Tables`, `Imported`, `Assigned`); a plug-in that
will not register itself again finds its name taken. For the meter,
`ReadingRight` follows each field through the mapping into the contract's
verdict, for every type a field may have. For the verdict, `Stages`, `Readings`
and `Tally` relate the count of failures to the readings made, the one just being
judged, and Ctrl-C between the two. Assumptions: `RegistryAssumption`,
`DocumentAssumption`, `HarnessAssumption`.

All modules are laid out alike: one lemma per conjunct of the invariant, one step
per action, `Invariance`, then one theorem per property. Type invariants are
split where a variable is Boolean (`Values`, `Flags`; `TypeParts` joins them), because the two
provers each do well with one half. Every inductive invariant was checked by TLC
on the instances of the runs before it was proved.

Every safety property of the passing runs is a theorem, some under the
hypotheses named above. Only model-checked:

* liveness (`EveryCallReturns`, `Recovery`, `ScanEnds`, `PollsRecover`,
  `SelfHealing`, `EveryScanEnds`): fairness and `ENABLED` are out of the prover's reach;
* what the Daikin driver does when calls overlap, beyond `PollFailureShows`: the
  merge is then wrong, as `daikin_merge` shows, and what remains is liveness;
* the three violated properties: their counterexamples are the result.

Induction over data is out of reach too: what a recursive function computes for
every input. No module here declares a RECURSIVE operator; where the code folds over a
list, the proof is about the steps of the loop.

## 5. Not modelled

* `setup_guide()`, `config_schema()`, logging, wording of errors: text.
* Aurora: the bytes of a frame and the CRC (right or wrong); several callers
  of `get_data()` beside a scan (each is modelled, not both at once); pyserial missing.
* Replies that outlive the closing of their port.
* Alfen's numeric mapping, and so what a reading is worth when a read got another
  status than 200 and 401.
* The abstract classes of `base.py`: they have no state, and what they promise is
  stated as properties of the drivers.
* The harness's output, and drivers of other packages beyond what they return.

## 6. Plan

Done: Aurora (core, two callers, the bus with discovery and late replies), Daikin
with its abstract contract and delayed writes, Alfen with the certificate store,
LAN scan (sweep and pool), HomeWizard with the data contracts, registry and
harness; each checked, and its safety properties proved. Next:

1. `DriverContract`: status and poll results of any driver as one abstract
   specification, refined by each.
2. The Daikin setters beside a poller: a weaker form of `CacheCoherent` for
   threads that overlap, which says what a late GET can and cannot bring back.
