---------------------------- MODULE AuroraRS485 ----------------------------
(***************************************************************************)
(* The polling side of ionemo_drivers/pv/aurora_rs485.py: get_data() called *)
(* by several threads of the host application's pool, the lock they take    *)
(* with a timeout, the serial port object they share, and the caller that   *)
(* gives up on the lock and resets the port WITHOUT holding it.             *)
(*                                                                          *)
(* Time is counted in seconds.  Three things take time: waiting for the     *)
(* lock (at most LockWait), one request/reply exchange on the bus and the   *)
(* closing of a port (at most CommandTime each); everything else happens    *)
(* between two ticks.                                                       *)
(***************************************************************************)
EXTENDS Naturals

CONSTANTS
    Threads,      \* pool threads that may call get_data()
    NoThread,     \* the lock's owner when it is free
    LockWait,     \* self._lock.acquire(timeout=10.0)
    CommandTime   \* longest exchange: pyserial's timeout=1, more if it stalls

ASSUME ThreadAssumption == NoThread \notin Threads
ASSUME TimeAssumption == LockWait \in Nat /\ CommandTime \in Nat

\* Mutant: every read is retried once.
NReadsRetried == 16

NReads == 8            \* power, temp, daily, total, dcV, dcA, gridV, freq

Required == {1, 3, 4}  \* power_w, daily_wh, total_wh

\* The RS-485 line as the driver meets it; it may change at every tick.  The
\* "noisy" line garbles, delays or loses replies, or lets them through.
Lines == {"answering", "asleep", "noisy", "unplugged"}

VARIABLES
    pc,               \* where each thread is inside get_data()
    age,              \* seconds since each thread's current call began
    lock,             \* owner of self._lock
    serial,           \* self._serial: no object, an open port, a dead one
                      \* (closed, or its adapter was pulled)
    wire,             \* the port object the current read() blocks on
    cmd,              \* the exchange under way, 1..NReads (owner's frame)
    missing,          \* a required value came back None (owner's frame)
    held,             \* seconds spent in the current exchange
    lastError,        \* self._last_error; "" is Python's empty string
    succeeded,        \* self._last_success is not None
    portUnavailable,  \* self._port_unavailable
    lastCall,         \* history: result of the call that returned last
    line

driver == <<serial, lastError, succeeded, portUnavailable>>
frame  == <<wire, cmd, missing, held>>
vars == <<pc, age, lock, driver, frame, lastCall, line>>

Errors == {"none", "", "no reply", "crc", "no required", "raised",
           "cannot open", "reset"}

OwnerSteps == {"check", "open", "opened", "send", "read", "evaluate"}
ResetSteps == {"close", "forget", "report"}

Values ==
    /\ pc \in [Threads -> {"idle", "acquire", "done"} \cup OwnerSteps
                             \cup ResetSteps]
    /\ age \in [Threads -> Nat]
    /\ lock \in Threads \cup {NoThread}
    /\ serial \in {"none", "open", "dead"}
    /\ wire \in {"none", "open", "dead"}
    /\ cmd \in 1..NReads + 1
    /\ held \in Nat
    /\ lastError \in Errors
    /\ lastCall \in {"never", "data", "failed"}
    /\ line \in Lines

Flags ==
    /\ missing \in BOOLEAN
    /\ succeeded \in BOOLEAN
    /\ portUnavailable \in BOOLEAN

\* The type invariant: the fields of the driver object, the frames of the
\* threads inside get_data() and the line hold values of their kind.
TypeOK == Values /\ Flags

Init ==
    /\ pc = [t \in Threads |-> "idle"]
    /\ age = [t \in Threads |-> 0]
    /\ lock = NoThread
    /\ serial = "none" /\ wire = "none"
    /\ cmd = 1 /\ missing = FALSE /\ held = 0
    /\ lastError = "none" /\ succeeded = FALSE /\ portUnavailable = FALSE
    /\ lastCall = "never"
    /\ line \in Lines

\* get_status(): an empty error string is falsy and counts as healthy.
Status ==
    IF portUnavailable THEN "error"
    ELSE IF lastError \notin {"none", ""} \/ ~succeeded THEN "sleeping"
    ELSE "connected"

----------------------------------------------------------------------------
(* Entering get_data() and getting the lock, or giving up on it. *)

GoTo(t, label) == pc' = [pc EXCEPT ![t] = label]

Call(t) ==
    /\ pc[t] = "idle"
    /\ GoTo(t, "acquire")
    /\ UNCHANGED <<age, lock, driver, frame, lastCall, line>>

Acquire(t) ==
    /\ pc[t] = "acquire" /\ lock = NoThread
    /\ lock' = t
    /\ GoTo(t, "check")
    /\ UNCHANGED <<age, driver, frame, lastCall, line>>

\* Mutant: the result of acquire() is ignored.
LockTimeoutIgnored(t) ==
    /\ pc[t] = "acquire" /\ lock # NoThread /\ age[t] = LockWait
    /\ GoTo(t, "check")
    /\ UNCHANGED <<age, lock, driver, frame, lastCall, line>>

LockTimeout(t) ==
    /\ pc[t] = "acquire" /\ lock # NoThread /\ age[t] = LockWait
    /\ GoTo(t, "close")
    /\ UNCHANGED <<age, lock, driver, frame, lastCall, line>>

\* The call returns; "finally: self._lock.release()" if it owned the lock.
Leave(t, result) ==
    /\ GoTo(t, "done")
    /\ age' = [age EXCEPT ![t] = 0]
    /\ lastCall' = result

\* Mutant: the lock is not released (no finally).
ReleaseLeaks(t, result) ==
    /\ Leave(t, result)
    /\ wire' = "none" /\ cmd' = 1 /\ missing' = FALSE /\ held' = 0
    /\ UNCHANGED lock

Release(t, result) ==
    /\ Leave(t, result)
    /\ lock' = NoThread
    /\ wire' = "none" /\ cmd' = 1 /\ missing' = FALSE /\ held' = 0

----------------------------------------------------------------------------
(* _reset_serial_on_lock_timeout(): three statements, none under the lock. *)

\* Mutant: a read blocked on the port is not woken.
KillUnnoticed(condition) ==
    /\ serial' = IF condition /\ serial = "open" THEN "dead" ELSE serial
    /\ UNCHANGED wire

\* The shared port object stops working: a read blocked on it raises.
Kill(condition) ==
    /\ serial' = IF condition /\ serial = "open" THEN "dead" ELSE serial
    /\ wire' = IF condition /\ wire = "open" THEN "dead" ELSE wire

ResetClose(t) ==
    /\ pc[t] = "close"
    /\ Kill(serial # "none")
    /\ GoTo(t, "forget")
    /\ UNCHANGED <<age, lock, cmd, missing, held, lastError, succeeded,
                   portUnavailable, lastCall, line>>

ResetForget(t) ==
    /\ pc[t] = "forget"
    /\ serial' = "none"
    /\ GoTo(t, "report")
    /\ UNCHANGED <<age, lock, frame, lastError, succeeded, portUnavailable,
                   lastCall, line>>

ResetReport(t) ==
    /\ pc[t] = "report"
    /\ lastError' = "reset"
    /\ Leave(t, "failed")
    /\ UNCHANGED <<lock, frame, serial, succeeded, portUnavailable, line>>

----------------------------------------------------------------------------
(* The body of get_data(), executed by the owner of the lock. *)

CheckPort(t) ==
    /\ pc[t] = "check"
    /\ GoTo(t, IF serial = "none" THEN "open" ELSE "send")
    /\ UNCHANGED <<age, lock, driver, frame, lastCall, line>>

\* The port object is assigned, and get_status() may run, before the flag is
\* cleared: get_status() takes no lock.
OpenPort(t) ==
    /\ pc[t] = "open" /\ line # "unplugged"
    /\ serial' = "open"
    /\ GoTo(t, "opened")
    /\ UNCHANGED <<age, lock, frame, lastError, succeeded, portUnavailable,
                   lastCall, line>>

\* Mutant: a reopened port leaves _port_unavailable set.
PortStillUnavailable(t) ==
    /\ pc[t] = "opened"
    /\ GoTo(t, "send")
    /\ UNCHANGED <<age, lock, driver, frame, lastCall, line>>

PortAvailable(t) ==
    /\ pc[t] = "opened"
    /\ portUnavailable' = FALSE
    /\ GoTo(t, "send")
    /\ UNCHANGED <<age, lock, frame, serial, lastError, succeeded, lastCall,
                   line>>

OpenFails(t) ==
    /\ pc[t] = "open" /\ line = "unplugged"
    /\ lastError' = "cannot open" /\ portUnavailable' = TRUE
    /\ Release(t, "failed")
    /\ UNCHANGED <<serial, succeeded, line>>

\* "except Exception": every exception of the body ends the call here.
Raise(t, message) ==
    /\ lastError' = message /\ serial' = "none"
    /\ Release(t, "failed")
    /\ UNCHANGED <<succeeded, portUnavailable, line>>

\* "assert self._serial is not None": str(AssertionError()) is empty.
AssertFails(t) ==
    /\ pc[t] = "send" /\ serial = "none"
    /\ Raise(t, "")

PortNotOpen(t) ==
    /\ pc[t] = "send" /\ serial = "dead"
    /\ Raise(t, "raised")

Send(t) ==
    /\ pc[t] = "send" /\ serial = "open"
    /\ wire' = serial /\ held' = 0
    /\ GoTo(t, "read")
    /\ UNCHANGED <<age, lock, driver, cmd, missing, lastCall, line>>

\* Mutant: one read too many.
NextReadOffByOne(t, absent) ==
    /\ missing' = (missing \/ (absent /\ cmd \in Required))
    /\ cmd' = cmd + 1
    /\ wire' = "none" /\ held' = 0
    /\ GoTo(t, IF cmd > NReads THEN "evaluate" ELSE "send")
    /\ UNCHANGED <<age, lock, serial, succeeded, portUnavailable, lastCall,
                   line>>

\* _send_command() returned: go on to the next of the NReads reads.
NextRead(t, absent) ==
    /\ missing' = (missing \/ (absent /\ cmd \in Required))
    /\ cmd' = cmd + 1
    /\ wire' = "none" /\ held' = 0
    /\ GoTo(t, IF cmd = NReads THEN "evaluate" ELSE "send")
    /\ UNCHANGED <<age, lock, serial, succeeded, portUnavailable, lastCall,
                   line>>

Reply(t) ==
    /\ pc[t] = "read" /\ wire = "open" /\ line \in {"answering", "noisy"}
    /\ NextRead(t, FALSE)
    /\ UNCHANGED lastError

BadChecksum(t) ==
    /\ pc[t] = "read" /\ wire = "open" /\ line = "noisy"
    /\ lastError' = "crc"
    /\ NextRead(t, TRUE)

\* read(8) timed out; the message dereferences self._serial once more.
TimedOut(t) ==
    /\ pc[t] = "read" /\ held = CommandTime
    /\ wire = "open" /\ line \in {"asleep", "noisy"}

ShortRead(t) ==
    /\ TimedOut(t) /\ serial # "none"
    /\ lastError' = "no reply"
    /\ NextRead(t, TRUE)

ShortReadNoPort(t) ==
    /\ TimedOut(t) /\ serial = "none"
    /\ Raise(t, "raised")

\* Mutant: the exception's text is empty.
ReadRaisesSilently(t) ==
    /\ pc[t] = "read" /\ wire = "dead"
    /\ Raise(t, "")

ReadRaises(t) ==
    /\ pc[t] = "read" /\ wire = "dead"
    /\ Raise(t, "raised")

Incomplete(t) ==
    /\ pc[t] = "evaluate" /\ missing
    /\ lastError' = IF lastError = "none" THEN "no required" ELSE lastError
    /\ Release(t, "failed")
    /\ UNCHANGED <<serial, succeeded, portUnavailable, line>>

Complete(t) ==
    /\ pc[t] = "evaluate" /\ ~missing
    /\ lastError' = "none" /\ succeeded' = TRUE
    /\ Release(t, "data")
    /\ UNCHANGED <<serial, portUnavailable, line>>

----------------------------------------------------------------------------
(* The world around the driver. *)

\* Threads run between two ticks; a tick needs every call to be waiting.  The
\* scheduler polls every few seconds: a thread calls at most once per tick.
\* A healthy inverter answers in milliseconds; a noisy line may be slow.
Prompt == wire = "open" /\ line = "answering"

\* close() may be slow to return after the port has stopped working: at most
\* as long as an exchange.  The next statement forgets the port object.
Closing(t) == pc[t] = "forget" /\ age[t] < LockWait + CommandTime

\* Mutant: acquire() has no timeout.
WaitingForever(t) ==
    \/ pc[t] \in {"idle", "done"}
    \/ pc[t] = "acquire" /\ lock # NoThread
    \/ pc[t] = "read" /\ held < CommandTime /\ ~Prompt
    \/ Closing(t)

Waiting(t) ==
    \/ pc[t] \in {"idle", "done"}
    \/ pc[t] = "acquire" /\ lock # NoThread /\ age[t] < LockWait
    \/ pc[t] = "read" /\ held < CommandTime /\ ~Prompt
    \/ Closing(t)

Tick ==
    /\ \A t \in Threads : Waiting(t)
    /\ pc' = [t \in Threads |-> IF pc[t] = "done" THEN "idle" ELSE pc[t]]
    /\ age' = [t \in Threads |->
                 IF pc[t] \in {"idle", "done"} THEN 0 ELSE age[t] + 1]
    /\ held' = IF \E t \in Threads : pc[t] = "read" THEN held + 1 ELSE held
    /\ line' \in Lines
    /\ Kill(line' = "unplugged")
    /\ UNCHANGED <<lock, cmd, missing, lastError, succeeded, portUnavailable,
                   lastCall>>

Read(t) ==
    \/ Reply(t) \/ BadChecksum(t) \/ ShortRead(t) \/ ShortReadNoPort(t)
    \/ ReadRaises(t)
Body(t) ==
    \/ CheckPort(t) \/ OpenPort(t) \/ PortAvailable(t) \/ OpenFails(t)
    \/ AssertFails(t) \/ PortNotOpen(t) \/ Send(t) \/ Read(t)
    \/ Incomplete(t) \/ Complete(t)
Reset(t) == ResetClose(t) \/ ResetForget(t) \/ ResetReport(t)

Step(t) == Acquire(t) \/ LockTimeout(t) \/ Body(t) \/ Reset(t)

Next == (\E t \in Threads : Call(t) \/ Step(t)) \/ Tick

Spec == Init /\ [][Next]_vars

\* The scheduler keeps polling, running threads run, and time passes.
Fairness ==
    /\ WF_vars(Tick)
    /\ \A t \in Threads : WF_vars(Step(t)) /\ WF_vars(Call(t))

FairSpec == Spec /\ Fairness

----------------------------------------------------------------------------
(* Properties *)

\* The lock is never leaked and never shared: a thread is between acquire()
\* and release() exactly when it owns self._lock, and at most one exchange is
\* on the bus (get_data, lines 369-436).
OneOwner ==
    /\ \A t \in Threads : pc[t] \in OwnerSteps <=> lock = t
    /\ wire # "none" <=> \E t \in Threads : pc[t] = "read"

\* However many callers queue on the lock, a call lasts at most the lock's
\* timeout plus one complete read of the inverter.
CallBounded ==
    \A t \in Threads : age[t] <= LockWait + NReads * CommandTime

\* Two callers never reset the port under each other: a full read of a silent
\* inverter is over before the other caller's lock timeout.
NoReset == \A t \in Threads : pc[t] \notin ResetSteps

\* get_status() says "error" beside an open port at one moment only: between
\* the two statements of the call that has just opened it (lines 381 and 394).
\* No return, reset or unplugged adapter leaves the flag behind: a silent
\* inverter behind a port that opened is "sleeping".
ErrorMeansNoPort ==
    portUnavailable /\ serial # "none" => \E t \in Threads : pc[t] = "opened"

\* When the call that returned last failed, get_status() does not report the
\* inverter as connected once no call is in progress.
FailedPollNotConnected ==
    (\A t \in Threads : pc[t] \in {"idle", "done"}) /\ lastCall = "failed"
        => Status # "connected"

\* Every call of get_data() returns, whatever the line does and however the
\* callers overlap.
EveryCallReturns == \A t \in Threads : pc[t] = "acquire" ~> pc[t] = "done"

\* An inverter that answers again is reported as connected again and again,
\* although callers that time out keep resetting the port under each other.
Recovery == <>[](line = "answering") => []<>(Status = "connected")
=============================================================================
