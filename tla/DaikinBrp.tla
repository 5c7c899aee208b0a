----------------------------- MODULE DaikinBrp -----------------------------
(***************************************************************************)
(* ionemo_drivers/ac/daikin_brp.py as threads meet it: the poller's         *)
(* get_data() and the controllers' setters share, without a lock, the       *)
(* cached control response, last_error and the adapter itself.  An HTTP     *)
(* request is served by the adapter in one step and its reply is processed  *)
(* by the driver in a later one; either may fail.                           *)
(***************************************************************************)
EXTENDS DaikinControl

CONSTANTS
    Pollers, Controllers,           \* threads that call get_data(), setters
    Modes, Temperatures, Speeds,    \* arguments the setters are called with
    RemoteStates,                   \* states the infrared remote can set
    InitialUnits,                   \* states the unit may be found in
    Delays,                         \* a write may arrive after its timeout
    NoCache, NoJob                  \* None

ASSUME ArgumentAssumption ==
    /\ Modes \subseteq ContractModes
    /\ Temperatures \subseteq Int
    /\ Speeds \subseteq FanSpeeds
    /\ RemoteStates \subseteq Controls /\ InitialUnits \subseteq Controls
    /\ NoCache \notin Controls /\ Delays \in BOOLEAN

Threads == Pollers \cup Controllers

Jobs == ({"mode"} \X Modes) \cup ({"temp"} \X Temperatures)
            \cup ({"fan"} \X Speeds)
ASSUME JobAssumption == NoJob \notin Jobs

VARIABLES
    pc,         \* where each thread is
    job,        \* the setter call a thread is executing, NoJob for get_data()
    seen,       \* the control response or cache copy in a thread's frame
    sensorOk,   \* get_data(): the first of its two GETs succeeded
    cache,      \* self._control_cache
    fresh,      \* self._control_cache_ts is less than 60 s old
    failing,    \* self._last_error is set
    succeeded,  \* self._last_success is not None
    lastPoll,   \* history: what the last get_data() call returned
    unit,       \* the adapter's control fields
    late,       \* a write the adapter has not applied yet, its caller gone
    healthy     \* the adapter answers GETs with ret=OK

status == <<failing, succeeded, lastPoll>>
vars == <<pc, job, seen, sensorOk, cache, fresh, status, unit, late, healthy>>

Labels == {"idle", "sensor", "look", "copy", "get", "reply", "map",
           "send", "accepted", "rejected"}

\* The type invariant: the cache and the frames hold whole control responses.
TypeOK ==
    /\ pc \in [Threads -> Labels]
    /\ job \in [Threads -> Jobs \cup {NoJob}]
    /\ seen \in [Threads -> Controls \cup {NoCache}]
    /\ sensorOk \in [Threads -> BOOLEAN]
    /\ cache \in Controls \cup {NoCache}
    /\ unit \in Controls /\ late \in Controls \cup {NoCache}
    /\ {fresh, failing, succeeded, healthy} \subseteq BOOLEAN
    /\ lastPoll \in {"never", "data", "failed"}

Init ==
    /\ pc = [t \in Threads |-> "idle"]
    /\ job = [t \in Threads |-> NoJob]
    /\ seen = [t \in Threads |-> NoCache]
    /\ sensorOk = [t \in Threads |-> TRUE]
    /\ cache = NoCache /\ fresh = FALSE
    /\ failing = FALSE /\ succeeded = FALSE /\ lastPoll = "never"
    /\ unit \in InitialUnits /\ late = NoCache
    /\ healthy \in BOOLEAN

\* get_status()
Status == IF failing THEN "error"
          ELSE IF ~succeeded THEN "disabled" ELSE "connected"

GoTo(t, label) == pc' = [pc EXCEPT ![t] = label]

\* A call returns and its frame is gone.
Return(t) ==
    /\ GoTo(t, "idle")
    /\ job' = [job EXCEPT ![t] = NoJob]
    /\ seen' = [seen EXCEPT ![t] = NoCache]
    /\ sensorOk' = [sensorOk EXCEPT ![t] = TRUE]

Polling(t) == job[t] = NoJob

\* get_data() returned None.
PollFailed(t) == lastPoll' = IF Polling(t) THEN "failed" ELSE lastPoll

----------------------------------------------------------------------------
(* get_data() *)

StartPoll(t) ==
    /\ pc[t] = "idle"
    /\ GoTo(t, "sensor")
    /\ UNCHANGED <<job, seen, sensorOk, cache, fresh, status, unit, late, healthy>>

\* A failed sensor GET does not stop the control GET.
Sensor(t) ==
    /\ pc[t] = "sensor"
    /\ sensorOk' = [sensorOk EXCEPT ![t] = healthy]
    /\ failing' = (failing \/ ~healthy)
    /\ GoTo(t, "get")
    /\ UNCHANGED <<job, seen, cache, fresh, succeeded, lastPoll, unit, late, healthy>>

MapData(t) ==
    /\ pc[t] = "map" /\ sensorOk[t]
    /\ failing' = FALSE /\ succeeded' = TRUE /\ lastPoll' = "data"
    /\ Return(t)
    /\ UNCHANGED <<cache, fresh, unit, late, healthy>>

SensorMissing(t) ==
    /\ pc[t] = "map" /\ ~sensorOk[t]
    /\ PollFailed(t)
    /\ Return(t)
    /\ UNCHANGED <<cache, fresh, failing, succeeded, unit, late, healthy>>

\* float(htemp) fails.
InvalidReading(t) ==
    /\ pc[t] = "map" /\ sensorOk[t]
    /\ failing' = TRUE
    /\ PollFailed(t)
    /\ Return(t)
    /\ UNCHANGED <<cache, fresh, succeeded, unit, late, healthy>>

----------------------------------------------------------------------------
(* _get(_PATH_CONTROL_INFO) *)

GetServed(t) ==
    /\ pc[t] = "get" /\ healthy
    /\ seen' = [seen EXCEPT ![t] = unit]
    /\ GoTo(t, "reply")
    /\ UNCHANGED <<job, sensorOk, cache, fresh, status, unit, late, healthy>>

\* Mutant: any successful GET clears the error.
GetReplyClearsError(t) ==
    /\ pc[t] = "reply"
    /\ cache' = seen[t] /\ fresh' = TRUE /\ failing' = FALSE
    /\ GoTo(t, IF Polling(t) THEN "map" ELSE "send")
    /\ UNCHANGED <<job, seen, sensorOk, succeeded, lastPoll, unit, late, healthy>>

\* Mutant: a poll leaves a cache that is already there alone.
GetReplyKeepsCache(t) ==
    /\ pc[t] = "reply"
    /\ cache' = (IF cache = NoCache THEN seen[t] ELSE cache) /\ fresh' = TRUE
    /\ GoTo(t, IF Polling(t) THEN "map" ELSE "send")
    /\ UNCHANGED <<job, seen, sensorOk, status, unit, late, healthy>>

GetReply(t) ==
    /\ pc[t] = "reply"
    /\ cache' = seen[t] /\ fresh' = TRUE
    /\ GoTo(t, IF Polling(t) THEN "map" ELSE "send")
    /\ UNCHANGED <<job, seen, sensorOk, status, unit, late, healthy>>

GetFails(t) ==
    /\ pc[t] \in {"get", "reply"} /\ ~healthy
    /\ failing' = TRUE
    /\ PollFailed(t)
    /\ Return(t)
    /\ UNCHANGED <<cache, fresh, succeeded, unit, late, healthy>>

----------------------------------------------------------------------------
(* set_mode(), set_temperature(), set_fan_speed() *)

StartSetter(t) ==
    /\ pc[t] = "idle"
    /\ \E j \in Jobs : job' = [job EXCEPT ![t] = j]
    /\ GoTo(t, "look")
    /\ UNCHANGED <<seen, sensorOk, cache, fresh, status, unit, late, healthy>>

\* _get_control_cached(): the cache is tested here and copied in "copy".
Look(t) ==
    /\ pc[t] = "look"
    /\ GoTo(t, IF cache # NoCache /\ fresh THEN "copy" ELSE "get")
    /\ UNCHANGED <<job, seen, sensorOk, cache, fresh, status, unit, late, healthy>>

Copy(t) ==
    /\ pc[t] = "copy" /\ cache # NoCache
    /\ seen' = [seen EXCEPT ![t] = cache]
    /\ GoTo(t, "send")
    /\ UNCHANGED <<job, sensorOk, cache, fresh, status, unit, late, healthy>>

\* dict(None): another thread has invalidated the cache since the test.
CopyRaises(t) ==
    /\ pc[t] = "copy" /\ cache = NoCache
    /\ failing' = TRUE
    /\ Return(t)
    /\ UNCHANGED <<cache, fresh, succeeded, lastPoll, unit, late, healthy>>

Payload(t) == Merge(seen[t], job[t])

SetServed(t) ==
    /\ pc[t] = "send" /\ healthy
    /\ unit' = Payload(t)
    /\ GoTo(t, "accepted")
    /\ UNCHANGED <<job, seen, sensorOk, cache, fresh, status, late, healthy>>

\* ret=PARAM NG
SetRejected(t) ==
    /\ pc[t] = "send"
    /\ GoTo(t, "rejected")
    /\ UNCHANGED <<job, seen, sensorOk, cache, fresh, status, unit, late, healthy>>

SetConfirmed(t) ==
    /\ pc[t] = "accepted"
    /\ cache' = Payload(t) /\ fresh' = TRUE
    /\ Return(t)
    /\ UNCHANGED <<status, unit, late, healthy>>

\* A request that timed out in the adapter's hands may still be applied.
GivenUp(t) ==
    late' \in IF Delays /\ pc[t] = "send" THEN {late, Payload(t)} ELSE {late}

\* Mutant: a failed write leaves the cache as it was.
SetFailsKeepsCache(t) ==
    /\ \/ pc[t] = "rejected"
       \/ pc[t] \in {"send", "accepted"} /\ ~healthy
    /\ failing' = TRUE
    /\ GivenUp(t)
    /\ Return(t)
    /\ UNCHANGED <<cache, fresh, succeeded, lastPoll, unit, healthy>>

\* The write was rejected, or it timed out: before it reached the adapter, after
\* the adapter had applied it, or on its way.
SetFails(t) ==
    /\ \/ pc[t] = "rejected"
       \/ pc[t] \in {"send", "accepted"} /\ ~healthy
    /\ cache' = NoCache
    /\ failing' = TRUE
    /\ GivenUp(t)
    /\ Return(t)
    /\ UNCHANGED <<fresh, succeeded, lastPoll, unit, healthy>>

----------------------------------------------------------------------------
(* The world around the driver. *)

CacheExpires ==
    /\ fresh /\ fresh' = FALSE
    /\ UNCHANGED <<pc, job, seen, sensorOk, cache, status, unit, late, healthy>>

Remote ==
    /\ unit' \in RemoteStates
    /\ UNCHANGED <<pc, job, seen, sensorOk, cache, fresh, status, late, healthy>>

\* A write is applied long after its caller recorded it as failed.
LateWrite ==
    /\ late # NoCache
    /\ unit' = late /\ late' = NoCache
    /\ UNCHANGED <<pc, job, seen, sensorOk, cache, fresh, status, healthy>>

AdapterChange ==
    /\ healthy' = ~healthy
    /\ UNCHANGED <<pc, job, seen, sensorOk, cache, fresh, status, unit, late>>

Get(t) == GetServed(t) \/ GetReply(t) \/ GetFails(t)
Poll(t) == Sensor(t) \/ MapData(t) \/ SensorMissing(t) \/ InvalidReading(t)
Set(t) == \/ Look(t) \/ Copy(t) \/ CopyRaises(t)
          \/ SetServed(t) \/ SetRejected(t) \/ SetConfirmed(t) \/ SetFails(t)
Step(t) == Poll(t) \/ Get(t) \/ Set(t)

Next ==
    \/ \E t \in Pollers : StartPoll(t)
    \/ \E t \in Controllers : StartSetter(t)
    \/ \E t \in Threads : Step(t)
    \/ CacheExpires \/ Remote \/ LateWrite \/ AdapterChange

Spec == Init /\ [][Next]_vars

\* The scheduler keeps polling and calls make progress: every HTTP request has
\* a timeout.
Fairness ==
    /\ \A t \in Pollers : WF_vars(StartPoll(t))
    /\ \A t \in Threads : WF_vars(Step(t))

FairSpec == Spec /\ Fairness

----------------------------------------------------------------------------
(* Properties *)

\* With the calls made one after the other, no write delayed beyond its timeout
\* and nobody using the remote, the
\* cache a setter will build on is what the adapter really holds, across
\* rejected, lost and unacknowledged writes (_send_control).
CacheCoherent ==
    (\A t \in Threads : pc[t] = "idle") /\ cache # NoCache => cache = unit

\* The driver implements the AC contract: each step of the adapter is a setter
\* of ACUnit applied to the unit as it is.
Contract ==
    INSTANCE ACUnit WITH mode <- View(unit).mode, target <- View(unit).target,
        fan <- View(unit).fan, Modes <- Modes, Temperatures <- Temperatures,
        FanSpeeds <- FanSpeeds, Setpoints <- Setpoints,
        Fallback <- FALLBACK_STEMP
ImplementsContract == Contract!Spec

\* After a poll that returned no data get_status() says "error", whatever the
\* setters of other threads do meanwhile.
PollFailureShows ==
    (\A t \in Pollers : pc[t] = "idle") /\ lastPoll = "failed"
        => Status = "error"

\* A setter that raced with the poller or the remote, or whose write arrived
\* after it had been given up, leaves no lasting mark: once the setters are
\* quiet, the unit is left alone and the adapter answers, the polls bring the
\* cache back to what the unit holds.
Quiet == healthy /\ \A t \in Controllers : pc[t] = "idle"
SelfHealing == <>[]Quiet /\ <>[][UNCHANGED unit]_vars => <>[](cache = unit)

\* daikin_brp.md, "Control-info caching": a second setter "reuses the cached
\* state and merges its own change in", so set_temperature() after set_mode()
\* keeps the mode (unless it has to leave "off" or fan mode).
MergeKeepsMode ==
    [][\A t \in Controllers :
          SetServed(t) /\ job[t][1] = "temp" /\ View(unit).mode \notin {"off", "fan"}
              => View(unit').mode = View(unit).mode]_vars
=============================================================================
