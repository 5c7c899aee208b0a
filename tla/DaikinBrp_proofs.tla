-------------------------- MODULE DaikinBrp_proofs --------------------------
(***************************************************************************)
(* What DaikinBrp keeps.  With any threads at all: the types.  With one     *)
(* poller and any setters, any remote and any delays: a failed poll shows.  *)
(* With calls made in turn: the cache is the unit between calls, the driver *)
(* implements the contract ACUnit, and a temperature keeps the mode - each  *)
(* of which the runs show to fail, or to be repaired only later, when       *)
(* threads race.                                                            *)
(***************************************************************************)
EXTENDS DaikinBrp, TLAPS

\* One thread calls get_data(), as the application's scheduler does.
OnePoller == \A t, u \in Pollers : t = u

\* No call overlaps another, nobody uses the remote, no write is delayed.
InTurn ==
    /\ \A t, u \in Threads : t = u
    /\ RemoteStates = {} /\ ~Delays

----------------------------------------------------------------------------
(* The mapping between the wire and the contract. *)

\* Clamping and rounding give a set-point the unit accepts.
LEMMA RoundedIsSetpoint ==
    ASSUME NEW q \in Int
    PROVE  Rounded(q) \in Setpoints
BY DEF Rounded, Setpoints, STEMP_MIN, STEMP_MAX

\* ... and none the unit accepts is nearer.
LEMMA RoundedIsNearest ==
    ASSUME NEW q \in Int
    PROVE  Rounded(q) \in Contract!Nearest(q)
BY RoundedIsSetpoint
   DEF Rounded, Setpoints, STEMP_MIN, STEMP_MAX, Contract!Nearest,
       Contract!Distance

\* The fan speeds of the contract and the wire correspond one to one.
LEMMA FanSpeedsCorrespond ==
    /\ \A s \in FanSpeeds : FAN_TO_DAIKIN[s] \in WireRates
    /\ \A s \in FanSpeeds : FRATE_TO_STR[FAN_TO_DAIKIN[s]] = s
    /\ \A r \in WireRates : FRATE_TO_STR[r] \in FanSpeeds
<1>1. \A s \in FanSpeeds : FAN_TO_DAIKIN[s] \in WireRates
  BY DEF FanSpeeds, FAN_TO_DAIKIN, WireRates
<1>2. \A r \in WireRates : \E s \in FanSpeeds : FAN_TO_DAIKIN[s] = r
  BY DEF FanSpeeds, FAN_TO_DAIKIN, WireRates
<1>3. \A s, u \in FanSpeeds : FAN_TO_DAIKIN[s] = FAN_TO_DAIKIN[u] => s = u
  BY DEF FanSpeeds, FAN_TO_DAIKIN
<1>4. ASSUME NEW r \in WireRates
      PROVE  FRATE_TO_STR[r] \in FanSpeeds /\ FAN_TO_DAIKIN[FRATE_TO_STR[r]] = r
  <2>1. FRATE_TO_STR[r] = CHOOSE s \in FanSpeeds : FAN_TO_DAIKIN[s] = r
    BY DEF FRATE_TO_STR
  <2>2. QED
    BY <1>2, <2>1
<1>5. QED
  BY <1>1, <1>3, <1>4

\* set_mode() merges into a whole payload and changes the contract's mode.
LEMMA ModeMerged ==
    ASSUME NEW c \in Controls, NEW m \in ContractModes
    PROVE  /\ WithMode(c, m) \in Controls
           /\ View(WithMode(c, m)) =
                [mode |-> m,
                 target |-> IF m = "fan" THEN FALLBACK_STEMP ELSE View(c).target,
                 fan |-> View(c).fan]
<1> USE DEF Controls
<1>1. MODE_TO_DAIKIN[m] \in [pow : {"0", "1"}, mode : WireModes]
  BY DEF ContractModes, MODE_TO_DAIKIN, WireModes
<1>2. WithMode(c, m) \in Controls
  <2> DEFINE w == MODE_TO_DAIKIN[m]
             st == IF m = "fan" THEN NO_SETPOINT
                   ELSE IF c.stemp = NO_SETPOINT THEN FALLBACK_STEMP ELSE c.stemp
  <2>1. st \in Setpoints \cup {NO_SETPOINT}
    BY DEF FALLBACK_STEMP, Setpoints, STEMP_MIN, STEMP_MAX
  <2>2. WithMode(c, m) = [c EXCEPT !.pow = w.pow, !.mode = w.mode, !.stemp = st]
    BY DEF WithMode
  <2>3. w \in [pow : {"0", "1"}, mode : WireModes]
    BY <1>1
  <2> HIDE DEF w, st
  <2>4. QED
    BY <2>1, <2>2, <2>3
<1> USE DEF ContractModes, WithMode, MODE_TO_DAIKIN, WireModes,
            FALLBACK_STEMP, NO_SETPOINT, Setpoints, STEMP_MIN, STEMP_MAX
<1>3. View(WithMode(c, m)).mode = m
  BY <1>1, <1>2 DEF View, MODE_TO_STR
<1>4. View(WithMode(c, m)).target = IF m = "fan" THEN FALLBACK_STEMP
                                    ELSE View(c).target
  BY <1>1, <1>2 DEF View
<1>5. View(WithMode(c, m)).fan = View(c).fan
  BY <1>1, <1>2 DEF View
<1>6. QED
  BY <1>2, <1>3, <1>4, <1>5 DEF View

\* set_temperature() turns the unit on and leaves fan mode.
LEMMA TemperatureMerged ==
    ASSUME NEW c \in Controls, NEW q \in Int
    PROVE  /\ WithTemperature(c, q) \in Controls
           /\ View(WithTemperature(c, q)).target = Rounded(q)
           /\ View(WithTemperature(c, q)).fan = View(c).fan
           /\ View(c).mode = "off" =>
                View(WithTemperature(c, q)).mode \in {"auto", "cool", "heat", "dry"}
           /\ View(c).mode = "fan" => View(WithTemperature(c, q)).mode = "auto"
           /\ View(c).mode \notin {"off", "fan"} =>
                View(WithTemperature(c, q)).mode = View(c).mode
<1> USE RoundedIsSetpoint
    DEF Controls, WithTemperature, WireModes, NO_SETPOINT, Setpoints, STEMP_MIN,
        STEMP_MAX
<1>1. WithTemperature(c, q) \in Controls
  OBVIOUS
<1>2. QED
  BY <1>1 DEF View, MODE_TO_STR

\* set_fan_speed() changes the fan speed only.
LEMMA FanMerged ==
    ASSUME NEW c \in Controls, NEW s \in FanSpeeds
    PROVE  /\ WithFanSpeed(c, s) \in Controls
           /\ View(WithFanSpeed(c, s)) =
                [mode |-> View(c).mode, target |-> View(c).target, fan |-> s]
BY FanSpeedsCorrespond DEF Controls, WithFanSpeed, View

\* What a setter sends is a whole control payload again.
LEMMA MergedIsControl ==
    ASSUME NEW c \in Controls, NEW j \in Jobs
    PROVE  Merge(c, j) \in Controls
<1>1. CASE j \in {"mode"} \X Modes
  BY <1>1, ModeMerged, ArgumentAssumption DEF Merge
<1>2. CASE j \in {"temp"} \X Temperatures
  BY <1>2, TemperatureMerged, ArgumentAssumption DEF Merge
<1>3. CASE j \in {"fan"} \X Speeds
  BY <1>3, FanMerged, ArgumentAssumption DEF Merge
<1>4. QED
  BY <1>1, <1>2, <1>3 DEF Jobs

----------------------------------------------------------------------------
(* The invariants. *)

\* A thread inside a call holds what the call will use: a setter its job, and
\* whoever is past the GET or the cache a whole control response.
Frames ==
    \A t \in Threads :
        /\ pc[t] \in {"look", "copy", "send", "accepted", "rejected"}
               => job[t] # NoJob
        /\ pc[t] \in {"idle", "sensor", "map"} => job[t] = NoJob
        /\ pc[t] \in {"reply", "map", "send", "accepted", "rejected"}
               => seen[t] \in Controls
        /\ pc[t] # "idle" /\ job[t] = NoJob => t \in Pollers

\* The error a poll met stays until that poller's own next success.
FailedPoll ==
    /\ lastPoll = "failed" => failing
    /\ \A t \in Threads : ~sensorOk[t] => failing /\ t \in Pollers

\* The frame and the cache keep up with the unit, except between the adapter's
\* acceptance of a write and the caller's receipt of it.
Coherent ==
    /\ late = NoCache
    /\ \A t \in Threads :
          /\ pc[t] \in {"reply", "map", "send"} => seen[t] = unit
          /\ pc[t] = "accepted" => unit = Payload(t)
    /\ (\A t \in Threads : pc[t] # "accepted") /\ cache # NoCache => cache = unit

\* The type invariant, with its Booleans apart.
Values ==
    /\ pc \in [Threads -> Labels]
    /\ job \in [Threads -> Jobs \cup {NoJob}]
    /\ seen \in [Threads -> Controls \cup {NoCache}]
    /\ cache \in Controls \cup {NoCache}
    /\ unit \in Controls /\ late \in Controls \cup {NoCache}
    /\ lastPoll \in {"never", "data", "failed"}

Flags ==
    /\ sensorOk \in [Threads -> BOOLEAN]
    /\ fresh \in BOOLEAN /\ failing \in BOOLEAN
    /\ succeeded \in BOOLEAN /\ healthy \in BOOLEAN

\* The two parts are TypeOK; the provers treat Booleans apart from the rest.
LEMMA TypeParts == TypeOK <=> Values /\ Flags
BY Zenon DEF TypeOK, Values, Flags

\* Every step keeps the kinds of the values that are not Booleans.
LEMMA ValuesPreserved ==
    ASSUME Values, Frames, [Next]_vars
    PROVE  Values'
<1> USE ArgumentAssumption, JobAssumption, MergedIsControl DEF Values, Frames, Labels,
     Threads, status
<1>1. ASSUME NEW t \in Pollers, StartPoll(t) PROVE Values'
  BY <1>1 DEF StartPoll, GoTo
<1>2. ASSUME NEW t \in Controllers, StartSetter(t) PROVE Values'
  BY <1>2 DEF StartSetter, GoTo
<1>3. ASSUME NEW t \in Threads, Sensor(t) PROVE Values'
  BY <1>3 DEF Sensor, GoTo
<1>4. ASSUME NEW t \in Threads, MapData(t) PROVE Values'
  BY <1>4 DEF MapData, GoTo, Return
<1>5. ASSUME NEW t \in Threads, SensorMissing(t) PROVE Values'
  BY <1>5 DEF SensorMissing, GoTo, Return, PollFailed, Polling
<1>6. ASSUME NEW t \in Threads, InvalidReading(t) PROVE Values'
  BY <1>6 DEF InvalidReading, GoTo, Return, PollFailed, Polling
<1>7. ASSUME NEW t \in Threads, GetServed(t) PROVE Values'
  BY <1>7 DEF GetServed, GoTo
<1>8. ASSUME NEW t \in Threads, GetReply(t) PROVE Values'
  BY <1>8 DEF GetReply, GoTo, Polling
<1>9. ASSUME NEW t \in Threads, GetFails(t) PROVE Values'
  BY <1>9 DEF GetFails, GoTo, Return, PollFailed, Polling
<1>10. ASSUME NEW t \in Threads, Look(t) PROVE Values'
  BY <1>10 DEF Look, GoTo
<1>11. ASSUME NEW t \in Threads, Copy(t) PROVE Values'
  BY <1>11 DEF Copy, GoTo
<1>12. ASSUME NEW t \in Threads, CopyRaises(t) PROVE Values'
  BY <1>12 DEF CopyRaises, GoTo, Return
<1>13. ASSUME NEW t \in Threads, SetServed(t) PROVE Values'
  BY <1>13 DEF SetServed, GoTo, Payload
<1>14. ASSUME NEW t \in Threads, SetRejected(t) PROVE Values'
  BY <1>14 DEF SetRejected, GoTo
<1>15. ASSUME NEW t \in Threads, SetConfirmed(t) PROVE Values'
  BY <1>15 DEF SetConfirmed, GoTo, Return, Payload
<1>16. ASSUME NEW t \in Threads, SetFails(t) PROVE Values'
  BY <1>16 DEF SetFails, GoTo, GivenUp, Return, Payload
<1>17. CASE CacheExpires
  BY <1>17 DEF CacheExpires
<1>18. CASE Remote
  BY <1>18 DEF Remote
<1>19. CASE LateWrite
  BY <1>19 DEF LateWrite
<1>20. CASE AdapterChange
  BY <1>20 DEF AdapterChange
<1>21. CASE UNCHANGED vars
  BY <1>21 DEF vars
<1>22. QED
  BY <1>1, <1>2, <1>3, <1>4, <1>5, <1>6, <1>7, <1>8, <1>9, <1>10, <1>11,
     <1>12, <1>13, <1>14, <1>15, <1>16, <1>17, <1>18, <1>19, <1>20, <1>21
     DEF Next, Step, Poll, Get, Set

\* Every step keeps the flags Boolean.
LEMMA FlagsPreserved ==
    ASSUME Flags, [Next]_vars
    PROVE  Flags'
<1> USE ArgumentAssumption DEF Flags, Threads, status
<1>1. ASSUME NEW t \in Pollers, StartPoll(t) PROVE Flags'
  BY <1>1 DEF StartPoll, GoTo
<1>2. ASSUME NEW t \in Controllers, StartSetter(t) PROVE Flags'
  BY <1>2 DEF StartSetter, GoTo
<1>3. ASSUME NEW t \in Threads, Sensor(t) PROVE Flags'
  BY <1>3 DEF Sensor, GoTo
<1>4. ASSUME NEW t \in Threads, MapData(t) PROVE Flags'
  BY <1>4 DEF MapData, GoTo, Return
<1>5. ASSUME NEW t \in Threads, SensorMissing(t) PROVE Flags'
  BY <1>5 DEF SensorMissing, GoTo, Return, PollFailed, Polling
<1>6. ASSUME NEW t \in Threads, InvalidReading(t) PROVE Flags'
  BY <1>6 DEF InvalidReading, GoTo, Return, PollFailed, Polling
<1>7. ASSUME NEW t \in Threads, GetServed(t) PROVE Flags'
  BY <1>7 DEF GetServed, GoTo
<1>8. ASSUME NEW t \in Threads, GetReply(t) PROVE Flags'
  BY <1>8 DEF GetReply, GoTo, Polling
<1>9. ASSUME NEW t \in Threads, GetFails(t) PROVE Flags'
  BY <1>9 DEF GetFails, GoTo, Return, PollFailed, Polling
<1>10. ASSUME NEW t \in Threads, Look(t) PROVE Flags'
  BY <1>10 DEF Look, GoTo
<1>11. ASSUME NEW t \in Threads, Copy(t) PROVE Flags'
  BY <1>11 DEF Copy, GoTo
<1>12. ASSUME NEW t \in Threads, CopyRaises(t) PROVE Flags'
  BY <1>12 DEF CopyRaises, GoTo, Return
<1>13. ASSUME NEW t \in Threads, SetServed(t) PROVE Flags'
  BY <1>13 DEF SetServed, GoTo, Payload
<1>14. ASSUME NEW t \in Threads, SetRejected(t) PROVE Flags'
  BY <1>14 DEF SetRejected, GoTo
<1>15. ASSUME NEW t \in Threads, SetConfirmed(t) PROVE Flags'
  BY <1>15 DEF SetConfirmed, GoTo, Return, Payload
<1>16. ASSUME NEW t \in Threads, SetFails(t) PROVE Flags'
  BY <1>16 DEF SetFails, GoTo, GivenUp, Return, Payload
<1>17. CASE CacheExpires
  BY <1>17 DEF CacheExpires
<1>18. CASE Remote
  BY <1>18 DEF Remote
<1>19. CASE LateWrite
  BY <1>19 DEF LateWrite
<1>20. CASE AdapterChange
  BY <1>20 DEF AdapterChange
<1>21. CASE UNCHANGED vars
  BY <1>21 DEF vars
<1>22. QED
  BY <1>1, <1>2, <1>3, <1>4, <1>5, <1>6, <1>7, <1>8, <1>9, <1>10, <1>11,
     <1>12, <1>13, <1>14, <1>15, <1>16, <1>17, <1>18, <1>19, <1>20, <1>21
     DEF Next, Step, Poll, Get, Set

\* Every step keeps the frames whole.
LEMMA FramesPreserved ==
    ASSUME Values, Frames, [Next]_vars
    PROVE  Frames'
<1> USE ArgumentAssumption, JobAssumption DEF Values, Frames, Labels, Threads, status
<1>1. ASSUME NEW t \in Pollers, StartPoll(t) PROVE Frames'
  BY <1>1 DEF StartPoll, GoTo
<1>2. ASSUME NEW t \in Controllers, StartSetter(t) PROVE Frames'
  BY <1>2 DEF StartSetter, GoTo
<1>3. ASSUME NEW t \in Threads, Sensor(t) PROVE Frames'
  BY <1>3 DEF Sensor, GoTo
<1>4. ASSUME NEW t \in Threads, MapData(t) PROVE Frames'
  BY <1>4 DEF MapData, GoTo, Return
<1>5. ASSUME NEW t \in Threads, SensorMissing(t) PROVE Frames'
  BY <1>5 DEF SensorMissing, GoTo, Return, PollFailed, Polling
<1>6. ASSUME NEW t \in Threads, InvalidReading(t) PROVE Frames'
  BY <1>6 DEF InvalidReading, GoTo, Return, PollFailed, Polling
<1>7. ASSUME NEW t \in Threads, GetServed(t) PROVE Frames'
  BY <1>7 DEF GetServed, GoTo
<1>8. ASSUME NEW t \in Threads, GetReply(t) PROVE Frames'
  BY <1>8 DEF GetReply, GoTo, Polling
<1>9. ASSUME NEW t \in Threads, GetFails(t) PROVE Frames'
  BY <1>9 DEF GetFails, GoTo, Return, PollFailed, Polling
<1>10. ASSUME NEW t \in Threads, Look(t) PROVE Frames'
  BY <1>10 DEF Look, GoTo
<1>11. ASSUME NEW t \in Threads, Copy(t) PROVE Frames'
  BY <1>11 DEF Copy, GoTo
<1>12. ASSUME NEW t \in Threads, CopyRaises(t) PROVE Frames'
  BY <1>12 DEF CopyRaises, GoTo, Return
<1>13. ASSUME NEW t \in Threads, SetServed(t) PROVE Frames'
  BY <1>13 DEF SetServed, GoTo, Payload
<1>14. ASSUME NEW t \in Threads, SetRejected(t) PROVE Frames'
  BY <1>14 DEF SetRejected, GoTo
<1>15. ASSUME NEW t \in Threads, SetConfirmed(t) PROVE Frames'
  BY <1>15 DEF SetConfirmed, GoTo, Return, Payload
<1>16. ASSUME NEW t \in Threads, SetFails(t) PROVE Frames'
  BY <1>16 DEF SetFails, GoTo, GivenUp, Return, Payload
<1>17. CASE CacheExpires
  BY <1>17 DEF CacheExpires
<1>18. CASE Remote
  BY <1>18 DEF Remote
<1>19. CASE LateWrite
  BY <1>19 DEF LateWrite
<1>20. CASE AdapterChange
  BY <1>20 DEF AdapterChange
<1>21. CASE UNCHANGED vars
  BY <1>21 DEF vars
<1>22. QED
  BY <1>1, <1>2, <1>3, <1>4, <1>5, <1>6, <1>7, <1>8, <1>9, <1>10, <1>11,
     <1>12, <1>13, <1>14, <1>15, <1>16, <1>17, <1>18, <1>19, <1>20, <1>21
     DEF Next, Step, Poll, Get, Set

\* With one poller, no success hides the failure of another poll.
LEMMA FailedPollPreserved ==
    ASSUME OnePoller, Values, Flags, Frames, FailedPoll, [Next]_vars
    PROVE  FailedPoll'
<1> USE DEF OnePoller, Values, Flags, Frames, FailedPoll, Threads, status
<1>1. ASSUME NEW t \in Pollers, StartPoll(t) PROVE FailedPoll'
  BY <1>1 DEF StartPoll, GoTo
<1>2. ASSUME NEW t \in Controllers, StartSetter(t) PROVE FailedPoll'
  BY <1>2 DEF StartSetter, GoTo
<1>3. ASSUME NEW t \in Threads, Sensor(t) PROVE FailedPoll'
  BY <1>3 DEF Sensor, GoTo
<1>4. ASSUME NEW t \in Threads, MapData(t) PROVE FailedPoll'
  BY <1>4 DEF MapData, GoTo, Return
<1>5. ASSUME NEW t \in Threads, SensorMissing(t) PROVE FailedPoll'
  BY <1>5 DEF SensorMissing, GoTo, Return, PollFailed, Polling
<1>6. ASSUME NEW t \in Threads, InvalidReading(t) PROVE FailedPoll'
  BY <1>6 DEF InvalidReading, GoTo, Return, PollFailed, Polling
<1>7. ASSUME NEW t \in Threads, GetServed(t) PROVE FailedPoll'
  BY <1>7 DEF GetServed, GoTo
<1>8. ASSUME NEW t \in Threads, GetReply(t) PROVE FailedPoll'
  BY <1>8 DEF GetReply, GoTo, Polling
<1>9. ASSUME NEW t \in Threads, GetFails(t) PROVE FailedPoll'
  BY <1>9 DEF GetFails, GoTo, Return, PollFailed, Polling
<1>10. ASSUME NEW t \in Threads, Look(t) PROVE FailedPoll'
  BY <1>10 DEF Look, GoTo
<1>11. ASSUME NEW t \in Threads, Copy(t) PROVE FailedPoll'
  BY <1>11 DEF Copy, GoTo
<1>12. ASSUME NEW t \in Threads, CopyRaises(t) PROVE FailedPoll'
  BY <1>12 DEF CopyRaises, GoTo, Return
<1>13. ASSUME NEW t \in Threads, SetServed(t) PROVE FailedPoll'
  BY <1>13 DEF SetServed, GoTo, Payload
<1>14. ASSUME NEW t \in Threads, SetRejected(t) PROVE FailedPoll'
  BY <1>14 DEF SetRejected, GoTo
<1>15. ASSUME NEW t \in Threads, SetConfirmed(t) PROVE FailedPoll'
  BY <1>15 DEF SetConfirmed, GoTo, Return, Payload
<1>16. ASSUME NEW t \in Threads, SetFails(t) PROVE FailedPoll'
  BY <1>16 DEF SetFails, GoTo, GivenUp, Return, Payload
<1>17. CASE CacheExpires
  BY <1>17 DEF CacheExpires
<1>18. CASE Remote
  BY <1>18 DEF Remote
<1>19. CASE LateWrite
  BY <1>19 DEF LateWrite
<1>20. CASE AdapterChange
  BY <1>20 DEF AdapterChange
<1>21. CASE UNCHANGED vars
  BY <1>21 DEF vars
<1>22. QED
  BY <1>1, <1>2, <1>3, <1>4, <1>5, <1>6, <1>7, <1>8, <1>9, <1>10, <1>11,
     <1>12, <1>13, <1>14, <1>15, <1>16, <1>17, <1>18, <1>19, <1>20, <1>21
     DEF Next, Step, Poll, Get, Set

\* Called in turn, the threads keep cache, frames and unit together.
LEMMA CoherentPreserved ==
    ASSUME InTurn, Values, Frames, Coherent, [Next]_vars
    PROVE  Coherent'
<1> USE ArgumentAssumption, JobAssumption, MergedIsControl DEF InTurn, Values, Frames,
     Coherent, Payload, Threads, status
<1>1. ASSUME NEW t \in Pollers, StartPoll(t) PROVE Coherent'
  BY <1>1 DEF StartPoll, GoTo
<1>2. ASSUME NEW t \in Controllers, StartSetter(t) PROVE Coherent'
  BY <1>2 DEF StartSetter, GoTo
<1>3. ASSUME NEW t \in Threads, Sensor(t) PROVE Coherent'
  BY <1>3 DEF Sensor, GoTo
<1>4. ASSUME NEW t \in Threads, MapData(t) PROVE Coherent'
  BY <1>4 DEF MapData, GoTo, Return
<1>5. ASSUME NEW t \in Threads, SensorMissing(t) PROVE Coherent'
  BY <1>5 DEF SensorMissing, GoTo, Return, PollFailed, Polling
<1>6. ASSUME NEW t \in Threads, InvalidReading(t) PROVE Coherent'
  BY <1>6 DEF InvalidReading, GoTo, Return, PollFailed, Polling
<1>7. ASSUME NEW t \in Threads, GetServed(t) PROVE Coherent'
  BY <1>7 DEF GetServed, GoTo
<1>8. ASSUME NEW t \in Threads, GetReply(t) PROVE Coherent'
  BY <1>8 DEF GetReply, GoTo, Polling
<1>9. ASSUME NEW t \in Threads, GetFails(t) PROVE Coherent'
  BY <1>9 DEF GetFails, GoTo, Return, PollFailed, Polling
<1>10. ASSUME NEW t \in Threads, Look(t) PROVE Coherent'
  BY <1>10 DEF Look, GoTo
<1>11. ASSUME NEW t \in Threads, Copy(t) PROVE Coherent'
  BY <1>11 DEF Copy, GoTo
<1>12. ASSUME NEW t \in Threads, CopyRaises(t) PROVE Coherent'
  BY <1>12 DEF CopyRaises, GoTo, Return
<1>13. ASSUME NEW t \in Threads, SetServed(t) PROVE Coherent'
  BY <1>13 DEF SetServed, GoTo, Payload
<1>14. ASSUME NEW t \in Threads, SetRejected(t) PROVE Coherent'
  BY <1>14 DEF SetRejected, GoTo
<1>15. ASSUME NEW t \in Threads, SetConfirmed(t) PROVE Coherent'
  BY <1>15 DEF SetConfirmed, GoTo, Return, Payload
<1>16. ASSUME NEW t \in Threads, SetFails(t) PROVE Coherent'
  BY <1>16 DEF SetFails, GoTo, GivenUp, Return, Payload
<1>17. CASE CacheExpires
  BY <1>17 DEF CacheExpires
<1>18. CASE Remote
  BY <1>18 DEF Remote
<1>19. CASE LateWrite
  BY <1>19 DEF LateWrite
<1>20. CASE AdapterChange
  BY <1>20 DEF AdapterChange
<1>21. CASE UNCHANGED vars
  BY <1>21 DEF vars
<1>22. QED
  BY <1>1, <1>2, <1>3, <1>4, <1>5, <1>6, <1>7, <1>8, <1>9, <1>10, <1>11,
     <1>12, <1>13, <1>14, <1>15, <1>16, <1>17, <1>18, <1>19, <1>20, <1>21
     DEF Next, Step, Poll, Get, Set

----------------------------------------------------------------------------
(* The theorems. *)

\* The unit is found in a state of its own; the driver has seen nothing yet.
LEMMA InvInit == Init => TypeOK /\ Frames /\ FailedPoll /\ Coherent
<1> SUFFICES ASSUME Init PROVE TypeOK /\ Frames /\ FailedPoll /\ Coherent
  OBVIOUS
<1> USE ArgumentAssumption DEF Init
<1>1. Values
  BY DEF Values, Labels
<1>2. Flags
  BY DEF Flags
<1>3. Frames
  BY DEF Frames
<1>4. FailedPoll
  BY DEF FailedPoll
<1>5. Coherent
  BY DEF Coherent
<1>6. QED
  BY <1>1, <1>2, <1>3, <1>4, <1>5, TypeParts

\* Whatever the threads, the kinds of values and the frames are kept.
LEMMA TypesStep == TypeOK /\ Frames /\ [Next]_vars => TypeOK' /\ Frames'
<1> SUFFICES ASSUME TypeOK, Frames, [Next]_vars PROVE TypeOK' /\ Frames'
  OBVIOUS
<1>1. Values /\ Flags
  BY TypeParts
<1>2. Values' /\ Flags'
  BY <1>1, ValuesPreserved, FlagsPreserved
<1>3. TypeOK'
  BY <1>2, Zenon DEF TypeOK, Values, Flags
<1>4. QED
  BY <1>1, <1>3, FramesPreserved

\* The frames are whole in every reachable state.
LEMMA TypesAlways == Spec => [](TypeOK /\ Frames)
BY InvInit, TypesStep, PTL DEF Spec

\* Type correctness for any pollers and controllers: what a frame, the cache or
\* the unit holds is a whole control response or none.
THEOREM TypeCorrect == Spec => []TypeOK
BY TypesAlways, PTL

\* With one poller, after a poll that returned no data get_status() says
\* "error", whatever the setters, the remote and late writes do.
THEOREM FailedPollShows ==
    ASSUME OnePoller
    PROVE  Spec => []PollFailureShows
<1>1. TypeOK /\ Frames /\ FailedPoll /\ [Next]_vars => FailedPoll'
  BY TypeParts, FailedPollPreserved, OnePoller
<1>2. Spec => []FailedPoll
  BY <1>1, InvInit, TypesAlways, PTL DEF Spec
<1>3. FailedPoll => PollFailureShows
  BY DEF FailedPoll, PollFailureShows, Status
<1>4. QED
  BY <1>2, <1>3, PTL

\* Called in turn, cache and frames keep up with the unit.
LEMMA CoherentInTurn ==
    ASSUME InTurn
    PROVE  Spec => []Coherent
<1>1. TypeOK /\ Frames /\ Coherent /\ [Next]_vars => Coherent'
  BY TypeParts, CoherentPreserved, InTurn
<1>2. QED
  BY <1>1, InvInit, TypesAlways, PTL DEF Spec

\* Called in turn, the cache the next setter builds on is what the adapter
\* holds: after writes that were rejected, lost or not acknowledged, too.
THEOREM CacheIsUnit ==
    ASSUME InTurn
    PROVE  Spec => []CacheCoherent
<1>1. Coherent => CacheCoherent
  BY DEF Coherent, CacheCoherent
<1>2. QED
  BY <1>1, CoherentInTurn, PTL

\* Called in turn, only an accepted write changes the unit, and it merges the
\* caller's argument into the unit as it is.
LEMMA UnitSteps ==
    ASSUME InTurn, Values, Frames, Coherent, [Next]_vars
    PROVE  \/ unit' = unit
           \/ \E t \in Threads : /\ SetServed(t) /\ job[t] \in Jobs
                                 /\ unit' = Merge(unit, job[t])
<1>1. ASSUME NEW t \in Threads, SetServed(t)
      PROVE  job[t] \in Jobs /\ unit' = Merge(unit, job[t])
  BY <1>1 DEF Values, Frames, Coherent, SetServed, Payload
<1>2. ASSUME NEW t \in Threads, Poll(t) \/ Get(t) PROVE unit' = unit
  BY <1>2 DEF Poll, Sensor, MapData, SensorMissing, InvalidReading, Get, GetServed,
     GetReply, GetFails
<1>3. ASSUME NEW t \in Threads, Set(t), ~SetServed(t) PROVE unit' = unit
  BY <1>3 DEF Set, Look, Copy, CopyRaises, SetRejected, SetConfirmed, SetFails
<1>4. ASSUME \/ \E t \in Pollers : StartPoll(t)
             \/ \E t \in Controllers : StartSetter(t)
             \/ CacheExpires \/ Remote \/ LateWrite \/ AdapterChange
             \/ UNCHANGED vars
      PROVE  unit' = unit
  BY <1>4 DEF InTurn, Coherent, StartPoll, StartSetter, CacheExpires, Remote,
     LateWrite, AdapterChange, vars
<1>5. QED
  BY <1>1, <1>2, <1>3, <1>4 DEF Next, Step

\* A merge into the unit is a step of the abstract unit.
LEMMA MergeIsContractStep ==
    ASSUME unit \in Controls, NEW j \in Jobs, unit' = Merge(unit, j)
    PROVE  Contract!Next
<1> USE ArgumentAssumption
<1>1. CASE j \in {"mode"} \X Modes
  <2>1. unit' = WithMode(unit, j[2]) /\ j[2] \in Modes /\ j[2] \in ContractModes
    BY <1>1 DEF Merge
  <2>2. Contract!SetMode(j[2])
    BY <2>1, ModeMerged DEF Contract!SetMode
  <2>3. QED
    BY <2>1, <2>2 DEF Contract!Next
<1>2. CASE j \in {"temp"} \X Temperatures
  <2>1. unit' = WithTemperature(unit, j[2]) /\ j[2] \in Temperatures /\ j[2] \in Int
    BY <1>2 DEF Merge
  <2>2. View(unit').target \in Contract!Nearest(j[2])
    BY <2>1, TemperatureMerged, RoundedIsNearest
  <2>3. Contract!SetTemperature(j[2])
    BY <2>1, <2>2, TemperatureMerged DEF Contract!SetTemperature
  <2>4. QED
    BY <2>1, <2>3 DEF Contract!Next
<1>3. CASE j \in {"fan"} \X Speeds
  <2>1. unit' = WithFanSpeed(unit, j[2]) /\ j[2] \in Speeds /\ j[2] \in FanSpeeds
    BY <1>3 DEF Merge
  <2>2. Contract!SetFanSpeed(j[2])
    BY <2>1, FanMerged DEF Contract!SetFanSpeed
  <2>3. QED
    BY <2>1, <2>2 DEF Contract!Next
<1>4. QED
  BY <1>1, <1>2, <1>3 DEF Jobs

\* What the contract shows of a control response are values of the contract.
LEMMA ViewInContract ==
    ASSUME NEW c \in Controls
    PROVE  /\ View(c).mode \in {"off", "auto", "cool", "heat", "fan", "dry"}
           /\ View(c).target \in Setpoints
           /\ View(c).fan \in FanSpeeds
BY FanSpeedsCorrespond DEF View, Controls, WireModes, MODE_TO_STR, Setpoints,
   STEMP_MIN, STEMP_MAX, FALLBACK_STEMP, NO_SETPOINT

\* Called in turn, the driver implements the AC contract, for all modes,
\* temperatures and speeds and every state the unit is found in: the contract's
\* view of the unit changes only by one setter of ACUnit.
THEOREM DriverImplementsContract ==
    ASSUME InTurn
    PROVE  Spec => ImplementsContract
<1>1. Init => Contract!Init
  BY ViewInContract, ArgumentAssumption DEF Init, Contract!Init
<1>2. TypeOK /\ Frames /\ Coherent /\ [Next]_vars
         => [Contract!Next]_(Contract!vars)
  <2> SUFFICES ASSUME TypeOK, Frames, Coherent, [Next]_vars
               PROVE  Contract!Next \/ UNCHANGED Contract!vars
    OBVIOUS
  <2>1. Values
    BY TypeParts
  <2>2. CASE unit' = unit
    BY <2>2 DEF Contract!vars
  <2>3. ASSUME NEW t \in Threads, job[t] \in Jobs, unit' = Merge(unit, job[t])
        PROVE  Contract!Next
    BY <2>1, <2>3, MergeIsContractStep DEF Values
  <2>4. QED
    BY <2>1, <2>2, <2>3, UnitSteps, InTurn
<1>3. QED
  BY <1>1, <1>2, TypesAlways, CoherentInTurn, PTL
     DEF Spec, ImplementsContract, Contract!Spec

\* Called in turn, set_temperature() keeps the mode that set_mode() chose, as
\* daikin_brp.md says; daikin_merge shows how a poll under way breaks this.
THEOREM TemperatureKeepsMode ==
    ASSUME InTurn
    PROVE  Spec => MergeKeepsMode
<1>1. TypeOK /\ Frames /\ Coherent /\ [Next]_vars =>
         [\A t \in Controllers :
            SetServed(t) /\ job[t][1] = "temp"
                /\ View(unit).mode \notin {"off", "fan"}
              => View(unit').mode = View(unit).mode]_vars
  <2> SUFFICES ASSUME TypeOK, Frames, Coherent, NEW t \in Controllers,
                      SetServed(t), job[t][1] = "temp",
                      View(unit).mode \notin {"off", "fan"}
               PROVE  View(unit').mode = View(unit).mode
    OBVIOUS
  <2>1. Values
    BY TypeParts
  <2>2. job[t] \in {"temp"} \X Temperatures
    BY <2>1 DEF Values, Frames, SetServed, Threads, Jobs
  <2>3. unit' = WithTemperature(unit, job[t][2])
    BY <2>2 DEF Coherent, SetServed, Payload, Merge, Threads
  <2>4. QED
    BY <2>1, <2>2, <2>3, TemperatureMerged, ArgumentAssumption DEF Values
<1>2. QED
  BY <1>1, TypesAlways, CoherentInTurn, PTL DEF Spec, MergeKeepsMode
=============================================================================
