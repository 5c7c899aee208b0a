------------------------- MODULE AuroraRS485_proofs -------------------------
(***************************************************************************)
(* The safety of AuroraRS485 for every number of threads, every lock        *)
(* timeout and every exchange time.  CallBounded is not inductive: a call's *)
(* age must be related to the exchange its owner has reached (Clocks), and  *)
(* that relation holds only because the lock has a single owner (OneOwner). *)
(***************************************************************************)
EXTENDS AuroraRS485, TLAPS

Running == {"check", "open", "opened"}

\* How old a call can be at each point of get_data().
Clocks ==
    \A t \in Threads :
        /\ pc[t] \in {"idle", "done"} => age[t] = 0
        /\ pc[t] \in {"acquire", "close"} \cup Running
               => age[t] <= LockWait
        /\ pc[t] \in {"forget", "report"}
               => age[t] <= LockWait + CommandTime
        /\ pc[t] \in {"send", "read"} =>
               /\ cmd <= NReads
               /\ held <= CommandTime
               /\ age[t] <= LockWait + (cmd - 1) * CommandTime
                              + (IF pc[t] = "read" THEN held ELSE 0)
        /\ pc[t] = "evaluate" => age[t] <= LockWait + NReads * CommandTime

\* The owner's frame is fresh until its first exchange.
FreshFrame ==
    /\ lock = NoThread => cmd = 1 /\ held = 0
    /\ \A t \in Threads : pc[t] \in Running => cmd = 1 /\ held = 0

\* Only the owner of the lock installs a port object.
OpensNothing == \A t \in Threads : pc[t] = "open" => serial = "none"

IInv ==
    /\ TypeOK /\ OneOwner /\ Clocks /\ FreshFrame
    /\ OpensNothing /\ ErrorMeansNoPort

----------------------------------------------------------------------------
\* What leaving the locked region does to the values it touches.
Released ==
    /\ pc' \in [Threads -> {"idle", "acquire", "done"} \cup OwnerSteps
                              \cup ResetSteps]
    /\ age' \in [Threads -> Nat]
    /\ lock' \in Threads \cup {NoThread}
    /\ wire' \in {"none", "open", "dead"}
    /\ cmd' \in 1..NReads + 1
    /\ held' \in Nat
    /\ lastCall' \in {"never", "data", "failed"}

\* Release() writes values of the right kinds.
LEMMA ReleaseValues ==
    ASSUME Values, NEW t \in Threads, NEW r \in {"data", "failed"},
           Release(t, r)
    PROVE  Released
BY DEF Released, Values, Release, Leave, GoTo, NReads

\* What going on to the next exchange does.
Advanced ==
    /\ pc' \in [Threads -> {"idle", "acquire", "done"} \cup OwnerSteps
                              \cup ResetSteps]
    /\ age' = age /\ lock' = lock /\ lastCall' = lastCall /\ line' = line
    /\ wire' = "none" /\ held' = 0 /\ serial' = serial
    /\ cmd' \in 1..NReads + 1

\* NextRead() writes values of the right kinds and stays within NReads + 1.
LEMMA NextReadValues ==
    ASSUME Values, NEW t \in Threads, NEW absent, cmd <= NReads,
           NextRead(t, absent)
    PROVE  Advanced
BY DEF Advanced, Values, NextRead, GoTo, NReads, OwnerSteps

\* Every step keeps the variables in their types; the exchange counter needs
\* Clocks, which says that no thread reads beyond the last exchange.
LEMMA ValuesPreserved ==
    ASSUME Values, Clocks, [Next]_vars
    PROVE  Values'
<1> USE ThreadAssumption, TimeAssumption DEF Values, driver, frame,
     OwnerSteps, ResetSteps, Errors, NReads, Lines
<1>1. ASSUME NEW t \in Threads, Call(t) PROVE Values'
  BY <1>1 DEF Call, GoTo
<1>2. ASSUME NEW t \in Threads, Acquire(t) PROVE Values'
  BY <1>2 DEF Acquire, GoTo
<1>3. ASSUME NEW t \in Threads, LockTimeout(t) PROVE Values'
  BY <1>3 DEF LockTimeout, GoTo
<1>4. ASSUME NEW t \in Threads, ResetClose(t) PROVE Values'
  BY <1>4 DEF ResetClose, Kill, GoTo
<1>5. ASSUME NEW t \in Threads, ResetForget(t) PROVE Values'
  BY <1>5 DEF ResetForget, GoTo
<1>6. ASSUME NEW t \in Threads, ResetReport(t) PROVE Values'
  BY <1>6 DEF ResetReport, Leave, GoTo
<1>7. ASSUME NEW t \in Threads, CheckPort(t) PROVE Values'
  BY <1>7 DEF CheckPort, GoTo
<1>8. ASSUME NEW t \in Threads, OpenPort(t) PROVE Values'
  BY <1>8 DEF OpenPort, GoTo
<1>9. ASSUME NEW t \in Threads, PortAvailable(t) PROVE Values'
  BY <1>9 DEF PortAvailable, GoTo
<1>10. ASSUME NEW t \in Threads, OpenFails(t) PROVE Values'
  BY <1>10, ReleaseValues DEF Released, OpenFails
<1>11. ASSUME NEW t \in Threads, AssertFails(t) PROVE Values'
  BY <1>11, ReleaseValues DEF Released, AssertFails, Raise
<1>12. ASSUME NEW t \in Threads, PortNotOpen(t) PROVE Values'
  BY <1>12, ReleaseValues DEF Released, PortNotOpen, Raise
<1>13. ASSUME NEW t \in Threads, Send(t) PROVE Values'
  BY <1>13 DEF Send, GoTo
<1>14. ASSUME NEW t \in Threads, Reply(t) PROVE Values'
  <2>1. NextRead(t, FALSE) /\ lastError' = lastError /\ pc[t] = "read"
    BY <1>14 DEF Reply
  <2>2. Advanced
    BY <2>1, NextReadValues DEF Clocks
  <2>3. QED
    BY <2>1, <2>2 DEF Advanced
<1>15. ASSUME NEW t \in Threads, BadChecksum(t) PROVE Values'
  <2>1. NextRead(t, TRUE) /\ lastError' = "crc" /\ pc[t] = "read"
    BY <1>15 DEF BadChecksum
  <2>2. Advanced
    BY <2>1, NextReadValues DEF Clocks
  <2>3. QED
    BY <2>1, <2>2 DEF Advanced
<1>16. ASSUME NEW t \in Threads, ShortRead(t) PROVE Values'
  <2>1. NextRead(t, TRUE) /\ lastError' = "no reply" /\ pc[t] = "read"
    BY <1>16 DEF ShortRead, TimedOut
  <2>2. Advanced
    BY <2>1, NextReadValues DEF Clocks
  <2>3. QED
    BY <2>1, <2>2 DEF Advanced
<1>17. ASSUME NEW t \in Threads, ShortReadNoPort(t) PROVE Values'
  BY <1>17, ReleaseValues DEF Released, ShortReadNoPort, Raise
<1>18. ASSUME NEW t \in Threads, ReadRaises(t) PROVE Values'
  BY <1>18, ReleaseValues DEF Released, ReadRaises, Raise
<1>19. ASSUME NEW t \in Threads, Incomplete(t) PROVE Values'
  BY <1>19, ReleaseValues DEF Released, Incomplete
<1>20. ASSUME NEW t \in Threads, Complete(t) PROVE Values'
  BY <1>20, ReleaseValues DEF Released, Complete
<1>21. CASE Tick
  <2>1. /\ pc' \in [Threads -> {"idle", "acquire", "done"} \cup OwnerSteps
                                 \cup ResetSteps]
    <3>1. pc' = [u \in Threads |-> IF pc[u] = "done" THEN "idle" ELSE pc[u]]
      BY <1>21 DEF Tick
    <3>2. QED
      BY <3>1
  <2>2. age' \in [Threads -> Nat]
    <3>1. age' = [u \in Threads |->
                   IF pc[u] \in {"idle", "done"} THEN 0 ELSE age[u] + 1]
      BY <1>21 DEF Tick
    <3>2. \A u \in Threads : age[u] \in Nat
      OBVIOUS
    <3>3. QED
      BY ONLY <3>1, <3>2
  <2>3. held' \in Nat
    <3>1. held' = IF \E u \in Threads : pc[u] = "read" THEN held + 1 ELSE
     held
      BY <1>21 DEF Tick
    <3>2. held \in Nat
      OBVIOUS
    <3>3. QED
      BY ONLY <3>1, <3>2
  <2>4. /\ serial' \in {"none", "open", "dead"}
        /\ wire' \in {"none", "open", "dead"}
    BY <1>21 DEF Tick, Kill
  <2>5. /\ UNCHANGED <<lock, cmd, lastError, lastCall>>
        /\ line' \in Lines
    BY <1>21 DEF Tick
  <2>6. QED
    BY <2>1, <2>2, <2>3, <2>4, <2>5
<1>22. CASE UNCHANGED vars
  BY <1>22 DEF vars
<1>23. QED
  BY <1>1, <1>2, <1>3, <1>4, <1>5, <1>6, <1>7, <1>8, <1>9, <1>10, <1>11,
     <1>12, <1>13, <1>14, <1>15, <1>16, <1>17, <1>18, <1>19, <1>20, <1>21,
     <1>22
     DEF Next, Step, Body, Read, Reset

\* The Boolean fields stay Boolean.
LEMMA FlagsPreserved ==
    ASSUME Flags, [Next]_vars
    PROVE  Flags'
<1> USE ThreadAssumption, TimeAssumption DEF Flags, driver, frame
<1>1. ASSUME NEW t \in Threads, Call(t) PROVE Flags'
  BY <1>1 DEF Call, GoTo
<1>2. ASSUME NEW t \in Threads, Acquire(t) PROVE Flags'
  BY <1>2 DEF Acquire, GoTo
<1>3. ASSUME NEW t \in Threads, LockTimeout(t) PROVE Flags'
  BY <1>3 DEF LockTimeout, GoTo
<1>4. ASSUME NEW t \in Threads, ResetClose(t) PROVE Flags'
  BY <1>4 DEF ResetClose, Kill, GoTo
<1>5. ASSUME NEW t \in Threads, ResetForget(t) PROVE Flags'
  BY <1>5 DEF ResetForget, GoTo
<1>6. ASSUME NEW t \in Threads, ResetReport(t) PROVE Flags'
  BY <1>6 DEF ResetReport, Leave, GoTo
<1>7. ASSUME NEW t \in Threads, CheckPort(t) PROVE Flags'
  BY <1>7 DEF CheckPort, GoTo
<1>8. ASSUME NEW t \in Threads, OpenPort(t) PROVE Flags'
  BY <1>8 DEF OpenPort, GoTo
<1>9. ASSUME NEW t \in Threads, PortAvailable(t) PROVE Flags'
  BY <1>9 DEF PortAvailable, GoTo
<1>10. ASSUME NEW t \in Threads, OpenFails(t) PROVE Flags'
  BY <1>10 DEF OpenFails, Release, Leave, GoTo
<1>11. ASSUME NEW t \in Threads, AssertFails(t) PROVE Flags'
  BY <1>11 DEF AssertFails, Raise, Release, Leave, GoTo
<1>12. ASSUME NEW t \in Threads, PortNotOpen(t) PROVE Flags'
  BY <1>12 DEF PortNotOpen, Raise, Release, Leave, GoTo
<1>13. ASSUME NEW t \in Threads, Send(t) PROVE Flags'
  BY <1>13 DEF Send, GoTo
<1>14. ASSUME NEW t \in Threads, Reply(t) PROVE Flags'
  BY <1>14 DEF Reply, NextRead, GoTo
<1>15. ASSUME NEW t \in Threads, BadChecksum(t) PROVE Flags'
  BY <1>15 DEF BadChecksum, NextRead, GoTo
<1>16. ASSUME NEW t \in Threads, ShortRead(t) PROVE Flags'
  BY <1>16 DEF ShortRead, TimedOut, NextRead, GoTo
<1>17. ASSUME NEW t \in Threads, ShortReadNoPort(t) PROVE Flags'
  BY <1>17 DEF ShortReadNoPort, TimedOut, Raise, Release, Leave, GoTo
<1>18. ASSUME NEW t \in Threads, ReadRaises(t) PROVE Flags'
  BY <1>18 DEF ReadRaises, Raise, Release, Leave, GoTo
<1>19. ASSUME NEW t \in Threads, Incomplete(t) PROVE Flags'
  BY <1>19 DEF Incomplete, Release, Leave, GoTo
<1>20. ASSUME NEW t \in Threads, Complete(t) PROVE Flags'
  BY <1>20 DEF Complete, Release, Leave, GoTo
<1>21. CASE Tick
  BY <1>21 DEF Tick, Waiting, Prompt, Closing, Kill
<1>22. CASE UNCHANGED vars
  BY <1>22 DEF vars
<1>23. QED
  BY <1>1, <1>2, <1>3, <1>4, <1>5, <1>6, <1>7, <1>8, <1>9, <1>10, <1>11,
     <1>12, <1>13, <1>14, <1>15, <1>16, <1>17, <1>18, <1>19, <1>20, <1>21,
     <1>22
     DEF Next, Step, Body, Read, Reset

\* Steps under the lock are taken by its owner alone; a reset never enters.
LEMMA OwnerPreserved ==
    ASSUME Values, OneOwner, [Next]_vars
    PROVE  OneOwner'
<1> USE ThreadAssumption, TimeAssumption DEF Values, OneOwner, driver, frame,
     OwnerSteps, ResetSteps, NReads
<1>1. ASSUME NEW t \in Threads, Call(t) PROVE OneOwner'
  BY <1>1 DEF Call, GoTo
<1>2. ASSUME NEW t \in Threads, Acquire(t) PROVE OneOwner'
  BY <1>2 DEF Acquire, GoTo
<1>3. ASSUME NEW t \in Threads, LockTimeout(t) PROVE OneOwner'
  BY <1>3 DEF LockTimeout, GoTo
<1>4. ASSUME NEW t \in Threads, ResetClose(t) PROVE OneOwner'
  BY <1>4 DEF ResetClose, Kill, GoTo
<1>5. ASSUME NEW t \in Threads, ResetForget(t) PROVE OneOwner'
  BY <1>5 DEF ResetForget, GoTo
<1>6. ASSUME NEW t \in Threads, ResetReport(t) PROVE OneOwner'
  BY <1>6 DEF ResetReport, Leave, GoTo
<1>7. ASSUME NEW t \in Threads, CheckPort(t) PROVE OneOwner'
  BY <1>7 DEF CheckPort, GoTo
<1>8. ASSUME NEW t \in Threads, OpenPort(t) PROVE OneOwner'
  BY <1>8 DEF OpenPort, GoTo
<1>9. ASSUME NEW t \in Threads, PortAvailable(t) PROVE OneOwner'
  BY <1>9 DEF PortAvailable, GoTo
<1>10. ASSUME NEW t \in Threads, OpenFails(t) PROVE OneOwner'
  BY <1>10 DEF OpenFails, Release, Leave, GoTo
<1>11. ASSUME NEW t \in Threads, AssertFails(t) PROVE OneOwner'
  BY <1>11 DEF AssertFails, Raise, Release, Leave, GoTo
<1>12. ASSUME NEW t \in Threads, PortNotOpen(t) PROVE OneOwner'
  BY <1>12 DEF PortNotOpen, Raise, Release, Leave, GoTo
<1>13. ASSUME NEW t \in Threads, Send(t) PROVE OneOwner'
  BY <1>13 DEF Send, GoTo
<1>14. ASSUME NEW t \in Threads, Reply(t) PROVE OneOwner'
  BY <1>14 DEF Reply, NextRead, GoTo
<1>15. ASSUME NEW t \in Threads, BadChecksum(t) PROVE OneOwner'
  BY <1>15 DEF BadChecksum, NextRead, GoTo
<1>16. ASSUME NEW t \in Threads, ShortRead(t) PROVE OneOwner'
  BY <1>16 DEF ShortRead, TimedOut, NextRead, GoTo
<1>17. ASSUME NEW t \in Threads, ShortReadNoPort(t) PROVE OneOwner'
  BY <1>17 DEF ShortReadNoPort, TimedOut, Raise, Release, Leave, GoTo
<1>18. ASSUME NEW t \in Threads, ReadRaises(t) PROVE OneOwner'
  BY <1>18 DEF ReadRaises, Raise, Release, Leave, GoTo
<1>19. ASSUME NEW t \in Threads, Incomplete(t) PROVE OneOwner'
  BY <1>19 DEF Incomplete, Release, Leave, GoTo
<1>20. ASSUME NEW t \in Threads, Complete(t) PROVE OneOwner'
  BY <1>20 DEF Complete, Release, Leave, GoTo
<1>21. CASE Tick
  BY <1>21 DEF Tick, Waiting, Prompt, Closing, Kill
<1>22. CASE UNCHANGED vars
  BY <1>22 DEF vars
<1>23. QED
  BY <1>1, <1>2, <1>3, <1>4, <1>5, <1>6, <1>7, <1>8, <1>9, <1>10, <1>11,
     <1>12, <1>13, <1>14, <1>15, <1>16, <1>17, <1>18, <1>19, <1>20, <1>21,
     <1>22
     DEF Next, Step, Body, Read, Reset

\* A port is opened only when there is none, and the call that opens it clears
\* the error status.
LEMMA PortsPreserved ==
    ASSUME Values, OneOwner, OpensNothing, ErrorMeansNoPort, [Next]_vars
    PROVE  OpensNothing' /\ ErrorMeansNoPort'
<1> USE ThreadAssumption, TimeAssumption DEF Values, OneOwner, OpensNothing,
     ErrorMeansNoPort, driver, frame, OwnerSteps, ResetSteps, NReads
<1>1. ASSUME NEW t \in Threads, Call(t) PROVE OpensNothing' /\
     ErrorMeansNoPort'
  BY <1>1 DEF Call, GoTo
<1>2. ASSUME NEW t \in Threads, Acquire(t) PROVE OpensNothing' /\
     ErrorMeansNoPort'
  BY <1>2 DEF Acquire, GoTo
<1>3. ASSUME NEW t \in Threads, LockTimeout(t) PROVE OpensNothing' /\
     ErrorMeansNoPort'
  BY <1>3 DEF LockTimeout, GoTo
<1>4. ASSUME NEW t \in Threads, ResetClose(t) PROVE OpensNothing' /\
     ErrorMeansNoPort'
  BY <1>4 DEF ResetClose, Kill, GoTo
<1>5. ASSUME NEW t \in Threads, ResetForget(t) PROVE OpensNothing' /\
     ErrorMeansNoPort'
  BY <1>5 DEF ResetForget, GoTo
<1>6. ASSUME NEW t \in Threads, ResetReport(t) PROVE OpensNothing' /\
     ErrorMeansNoPort'
  BY <1>6 DEF ResetReport, Leave, GoTo
<1>7. ASSUME NEW t \in Threads, CheckPort(t) PROVE OpensNothing' /\
     ErrorMeansNoPort'
  BY <1>7 DEF CheckPort, GoTo
<1>8. ASSUME NEW t \in Threads, OpenPort(t) PROVE OpensNothing' /\
     ErrorMeansNoPort'
  BY <1>8 DEF OpenPort, GoTo
<1>9. ASSUME NEW t \in Threads, PortAvailable(t) PROVE OpensNothing' /\
     ErrorMeansNoPort'
  BY <1>9 DEF PortAvailable, GoTo
<1>10. ASSUME NEW t \in Threads, OpenFails(t) PROVE OpensNothing' /\
     ErrorMeansNoPort'
  BY <1>10 DEF OpenFails, Release, Leave, GoTo
<1>11. ASSUME NEW t \in Threads, AssertFails(t) PROVE OpensNothing' /\
     ErrorMeansNoPort'
  BY <1>11 DEF AssertFails, Raise, Release, Leave, GoTo
<1>12. ASSUME NEW t \in Threads, PortNotOpen(t) PROVE OpensNothing' /\
     ErrorMeansNoPort'
  BY <1>12 DEF PortNotOpen, Raise, Release, Leave, GoTo
<1>13. ASSUME NEW t \in Threads, Send(t) PROVE OpensNothing' /\
     ErrorMeansNoPort'
  BY <1>13 DEF Send, GoTo
<1>14. ASSUME NEW t \in Threads, Reply(t) PROVE OpensNothing' /\
     ErrorMeansNoPort'
  BY <1>14 DEF Reply, NextRead, GoTo
<1>15. ASSUME NEW t \in Threads, BadChecksum(t) PROVE OpensNothing' /\
     ErrorMeansNoPort'
  BY <1>15 DEF BadChecksum, NextRead, GoTo
<1>16. ASSUME NEW t \in Threads, ShortRead(t) PROVE OpensNothing' /\
     ErrorMeansNoPort'
  BY <1>16 DEF ShortRead, TimedOut, NextRead, GoTo
<1>17. ASSUME NEW t \in Threads, ShortReadNoPort(t) PROVE OpensNothing' /\
     ErrorMeansNoPort'
  BY <1>17 DEF ShortReadNoPort, TimedOut, Raise, Release, Leave, GoTo
<1>18. ASSUME NEW t \in Threads, ReadRaises(t) PROVE OpensNothing' /\
     ErrorMeansNoPort'
  BY <1>18 DEF ReadRaises, Raise, Release, Leave, GoTo
<1>19. ASSUME NEW t \in Threads, Incomplete(t) PROVE OpensNothing' /\
     ErrorMeansNoPort'
  BY <1>19 DEF Incomplete, Release, Leave, GoTo
<1>20. ASSUME NEW t \in Threads, Complete(t) PROVE OpensNothing' /\
     ErrorMeansNoPort'
  BY <1>20 DEF Complete, Release, Leave, GoTo
<1>21. CASE Tick
  BY <1>21 DEF Tick, Waiting, Prompt, Closing, Kill
<1>22. CASE UNCHANGED vars
  BY <1>22 DEF vars
<1>23. QED
  BY <1>1, <1>2, <1>3, <1>4, <1>5, <1>6, <1>7, <1>8, <1>9, <1>10, <1>11,
     <1>12, <1>13, <1>14, <1>15, <1>16, <1>17, <1>18, <1>19, <1>20, <1>21,
     <1>22
     DEF Next, Step, Body, Read, Reset

\* The owner's frame is reset when the lock is released.
LEMMA FramePreserved ==
    ASSUME Values, OneOwner, FreshFrame, [Next]_vars
    PROVE  FreshFrame'
<1> USE ThreadAssumption, TimeAssumption DEF Values, OneOwner, FreshFrame,
     Running, driver, frame, OwnerSteps, ResetSteps, NReads
<1>1. ASSUME NEW t \in Threads, Call(t) PROVE FreshFrame'
  BY <1>1 DEF Call, GoTo
<1>2. ASSUME NEW t \in Threads, Acquire(t) PROVE FreshFrame'
  BY <1>2 DEF Acquire, GoTo
<1>3. ASSUME NEW t \in Threads, LockTimeout(t) PROVE FreshFrame'
  BY <1>3 DEF LockTimeout, GoTo
<1>4. ASSUME NEW t \in Threads, ResetClose(t) PROVE FreshFrame'
  BY <1>4 DEF ResetClose, Kill, GoTo
<1>5. ASSUME NEW t \in Threads, ResetForget(t) PROVE FreshFrame'
  BY <1>5 DEF ResetForget, GoTo
<1>6. ASSUME NEW t \in Threads, ResetReport(t) PROVE FreshFrame'
  BY <1>6 DEF ResetReport, Leave, GoTo
<1>7. ASSUME NEW t \in Threads, CheckPort(t) PROVE FreshFrame'
  BY <1>7 DEF CheckPort, GoTo
<1>8. ASSUME NEW t \in Threads, OpenPort(t) PROVE FreshFrame'
  BY <1>8 DEF OpenPort, GoTo
<1>9. ASSUME NEW t \in Threads, PortAvailable(t) PROVE FreshFrame'
  BY <1>9 DEF PortAvailable, GoTo
<1>10. ASSUME NEW t \in Threads, OpenFails(t) PROVE FreshFrame'
  BY <1>10 DEF OpenFails, Release, Leave, GoTo
<1>11. ASSUME NEW t \in Threads, AssertFails(t) PROVE FreshFrame'
  BY <1>11 DEF AssertFails, Raise, Release, Leave, GoTo
<1>12. ASSUME NEW t \in Threads, PortNotOpen(t) PROVE FreshFrame'
  BY <1>12 DEF PortNotOpen, Raise, Release, Leave, GoTo
<1>13. ASSUME NEW t \in Threads, Send(t) PROVE FreshFrame'
  BY <1>13 DEF Send, GoTo
<1>14. ASSUME NEW t \in Threads, Reply(t) PROVE FreshFrame'
  BY <1>14 DEF Reply, NextRead, GoTo
<1>15. ASSUME NEW t \in Threads, BadChecksum(t) PROVE FreshFrame'
  BY <1>15 DEF BadChecksum, NextRead, GoTo
<1>16. ASSUME NEW t \in Threads, ShortRead(t) PROVE FreshFrame'
  BY <1>16 DEF ShortRead, TimedOut, NextRead, GoTo
<1>17. ASSUME NEW t \in Threads, ShortReadNoPort(t) PROVE FreshFrame'
  BY <1>17 DEF ShortReadNoPort, TimedOut, Raise, Release, Leave, GoTo
<1>18. ASSUME NEW t \in Threads, ReadRaises(t) PROVE FreshFrame'
  BY <1>18 DEF ReadRaises, Raise, Release, Leave, GoTo
<1>19. ASSUME NEW t \in Threads, Incomplete(t) PROVE FreshFrame'
  BY <1>19 DEF Incomplete, Release, Leave, GoTo
<1>20. ASSUME NEW t \in Threads, Complete(t) PROVE FreshFrame'
  BY <1>20 DEF Complete, Release, Leave, GoTo
<1>21. CASE Tick
  BY <1>21 DEF Tick, Waiting, Prompt, Closing, Kill
<1>22. CASE UNCHANGED vars
  BY <1>22 DEF vars
<1>23. QED
  BY <1>1, <1>2, <1>3, <1>4, <1>5, <1>6, <1>7, <1>8, <1>9, <1>10, <1>11,
     <1>12, <1>13, <1>14, <1>15, <1>16, <1>17, <1>18, <1>19, <1>20, <1>21,
     <1>22
     DEF Next, Step, Body, Read, Reset

\* The bound on every call's age follows the owner through its exchanges.
LEMMA ClocksPreserved ==
    ASSUME Values, OneOwner, FreshFrame, Clocks, [Next]_vars
    PROVE  Clocks'
<1> USE ThreadAssumption, TimeAssumption DEF Values, OneOwner, FreshFrame,
     Clocks, Running, driver, frame, OwnerSteps, ResetSteps, NReads
<1>1. ASSUME NEW t \in Threads, Call(t) PROVE Clocks'
  BY <1>1 DEF Call, GoTo
<1>2. ASSUME NEW t \in Threads, Acquire(t) PROVE Clocks'
  BY <1>2 DEF Acquire, GoTo
<1>3. ASSUME NEW t \in Threads, LockTimeout(t) PROVE Clocks'
  BY <1>3 DEF LockTimeout, GoTo
<1>4. ASSUME NEW t \in Threads, ResetClose(t) PROVE Clocks'
  BY <1>4 DEF ResetClose, Kill, GoTo
<1>5. ASSUME NEW t \in Threads, ResetForget(t) PROVE Clocks'
  BY <1>5 DEF ResetForget, GoTo
<1>6. ASSUME NEW t \in Threads, ResetReport(t) PROVE Clocks'
  BY <1>6 DEF ResetReport, Leave, GoTo
<1>7. ASSUME NEW t \in Threads, CheckPort(t) PROVE Clocks'
  BY <1>7 DEF CheckPort, GoTo
<1>8. ASSUME NEW t \in Threads, OpenPort(t) PROVE Clocks'
  BY <1>8 DEF OpenPort, GoTo
<1>9. ASSUME NEW t \in Threads, PortAvailable(t) PROVE Clocks'
  BY <1>9 DEF PortAvailable, GoTo
<1>10. ASSUME NEW t \in Threads, OpenFails(t) PROVE Clocks'
  BY <1>10 DEF OpenFails, Release, Leave, GoTo
<1>11. ASSUME NEW t \in Threads, AssertFails(t) PROVE Clocks'
  BY <1>11 DEF AssertFails, Raise, Release, Leave, GoTo
<1>12. ASSUME NEW t \in Threads, PortNotOpen(t) PROVE Clocks'
  BY <1>12 DEF PortNotOpen, Raise, Release, Leave, GoTo
<1>13. ASSUME NEW t \in Threads, Send(t) PROVE Clocks'
  BY <1>13 DEF Send, GoTo
<1>14. ASSUME NEW t \in Threads, Reply(t) PROVE Clocks'
  BY <1>14 DEF Reply, NextRead, GoTo
<1>15. ASSUME NEW t \in Threads, BadChecksum(t) PROVE Clocks'
  BY <1>15 DEF BadChecksum, NextRead, GoTo
<1>16. ASSUME NEW t \in Threads, ShortRead(t) PROVE Clocks'
  <2>1. NextRead(t, TRUE) /\ pc[t] = "read"
    BY <1>16 DEF ShortRead, TimedOut
  <2>2. QED
    BY <2>1 DEF NextRead, GoTo
<1>17. ASSUME NEW t \in Threads, ShortReadNoPort(t) PROVE Clocks'
  BY <1>17 DEF ShortReadNoPort, TimedOut, Raise, Release, Leave, GoTo
<1>18. ASSUME NEW t \in Threads, ReadRaises(t) PROVE Clocks'
  BY <1>18 DEF ReadRaises, Raise, Release, Leave, GoTo
<1>19. ASSUME NEW t \in Threads, Incomplete(t) PROVE Clocks'
  BY <1>19 DEF Incomplete, Release, Leave, GoTo
<1>20. ASSUME NEW t \in Threads, Complete(t) PROVE Clocks'
  BY <1>20 DEF Complete, Release, Leave, GoTo
<1>21. CASE Tick
  BY <1>21 DEF Tick, Waiting, Prompt, Closing, Kill
<1>22. CASE UNCHANGED vars
  BY <1>22 DEF vars
<1>23. QED
  BY <1>1, <1>2, <1>3, <1>4, <1>5, <1>6, <1>7, <1>8, <1>9, <1>10, <1>11,
     <1>12, <1>13, <1>14, <1>15, <1>16, <1>17, <1>18, <1>19, <1>20, <1>21,
     <1>22
     DEF Next, Step, Body, Read, Reset

----------------------------------------------------------------------------
(* The theorems. *)

\* A freshly constructed driver satisfies the inductive invariant.
LEMMA InvInit == Init => IInv
<1> USE ThreadAssumption, TimeAssumption DEF Init, OwnerSteps, ResetSteps
<1>1. Init => Values
  BY DEF Values, Errors, Lines, NReads
<1>2. Init => Flags
  BY DEF Flags
<1>3. Init => OneOwner /\ OpensNothing /\ ErrorMeansNoPort
  BY DEF OneOwner, OpensNothing, ErrorMeansNoPort
<1>4. Init => Clocks /\ FreshFrame
  BY DEF Clocks, FreshFrame, Running
<1>5. QED
  BY <1>1, <1>2, <1>3, <1>4 DEF IInv, TypeOK

\* Every step of a thread and every tick preserves it.
LEMMA InvStep == IInv /\ [Next]_vars => IInv'
BY ValuesPreserved, FlagsPreserved, OwnerPreserved, PortsPreserved,
   FramePreserved, ClocksPreserved DEF IInv, TypeOK

\* The inductive invariant holds in every reachable state: this is what the
\* theorems below are read from.
THEOREM Invariance == Spec => []IInv
BY InvInit, InvStep, PTL DEF Spec

\* Type correctness of the driver's fields and of the callers' frames.
THEOREM TypeCorrect == Spec => []TypeOK
<1>1. IInv => TypeOK
  BY DEF IInv
<1>2. QED
  BY <1>1, Invariance, PTL

\* self._lock is neither leaked nor shared, whatever the resets do: for any
\* number of threads, exactly its owner is between acquire() and release().
THEOREM LockHasOneOwner == Spec => []OneOwner
<1>1. IInv => OneOwner
  BY DEF IInv
<1>2. QED
  BY <1>1, Invariance, PTL

\* A call of get_data() lasts at most the lock's timeout plus one full read.
THEOREM CallsAreBounded == Spec => []CallBounded
<1>1. ASSUME NEW c \in 1..NReads
      PROVE  (c - 1) * CommandTime + CommandTime <= NReads * CommandTime
  BY TimeAssumption DEF NReads
<1>2. IInv => CallBounded
  <2> SUFFICES ASSUME IInv, NEW t \in Threads
               PROVE  age[t] <= LockWait + NReads * CommandTime
    BY DEF CallBounded
  <2> USE TimeAssumption DEF IInv, TypeOK, Values, Clocks, NReads
  <2>1. CASE pc[t] \in {"send", "read"}
    <3>1. cmd \in 1..NReads /\ held \in 0..CommandTime
      BY <2>1
    <3>2. age[t] <= LockWait + (cmd - 1) * CommandTime + CommandTime
      BY <2>1, <3>1
    <3>3. QED
      BY <1>1, <3>1, <3>2
  <2>2. CASE pc[t] \notin {"send", "read"}
    BY <2>2 DEF OwnerSteps, Running, ResetSteps
  <2>3. QED
    BY <2>1, <2>2
<1>3. QED
  BY <1>2, Invariance, PTL

\* get_status() says "error" beside a port only between the two statements of
\* the call that has just opened it.
THEOREM ErrorStatusMeansNoPort == Spec => []ErrorMeansNoPort
<1>1. IInv => ErrorMeansNoPort
  BY DEF IInv
<1>2. QED
  BY <1>1, Invariance, PTL
=============================================================================
