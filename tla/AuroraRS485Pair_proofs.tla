---------------------- MODULE AuroraRS485Pair_proofs ----------------------
(***************************************************************************)
(* AuroraRS485 with at most two callers and a lock timeout that is longer   *)
(* than a complete read, as the driver's 10 s are longer than eight         *)
(* exchanges of 1 s.  Then nobody ever resets the port: a caller that waits *)
(* has waited no longer than the owner has been reading (Turn).  And as the *)
(* port is never taken from under its owner, no failed call leaves the      *)
(* empty error text that get_status() reads as health.                      *)
(***************************************************************************)
EXTENDS AuroraRS485_proofs

TwoCallers ==
    /\ \A t, u, v \in Threads : t = u \/ u = v \/ t = v
    /\ NReads * CommandTime < LockWait

\* How long the owner of the lock has been reading at most.
Spent == (cmd - 1) * CommandTime + held

\* No exchange, no time spent in one.
Unspent == (\A t \in Threads : pc[t] # "read") => held = 0

\* Who waits while the lock is free has just come, or the other caller has just
\* gone and will not be back before the next tick.
Turn ==
    \A t \in Threads : pc[t] = "acquire" =>
        IF lock = NoThread
        THEN age[t] = 0 \/ \A u \in Threads \ {t} : pc[u] = "done"
        ELSE age[t] <= Spent

\* The owner keeps the port it reads from.
PortKept ==
    \A t \in Threads : pc[t] \in {"opened", "send", "read"} => serial # "none"

\* Every error has a text, and a failed call leaves one.
ErrorKept ==
    /\ lastError # ""
    /\ lastCall = "failed" => lastError # "none"

----------------------------------------------------------------------------
\* The owner leaves: whoever waits has the lock to itself until the next tick.
LEMMA ReleasePassesTurn ==
    ASSUME TwoCallers, Values, NEW t \in Threads, NEW r, pc[t] \in OwnerSteps,
           Release(t, r)
    PROVE  Turn'
<1> SUFFICES ASSUME NEW w \in Threads, pc'[w] = "acquire",
                    NEW u \in Threads \ {w}
             PROVE  pc'[u] = "done"
  BY DEF Turn, Release
<1>1. pc' = [pc EXCEPT ![t] = "done"] /\ DOMAIN pc = Threads
  BY DEF Values, Release, Leave, GoTo, OwnerSteps, ResetSteps
<1>2. w # t
  BY <1>1
<1>3. u = t
  BY <1>2 DEF TwoCallers
<1>4. QED
  BY <1>1, <1>3

\* While the lock is held, the owner has spent at most one complete read.
LEMMA SpentBounded ==
    ASSUME Values, OneOwner, Clocks, FreshFrame, Unspent, lock # NoThread
    PROVE  Spent \in Nat /\ Spent <= NReads * CommandTime
<1> USE TimeAssumption DEF Values, OneOwner, Clocks, FreshFrame, Unspent,
     Running, OwnerSteps, NReads, Spent
<1>1. PICK t \in Threads : lock = t /\ pc[t] \in OwnerSteps
  OBVIOUS
<1>2. CASE pc[t] = "read"
  <2>1. cmd \in 1..NReads /\ held \in 0..CommandTime
    BY <1>2
  <2>2. ASSUME NEW c \in 1..NReads
        PROVE  (c - 1) * CommandTime + CommandTime <= NReads * CommandTime
    OBVIOUS
  <2>3. QED
    BY <2>1, <2>2
<1>3. CASE pc[t] # "read"
  <2>1. held = 0
    BY <1>1, <1>3
  <2>2. QED
    BY <2>1
<1>4. QED
  BY <1>2, <1>3

\* Time is spent in exchanges only.
LEMMA UnspentPreserved ==
    ASSUME Values, OneOwner, Unspent, [Next]_vars
    PROVE  Unspent'
<1> USE ThreadAssumption, TimeAssumption DEF Values, OneOwner, Unspent, driver,
     frame, OwnerSteps, NReads
<1>1. ASSUME NEW t \in Threads, Call(t) PROVE Unspent'
  BY <1>1 DEF Call, GoTo
<1>2. ASSUME NEW t \in Threads, Acquire(t) PROVE Unspent'
  BY <1>2 DEF Acquire, GoTo
<1>3. ASSUME NEW t \in Threads, LockTimeout(t) PROVE Unspent'
  BY <1>3 DEF LockTimeout, GoTo
<1>4. ASSUME NEW t \in Threads, ResetClose(t) PROVE Unspent'
  BY <1>4 DEF ResetClose, Kill, GoTo
<1>5. ASSUME NEW t \in Threads, ResetForget(t) PROVE Unspent'
  BY <1>5 DEF ResetForget, GoTo
<1>6. ASSUME NEW t \in Threads, ResetReport(t) PROVE Unspent'
  BY <1>6 DEF ResetReport, Leave, GoTo
<1>7. ASSUME NEW t \in Threads, CheckPort(t) PROVE Unspent'
  BY <1>7 DEF CheckPort, GoTo
<1>8. ASSUME NEW t \in Threads, OpenPort(t) PROVE Unspent'
  BY <1>8 DEF OpenPort, GoTo
<1>9. ASSUME NEW t \in Threads, PortAvailable(t) PROVE Unspent'
  BY <1>9 DEF PortAvailable, GoTo
<1>10. ASSUME NEW t \in Threads, OpenFails(t) PROVE Unspent'
  BY <1>10 DEF OpenFails, Release, Leave, GoTo
<1>11. ASSUME NEW t \in Threads, AssertFails(t) PROVE Unspent'
  BY <1>11 DEF AssertFails, Raise, Release, Leave, GoTo
<1>12. ASSUME NEW t \in Threads, PortNotOpen(t) PROVE Unspent'
  BY <1>12 DEF PortNotOpen, Raise, Release, Leave, GoTo
<1>13. ASSUME NEW t \in Threads, Send(t) PROVE Unspent'
  BY <1>13 DEF Send, GoTo
<1>14. ASSUME NEW t \in Threads, Reply(t) PROVE Unspent'
  BY <1>14 DEF Reply, NextRead, GoTo
<1>15. ASSUME NEW t \in Threads, BadChecksum(t) PROVE Unspent'
  BY <1>15 DEF BadChecksum, NextRead, GoTo
<1>16. ASSUME NEW t \in Threads, ShortRead(t) PROVE Unspent'
  BY <1>16 DEF ShortRead, TimedOut, NextRead, GoTo
<1>17. ASSUME NEW t \in Threads, ShortReadNoPort(t) PROVE Unspent'
  BY <1>17 DEF ShortReadNoPort, TimedOut, Raise, Release, Leave, GoTo
<1>18. ASSUME NEW t \in Threads, ReadRaises(t) PROVE Unspent'
  BY <1>18 DEF ReadRaises, Raise, Release, Leave, GoTo
<1>19. ASSUME NEW t \in Threads, Incomplete(t) PROVE Unspent'
  BY <1>19 DEF Incomplete, Release, Leave, GoTo
<1>20. ASSUME NEW t \in Threads, Complete(t) PROVE Unspent'
  BY <1>20 DEF Complete, Release, Leave, GoTo
<1>21. CASE Tick
  BY <1>21 DEF Tick, Waiting, Prompt, Closing, Kill
<1>22. CASE UNCHANGED vars
  BY <1>22 DEF vars
<1>23. QED
  BY <1>1, <1>2, <1>3, <1>4, <1>5, <1>6, <1>7, <1>8, <1>9, <1>10, <1>11,
     <1>12, <1>13, <1>14, <1>15, <1>16, <1>17, <1>18, <1>19, <1>20, <1>21,
     <1>22
     DEF Next, Step, Body, Read, Reset

\* A waiting caller is never older than the read it waits for.
LEMMA TurnPreserved ==
    ASSUME TwoCallers, Values, OneOwner, Clocks, FreshFrame, Unspent, NoReset,
           Turn, [Next]_vars
    PROVE  Turn'
<1> USE ThreadAssumption, TimeAssumption DEF Values, OneOwner, Clocks,
     FreshFrame, Unspent, Turn, Spent, TwoCallers, NoReset, Running, driver, frame, OwnerSteps, ResetSteps, NReads
<1>1. ASSUME NEW t \in Threads, Call(t) PROVE Turn'
  BY <1>1 DEF Call, GoTo
<1>2. ASSUME NEW t \in Threads, Acquire(t) PROVE Turn'
  BY <1>2 DEF Acquire, GoTo
<1>3. ASSUME NEW t \in Threads, LockTimeout(t) PROVE Turn'
  BY <1>3 DEF LockTimeout, GoTo
<1>4. ASSUME NEW t \in Threads, ResetClose(t) PROVE Turn'
  BY <1>4 DEF ResetClose, Kill, GoTo
<1>5. ASSUME NEW t \in Threads, ResetForget(t) PROVE Turn'
  BY <1>5 DEF ResetForget, GoTo
<1>6. ASSUME NEW t \in Threads, ResetReport(t) PROVE Turn'
  BY <1>6 DEF ResetReport, Leave, GoTo
<1>7. ASSUME NEW t \in Threads, CheckPort(t) PROVE Turn'
  BY <1>7 DEF CheckPort, GoTo
<1>8. ASSUME NEW t \in Threads, OpenPort(t) PROVE Turn'
  BY <1>8 DEF OpenPort, GoTo
<1>9. ASSUME NEW t \in Threads, PortAvailable(t) PROVE Turn'
  BY <1>9 DEF PortAvailable, GoTo
<1>10. ASSUME NEW t \in Threads, OpenFails(t) PROVE Turn'
  <2>1. pc[t] \in OwnerSteps /\ Release(t, "failed")
    BY <1>10 DEF OpenFails
  <2>2. QED
    BY <2>1, ReleasePassesTurn
<1>11. ASSUME NEW t \in Threads, AssertFails(t) PROVE Turn'
  <2>1. pc[t] \in OwnerSteps /\ Release(t, "failed")
    BY <1>11 DEF AssertFails, Raise
  <2>2. QED
    BY <2>1, ReleasePassesTurn
<1>12. ASSUME NEW t \in Threads, PortNotOpen(t) PROVE Turn'
  <2>1. pc[t] \in OwnerSteps /\ Release(t, "failed")
    BY <1>12 DEF PortNotOpen, Raise
  <2>2. QED
    BY <2>1, ReleasePassesTurn
<1>13. ASSUME NEW t \in Threads, Send(t) PROVE Turn'
  BY <1>13 DEF Send, GoTo
<1>14. ASSUME NEW t \in Threads, Reply(t) PROVE Turn'
  BY <1>14 DEF Reply, NextRead, GoTo
<1>15. ASSUME NEW t \in Threads, BadChecksum(t) PROVE Turn'
  BY <1>15 DEF BadChecksum, NextRead, GoTo
<1>16. ASSUME NEW t \in Threads, ShortRead(t) PROVE Turn'
  <2>1. NextRead(t, TRUE) /\ pc[t] = "read"
    BY <1>16 DEF ShortRead, TimedOut
  <2>2. QED
    BY <2>1 DEF NextRead, GoTo
<1>17. ASSUME NEW t \in Threads, ShortReadNoPort(t) PROVE Turn'
  <2>1. pc[t] \in OwnerSteps /\ Release(t, "failed")
    BY <1>17 DEF ShortReadNoPort, TimedOut, Raise
  <2>2. QED
    BY <2>1, ReleasePassesTurn
<1>18. ASSUME NEW t \in Threads, ReadRaises(t) PROVE Turn'
  <2>1. pc[t] \in OwnerSteps /\ Release(t, "failed")
    BY <1>18 DEF ReadRaises, Raise
  <2>2. QED
    BY <2>1, ReleasePassesTurn
<1>19. ASSUME NEW t \in Threads, Incomplete(t) PROVE Turn'
  <2>1. pc[t] \in OwnerSteps /\ Release(t, "failed")
    BY <1>19 DEF Incomplete
  <2>2. QED
    BY <2>1, ReleasePassesTurn
<1>20. ASSUME NEW t \in Threads, Complete(t) PROVE Turn'
  <2>1. pc[t] \in OwnerSteps /\ Release(t, "data")
    BY <1>20 DEF Complete
  <2>2. QED
    BY <2>1, ReleasePassesTurn
<1>21. CASE Tick
  BY <1>21 DEF Tick, Waiting, Prompt, Closing, Kill
<1>22. CASE UNCHANGED vars
  BY <1>22 DEF vars
<1>23. QED
  BY <1>1, <1>2, <1>3, <1>4, <1>5, <1>6, <1>7, <1>8, <1>9, <1>10, <1>11,
     <1>12, <1>13, <1>14, <1>15, <1>16, <1>17, <1>18, <1>19, <1>20, <1>21,
     <1>22
     DEF Next, Step, Body, Read, Reset

\* No caller waits until its timeout.
LEMMA NoResetPreserved ==
    ASSUME TwoCallers, Values, OneOwner, Clocks, FreshFrame, Unspent, NoReset,
           Turn, [Next]_vars
    PROVE  NoReset'
<1> USE ThreadAssumption, TimeAssumption DEF Values, NoReset, driver, frame,
     OwnerSteps, ResetSteps
<1>1. ASSUME NEW t \in Threads, Call(t) PROVE NoReset'
  BY <1>1 DEF Call, GoTo
<1>2. ASSUME NEW t \in Threads, Acquire(t) PROVE NoReset'
  BY <1>2 DEF Acquire, GoTo
<1>3. ASSUME NEW t \in Threads, LockTimeout(t) PROVE NoReset'
  <2>1. age[t] <= Spent /\ age[t] = LockWait /\ lock # NoThread
    BY <1>3 DEF LockTimeout, Turn
  <2>2. Spent \in Nat /\ Spent <= NReads * CommandTime
    BY <2>1, SpentBounded
  <2>3. QED
    BY <2>1, <2>2 DEF TwoCallers, NReads
<1>4. ASSUME NEW t \in Threads, ResetClose(t) PROVE NoReset'
  BY <1>4 DEF ResetClose, Kill, GoTo
<1>5. ASSUME NEW t \in Threads, ResetForget(t) PROVE NoReset'
  BY <1>5 DEF ResetForget, GoTo
<1>6. ASSUME NEW t \in Threads, ResetReport(t) PROVE NoReset'
  BY <1>6 DEF ResetReport, Leave, GoTo
<1>7. ASSUME NEW t \in Threads, CheckPort(t) PROVE NoReset'
  BY <1>7 DEF CheckPort, GoTo
<1>8. ASSUME NEW t \in Threads, OpenPort(t) PROVE NoReset'
  BY <1>8 DEF OpenPort, GoTo
<1>9. ASSUME NEW t \in Threads, PortAvailable(t) PROVE NoReset'
  BY <1>9 DEF PortAvailable, GoTo
<1>10. ASSUME NEW t \in Threads, OpenFails(t) PROVE NoReset'
  BY <1>10 DEF OpenFails, Release, Leave, GoTo
<1>11. ASSUME NEW t \in Threads, AssertFails(t) PROVE NoReset'
  BY <1>11 DEF AssertFails, Raise, Release, Leave, GoTo
<1>12. ASSUME NEW t \in Threads, PortNotOpen(t) PROVE NoReset'
  BY <1>12 DEF PortNotOpen, Raise, Release, Leave, GoTo
<1>13. ASSUME NEW t \in Threads, Send(t) PROVE NoReset'
  BY <1>13 DEF Send, GoTo
<1>14. ASSUME NEW t \in Threads, Reply(t) PROVE NoReset'
  BY <1>14 DEF Reply, NextRead, GoTo
<1>15. ASSUME NEW t \in Threads, BadChecksum(t) PROVE NoReset'
  BY <1>15 DEF BadChecksum, NextRead, GoTo
<1>16. ASSUME NEW t \in Threads, ShortRead(t) PROVE NoReset'
  BY <1>16 DEF ShortRead, TimedOut, NextRead, GoTo
<1>17. ASSUME NEW t \in Threads, ShortReadNoPort(t) PROVE NoReset'
  BY <1>17 DEF ShortReadNoPort, TimedOut, Raise, Release, Leave, GoTo
<1>18. ASSUME NEW t \in Threads, ReadRaises(t) PROVE NoReset'
  BY <1>18 DEF ReadRaises, Raise, Release, Leave, GoTo
<1>19. ASSUME NEW t \in Threads, Incomplete(t) PROVE NoReset'
  BY <1>19 DEF Incomplete, Release, Leave, GoTo
<1>20. ASSUME NEW t \in Threads, Complete(t) PROVE NoReset'
  BY <1>20 DEF Complete, Release, Leave, GoTo
<1>21. CASE Tick
  BY <1>21 DEF Tick, Waiting, Prompt, Closing, Kill
<1>22. CASE UNCHANGED vars
  BY <1>22 DEF vars
<1>23. QED
  BY <1>1, <1>2, <1>3, <1>4, <1>5, <1>6, <1>7, <1>8, <1>9, <1>10, <1>11,
     <1>12, <1>13, <1>14, <1>15, <1>16, <1>17, <1>18, <1>19, <1>20, <1>21,
     <1>22
     DEF Next, Step, Body, Read, Reset

\* Without resets the owner's port is not taken away.
LEMMA PortKeptPreserved ==
    ASSUME Values, OneOwner, NoReset, OpensNothing, PortKept, [Next]_vars
    PROVE  PortKept'
<1> USE ThreadAssumption DEF Values, OneOwner, NoReset, PortKept, driver, frame,
     OwnerSteps, ResetSteps
<1>1. ASSUME NEW t \in Threads, Call(t) PROVE PortKept'
  BY <1>1 DEF Call, GoTo
<1>2. ASSUME NEW t \in Threads, Acquire(t) PROVE PortKept'
  BY <1>2 DEF Acquire, GoTo
<1>3. ASSUME NEW t \in Threads, LockTimeout(t) PROVE PortKept'
  BY <1>3 DEF LockTimeout, GoTo
<1>4. ASSUME NEW t \in Threads, ResetClose(t) PROVE PortKept'
  BY <1>4 DEF ResetClose, Kill, GoTo
<1>5. ASSUME NEW t \in Threads, ResetForget(t) PROVE PortKept'
  BY <1>5 DEF ResetForget, GoTo
<1>6. ASSUME NEW t \in Threads, ResetReport(t) PROVE PortKept'
  BY <1>6 DEF ResetReport, Leave, GoTo
<1>7. ASSUME NEW t \in Threads, CheckPort(t) PROVE PortKept'
  BY <1>7 DEF CheckPort, GoTo
<1>8. ASSUME NEW t \in Threads, OpenPort(t) PROVE PortKept'
  BY <1>8 DEF OpenPort, GoTo
<1>9. ASSUME NEW t \in Threads, PortAvailable(t) PROVE PortKept'
  BY <1>9 DEF PortAvailable, GoTo
<1>10. ASSUME NEW t \in Threads, OpenFails(t) PROVE PortKept'
  BY <1>10 DEF OpenFails, Release, Leave, GoTo
<1>11. ASSUME NEW t \in Threads, AssertFails(t) PROVE PortKept'
  BY <1>11 DEF AssertFails, Raise, Release, Leave, GoTo
<1>12. ASSUME NEW t \in Threads, PortNotOpen(t) PROVE PortKept'
  BY <1>12 DEF PortNotOpen, Raise, Release, Leave, GoTo
<1>13. ASSUME NEW t \in Threads, Send(t) PROVE PortKept'
  BY <1>13 DEF Send, GoTo
<1>14. ASSUME NEW t \in Threads, Reply(t) PROVE PortKept'
  BY <1>14 DEF Reply, NextRead, GoTo
<1>15. ASSUME NEW t \in Threads, BadChecksum(t) PROVE PortKept'
  BY <1>15 DEF BadChecksum, NextRead, GoTo
<1>16. ASSUME NEW t \in Threads, ShortRead(t) PROVE PortKept'
  BY <1>16 DEF ShortRead, TimedOut, NextRead, GoTo
<1>17. ASSUME NEW t \in Threads, ShortReadNoPort(t) PROVE PortKept'
  BY <1>17 DEF ShortReadNoPort, TimedOut, Raise, Release, Leave, GoTo
<1>18. ASSUME NEW t \in Threads, ReadRaises(t) PROVE PortKept'
  BY <1>18 DEF ReadRaises, Raise, Release, Leave, GoTo
<1>19. ASSUME NEW t \in Threads, Incomplete(t) PROVE PortKept'
  BY <1>19 DEF Incomplete, Release, Leave, GoTo
<1>20. ASSUME NEW t \in Threads, Complete(t) PROVE PortKept'
  BY <1>20 DEF Complete, Release, Leave, GoTo
<1>21. CASE Tick
  BY <1>21 DEF Tick, Waiting, Prompt, Closing, Kill
<1>22. CASE UNCHANGED vars
  BY <1>22 DEF vars
<1>23. QED
  BY <1>1, <1>2, <1>3, <1>4, <1>5, <1>6, <1>7, <1>8, <1>9, <1>10, <1>11,
     <1>12, <1>13, <1>14, <1>15, <1>16, <1>17, <1>18, <1>19, <1>20, <1>21,
     <1>22
     DEF Next, Step, Body, Read, Reset

\* Without resets every failure leaves the text of an error.
LEMMA ErrorKeptPreserved ==
    ASSUME Values, NoReset, PortKept, ErrorKept, [Next]_vars
    PROVE  ErrorKept'
<1> USE ThreadAssumption DEF Values, NoReset, PortKept, ErrorKept, driver,
     frame, OwnerSteps, ResetSteps
<1>1. ASSUME NEW t \in Threads, Call(t) PROVE ErrorKept'
  BY <1>1 DEF Call, GoTo
<1>2. ASSUME NEW t \in Threads, Acquire(t) PROVE ErrorKept'
  BY <1>2 DEF Acquire, GoTo
<1>3. ASSUME NEW t \in Threads, LockTimeout(t) PROVE ErrorKept'
  BY <1>3 DEF LockTimeout, GoTo
<1>4. ASSUME NEW t \in Threads, ResetClose(t) PROVE ErrorKept'
  BY <1>4 DEF ResetClose, Kill, GoTo
<1>5. ASSUME NEW t \in Threads, ResetForget(t) PROVE ErrorKept'
  BY <1>5 DEF ResetForget, GoTo
<1>6. ASSUME NEW t \in Threads, ResetReport(t) PROVE ErrorKept'
  BY <1>6 DEF ResetReport, Leave, GoTo
<1>7. ASSUME NEW t \in Threads, CheckPort(t) PROVE ErrorKept'
  BY <1>7 DEF CheckPort, GoTo
<1>8. ASSUME NEW t \in Threads, OpenPort(t) PROVE ErrorKept'
  BY <1>8 DEF OpenPort, GoTo
<1>9. ASSUME NEW t \in Threads, PortAvailable(t) PROVE ErrorKept'
  BY <1>9 DEF PortAvailable, GoTo
<1>10. ASSUME NEW t \in Threads, OpenFails(t) PROVE ErrorKept'
  BY <1>10 DEF OpenFails, Release, Leave, GoTo
<1>11. ASSUME NEW t \in Threads, AssertFails(t) PROVE ErrorKept'
  BY <1>11 DEF AssertFails, Raise, Release, Leave, GoTo
<1>12. ASSUME NEW t \in Threads, PortNotOpen(t) PROVE ErrorKept'
  BY <1>12 DEF PortNotOpen, Raise, Release, Leave, GoTo
<1>13. ASSUME NEW t \in Threads, Send(t) PROVE ErrorKept'
  BY <1>13 DEF Send, GoTo
<1>14. ASSUME NEW t \in Threads, Reply(t) PROVE ErrorKept'
  BY <1>14 DEF Reply, NextRead, GoTo
<1>15. ASSUME NEW t \in Threads, BadChecksum(t) PROVE ErrorKept'
  BY <1>15 DEF BadChecksum, NextRead, GoTo
<1>16. ASSUME NEW t \in Threads, ShortRead(t) PROVE ErrorKept'
  BY <1>16 DEF ShortRead, TimedOut, NextRead, GoTo
<1>17. ASSUME NEW t \in Threads, ShortReadNoPort(t) PROVE ErrorKept'
  BY <1>17 DEF ShortReadNoPort, TimedOut, Raise, Release, Leave, GoTo
<1>18. ASSUME NEW t \in Threads, ReadRaises(t) PROVE ErrorKept'
  BY <1>18 DEF ReadRaises, Raise, Release, Leave, GoTo
<1>19. ASSUME NEW t \in Threads, Incomplete(t) PROVE ErrorKept'
  BY <1>19 DEF Incomplete, Release, Leave, GoTo
<1>20. ASSUME NEW t \in Threads, Complete(t) PROVE ErrorKept'
  BY <1>20 DEF Complete, Release, Leave, GoTo
<1>21. CASE Tick
  BY <1>21 DEF Tick, Waiting, Prompt, Closing, Kill
<1>22. CASE UNCHANGED vars
  BY <1>22 DEF vars
<1>23. QED
  BY <1>1, <1>2, <1>3, <1>4, <1>5, <1>6, <1>7, <1>8, <1>9, <1>10, <1>11,
     <1>12, <1>13, <1>14, <1>15, <1>16, <1>17, <1>18, <1>19, <1>20, <1>21,
     <1>22
     DEF Next, Step, Body, Read, Reset

----------------------------------------------------------------------------
(* The theorems. *)

PairInv == Unspent /\ Turn /\ NoReset /\ PortKept /\ ErrorKept

\* What two callers keep beyond the invariant of any number.
LEMMA PairInvariance ==
    ASSUME TwoCallers
    PROVE  Spec => []PairInv
<1>1. Init => PairInv
  BY DEF Init, PairInv, Unspent, Turn, NoReset, PortKept, ErrorKept, ResetSteps
<1>2. IInv /\ PairInv /\ [Next]_vars => PairInv'
  BY TwoCallers, UnspentPreserved, TurnPreserved, NoResetPreserved,
     PortKeptPreserved, ErrorKeptPreserved DEF IInv, TypeOK, PairInv
<1>3. QED
  BY <1>1, <1>2, Invariance, PTL DEF Spec

\* Two callers never reset the port under each other, whatever the line does.
THEOREM TwoCallersNeverReset ==
    ASSUME TwoCallers
    PROVE  Spec => []NoReset
<1>1. PairInv => NoReset
  BY DEF PairInv
<1>2. QED
  BY <1>1, PairInvariance, TwoCallers, PTL

\* With two callers, a failed call is never reported as "connected"; with three,
\* aurora_status finds the call that is.
THEOREM FailedCallShows ==
    ASSUME TwoCallers
    PROVE  Spec => []FailedPollNotConnected
<1>1. PairInv => FailedPollNotConnected
  BY DEF PairInv, ErrorKept, FailedPollNotConnected, Status
<1>2. QED
  BY <1>1, PairInvariance, TwoCallers, PTL
=============================================================================
