--------------------------- MODULE AlfenEve_proofs ---------------------------
(***************************************************************************)
(* The safety of AlfenEve for every set of pollers and optimizers, every    *)
(* set of currents, with or without faults of the disk, damage to the        *)
(* certificate file and a configured path.                                  *)
(*                                                                          *)
(* One invariant carries all six properties.  The lock makes the session    *)
(* and the frame the business of one thread (Exclusive); the roles say      *)
(* which of the two calls that thread is in; and that a session, a retry    *)
(* or an exception presupposes an accepted certificate (Certificate) keeps  *)
(* the second login of a call from fetching the certificate once more.      *)
(***************************************************************************)
EXTENDS AlfenEve, TLAPS

InCall(t) == pc[t] \in LoginSteps \cup BodySteps

\* The constructor runs before there is a lock, and alone.
Exclusive ==
    /\ OneOwner
    /\ ~ready =>
          /\ lock = NoThread
          /\ \A t \in Threads : pc[t] \in {"idle", "resolved"} \cup CertSteps
          /\ \A t, u \in Threads : pc[t] # "idle" /\ pc[u] # "idle" => t = u

\* get_data() is the pollers', set_current() the optimizers'.
Roles ==
    /\ \A t \in Pollers : pc[t] \notin {"post", "posted", "raised"}
    /\ \A t \in Optimizers : pc[t] \notin {"read", "parse"}

\* A session comes after a certificate path, and that path is never looked for
\* again in the life of the process.
Trusting == {"tls", "login", "read", "parse", "post", "posted", "raised"}
Certificate ==
    /\ session \/ retried => verify
    /\ ~ready /\ (\A t \in Threads : pc[t] = "idle") => ~verify
    /\ \A t \in Threads : pc[t] \in CertSteps => ~verify
    /\ \A t \in Threads : pc[t] \in Trusting => verify

\* How many requests a call can have sent at each point of its way.
Budget(t) ==
    CASE pc[t] \in {"resolve", "fetch"} -> 0
      [] pc[t] \in {"create", "write", "resolved"} -> 1
      [] pc[t] = "ensure" -> IF retried THEN 3 ELSE 0
      [] pc[t] \in {"tls", "login"} -> IF retried THEN 3 ELSE 1
      [] pc[t] = "read" -> 1 + read
      [] pc[t] = "parse" -> 5
      [] pc[t] = "post" -> IF retried THEN 4 ELSE 2
      [] pc[t] = "posted" -> IF retried THEN 5 ELSE 3
      [] OTHER -> 0

\* The frame of a call is the lock owner's, and it is clean between calls.
Frame ==
    /\ (\A t \in Threads : ~InCall(t)) => read = 1 /\ ~retried /\ sent = 0
    /\ ~ready => ~retried
    /\ \A t \in Threads : InCall(t) =>
          /\ sent <= Budget(t)
          /\ t \in Pollers => ~retried
          /\ ready /\ t \in Optimizers => amps \in Amps
          /\ pc[t] \notin {"read", "parse"} => read = 1

\* Between the charger's change of limit and the reply, only the caller of
\* set_current() knows the new limit, unless a request that was given up before
\* is applied in the meantime.
Acknowledged ==
    /\ \A t \in Threads : pc[t] = "posted" => limit = amps \/ overtaken
    /\ LimitIsAcknowledged

\* Only the end of a successful series of reads clears the error, and the same
\* call then settles what the poll returns.
FailedPoll ==
    (\A t \in Pollers : pc[t] # "parse") /\ lastPoll = "failed" => failing

IInv ==
    /\ TypeOK /\ Exclusive /\ Roles /\ Certificate
    /\ Frame /\ Acknowledged /\ FailedPoll /\ RaisesOnlyOverCertificate

\* The type invariant, with its Booleans apart.
Values ==
    /\ pc \in [Threads -> {"idle", "acquire", "raised"} \cup LoginSteps
                              \cup BodySteps]
    /\ lock \in Threads \cup {NoThread}
    /\ read \in 1..Reads
    /\ amps \in Amps \cup {NoAmps}
    /\ sent \in Nat
    /\ lastPoll \in {"never", "data", "failed"}
    /\ lastSet \in Amps \cup {NoAmps}
    /\ limit \in Amps /\ late \subseteq Amps
    /\ PemTypeOK

Flags ==
    /\ ready \in BOOLEAN /\ verify \in BOOLEAN /\ session \in BOOLEAN
    /\ failing \in BOOLEAN /\ succeeded \in BOOLEAN
    /\ retried \in BOOLEAN /\ overtaken \in BOOLEAN /\ healthy \in BOOLEAN
    /\ valid \in BOOLEAN /\ explicit \in BOOLEAN

\* The two parts are TypeOK; the provers treat Booleans apart from the rest.
LEMMA TypeParts == TypeOK <=> Values /\ Flags
BY Zenon DEF TypeOK, Values, Flags

----------------------------------------------------------------------------
\* Every step keeps the kinds of the values that are not Booleans.
LEMMA ValuesPreserved ==
    ASSUME Values, Exclusive, Roles, Frame, [Next]_vars
    PROVE  Values'
<1> USE AlfenAssumption DEF Values, PemTypeOK, PemStates, self, cert, frame,
     history, device,
     LoginSteps, CertSteps, BodySteps, Reads, Threads
<1>0. ASSUME NEW t \in Threads, pc[t] = "post" PROVE amps \in Amps
  BY <1>0 DEF Exclusive, Roles, Frame, InCall
<1>1. ASSUME NEW t \in Threads, Construct(t) PROVE Values'
  BY <1>1 DEF Construct, GoTo, At
<1>2. ASSUME NEW t \in Threads, Call(t) PROVE Values'
  BY <1>2 DEF Call, GoTo, At
<1>3. ASSUME NEW t \in Threads, Acquire(t) PROVE Values'
  BY <1>3 DEF Acquire, GoTo, At, Polling
<1>4. ASSUME NEW t \in Threads, Ensure(t) PROVE Values'
  BY <1>4 DEF Ensure, GoTo, At, Continue, Polling
<1>5. ASSUME NEW t \in Threads, ResolveExisting(t) PROVE Values'
  BY <1>5 DEF ResolveExisting, PathGiven, GoTo, At, Exists
<1>6. ASSUME NEW t \in Threads, ResolveMissing(t) PROVE Values'
  BY <1>6 DEF ResolveMissing, PathGiven, GoTo, At, Exists
<1>7. ASSUME NEW t \in Threads, Fetch(t) PROVE Values'
  BY <1>7 DEF Fetch, GoTo, At, Request
<1>8. ASSUME NEW t \in Threads, CreatePin(t) PROVE Values'
  BY <1>8 DEF CreatePin, GoTo, At, CreateFile, PinFails
<1>9. ASSUME NEW t \in Threads, WritePin(t) PROVE Values'
  BY <1>9 DEF WritePin, GoTo, At, WriteFile, PinFails
<1>10. ASSUME NEW t \in Threads, Constructed(t) PROVE Values'
  BY <1>10 DEF Constructed, GoTo, At
<1>11. ASSUME NEW t \in Threads, NotPinned(t) PROVE Values'
  BY <1>11 DEF NotPinned, GoTo, At, Fail, Leave, Polling
<1>12. ASSUME NEW t \in Threads, Pinned(t) PROVE Values'
  BY <1>12 DEF Pinned, GoTo, At
<1>13. ASSUME NEW t \in Threads, Configure(t) PROVE Values'
  BY <1>13 DEF Configure, GoTo, At, Decodes
<1>14. ASSUME NEW t \in Threads, ConfigureRaises(t) PROVE Values'
  BY <1>14 DEF ConfigureRaises, GoTo, At, Decodes, Except, Raise, Fail,
     Leave, Polling
<1>15. ASSUME NEW t \in Threads, LoginAccepted(t) PROVE Values'
  BY <1>15 DEF LoginAccepted, GoTo, At, Continue, Polling, Request
<1>16. ASSUME NEW t \in Threads, LoginFails(t) PROVE Values'
  BY <1>16 DEF LoginFails, GoTo, At, Fail, Leave, Polling
<1>17. ASSUME NEW t \in Threads, ReadProperty(t) PROVE Values'
  BY <1>17 DEF ReadProperty, GoTo, At, Request, Reads
<1>18. ASSUME NEW t \in Threads, ReadRaises(t) PROVE Values'
  BY <1>18 DEF ReadRaises, GoTo, At, Except, Fail, Leave, Polling
<1>19. ASSUME NEW t \in Threads, Parsed(t) PROVE Values'
  BY <1>19 DEF Parsed, GoTo, At, Leave
<1>20. ASSUME NEW t \in Threads, ParseRaises(t) PROVE Values'
  BY <1>20 DEF ParseRaises, GoTo, At, Except, Fail, Leave, Polling
<1>21. ASSUME NEW t \in Threads, PostServed(t) PROVE Values'
  BY <1>0, <1>21 DEF PostServed, GoTo, At, Request
<1>22. ASSUME NEW t \in Threads, PostExpired(t) PROVE Values'
  BY <1>22 DEF PostExpired, GoTo, At, Request
<1>23. ASSUME NEW t \in Threads, PostRefused(t) PROVE Values'
  BY <1>23 DEF PostRefused, GoTo, At, Fail, Leave, Polling
<1>24. ASSUME NEW t \in Threads, PostFails(t) PROVE Values'
  BY <1>0, <1>24 DEF PostFails, Abandon, GoTo, At, Except, Fail, Leave, Polling
<1>25. ASSUME NEW t \in Threads, PostConfirmed(t) PROVE Values'
  BY <1>25 DEF PostConfirmed, GoTo, At, Leave
<1>26. ASSUME NEW t \in Threads, Caught(t) PROVE Values'
  BY <1>26 DEF Caught, GoTo, At
<1>27. CASE ChargerChange
  BY <1>27 DEF ChargerChange, At
<1>28. CASE Expire
  BY <1>28 DEF Expire, At
<1>29. CASE Restart
  BY <1>0, <1>29 DEF Restart, Abandon, At
<1>30. ASSUME NEW t \in Threads, ResolveExplicit(t) PROVE Values'
  BY <1>30 DEF ResolveExplicit, PathGiven, GoTo, At
<1>31. ASSUME NEW a \in Amps, LateLimit(a) PROVE Values'
  BY <1>31 DEF LateLimit, At
<1>32. CASE FileDamaged
  BY <1>32 DEF FileDamaged, Damage
<1>33. CASE UNCHANGED vars
  BY <1>33 DEF vars
<1>34. QED
  BY <1>1, <1>2, <1>3, <1>4, <1>5, <1>6, <1>7, <1>8, <1>9, <1>10, <1>11,
     <1>12, <1>13, <1>14, <1>15, <1>16, <1>17, <1>18, <1>19, <1>20, <1>21,
     <1>22, <1>23, <1>24, <1>25, <1>26, <1>27, <1>28, <1>29, <1>30, <1>31,
     <1>32,
     <1>33
     DEF Next, Step, Login, Resolve, GetData, SetCurrent

\* Every step keeps the flags Boolean.
LEMMA FlagsPreserved ==
    ASSUME Flags, [Next]_vars
    PROVE  Flags'
<1> USE DEF Flags, self, cert, frame, device
<1>1. ASSUME NEW t \in Threads, Construct(t) PROVE Flags'
  BY <1>1 DEF Construct, GoTo, At
<1>2. ASSUME NEW t \in Threads, Call(t) PROVE Flags'
  BY <1>2 DEF Call, GoTo, At
<1>3. ASSUME NEW t \in Threads, Acquire(t) PROVE Flags'
  BY <1>3 DEF Acquire, GoTo, At, Polling
<1>4. ASSUME NEW t \in Threads, Ensure(t) PROVE Flags'
  BY <1>4 DEF Ensure, GoTo, At, Continue, Polling
<1>5. ASSUME NEW t \in Threads, ResolveExisting(t) PROVE Flags'
  BY <1>5 DEF ResolveExisting, PathGiven, GoTo, At, Exists
<1>6. ASSUME NEW t \in Threads, ResolveMissing(t) PROVE Flags'
  BY <1>6 DEF ResolveMissing, PathGiven, GoTo, At, Exists
<1>7. ASSUME NEW t \in Threads, Fetch(t) PROVE Flags'
  BY <1>7 DEF Fetch, GoTo, At, Request
<1>8. ASSUME NEW t \in Threads, CreatePin(t) PROVE Flags'
  BY <1>8 DEF CreatePin, GoTo, At, CreateFile, PinFails
<1>9. ASSUME NEW t \in Threads, WritePin(t) PROVE Flags'
  BY <1>9 DEF WritePin, GoTo, At, WriteFile, PinFails
<1>10. ASSUME NEW t \in Threads, Constructed(t) PROVE Flags'
  BY <1>10 DEF Constructed, GoTo, At
<1>11. ASSUME NEW t \in Threads, NotPinned(t) PROVE Flags'
  BY <1>11 DEF NotPinned, GoTo, At, Fail, Leave, Polling
<1>12. ASSUME NEW t \in Threads, Pinned(t) PROVE Flags'
  BY <1>12 DEF Pinned, GoTo, At
<1>13. ASSUME NEW t \in Threads, Configure(t) PROVE Flags'
  BY <1>13 DEF Configure, GoTo, At, Decodes
<1>14. ASSUME NEW t \in Threads, ConfigureRaises(t) PROVE Flags'
  BY <1>14 DEF ConfigureRaises, GoTo, At, Decodes, Except, Raise, Fail,
     Leave, Polling
<1>15. ASSUME NEW t \in Threads, LoginAccepted(t) PROVE Flags'
  BY <1>15 DEF LoginAccepted, GoTo, At, Continue, Polling, Request
<1>16. ASSUME NEW t \in Threads, LoginFails(t) PROVE Flags'
  BY <1>16 DEF LoginFails, GoTo, At, Fail, Leave, Polling
<1>17. ASSUME NEW t \in Threads, ReadProperty(t) PROVE Flags'
  BY <1>17 DEF ReadProperty, GoTo, At, Request, Reads
<1>18. ASSUME NEW t \in Threads, ReadRaises(t) PROVE Flags'
  BY <1>18 DEF ReadRaises, GoTo, At, Except, Fail, Leave, Polling
<1>19. ASSUME NEW t \in Threads, Parsed(t) PROVE Flags'
  BY <1>19 DEF Parsed, GoTo, At, Leave
<1>20. ASSUME NEW t \in Threads, ParseRaises(t) PROVE Flags'
  BY <1>20 DEF ParseRaises, GoTo, At, Except, Fail, Leave, Polling
<1>21. ASSUME NEW t \in Threads, PostServed(t) PROVE Flags'
  BY <1>21 DEF PostServed, GoTo, At, Request
<1>22. ASSUME NEW t \in Threads, PostExpired(t) PROVE Flags'
  BY <1>22 DEF PostExpired, GoTo, At, Request
<1>23. ASSUME NEW t \in Threads, PostRefused(t) PROVE Flags'
  BY <1>23 DEF PostRefused, GoTo, At, Fail, Leave, Polling
<1>24. ASSUME NEW t \in Threads, PostFails(t) PROVE Flags'
  BY <1>24 DEF PostFails, Abandon, GoTo, At, Except, Fail, Leave, Polling
<1>25. ASSUME NEW t \in Threads, PostConfirmed(t) PROVE Flags'
  BY <1>25 DEF PostConfirmed, GoTo, At, Leave
<1>26. ASSUME NEW t \in Threads, Caught(t) PROVE Flags'
  BY <1>26 DEF Caught, GoTo, At
<1>27. CASE ChargerChange
  BY <1>27 DEF ChargerChange, At
<1>28. CASE Expire
  BY <1>28 DEF Expire, At
<1>29. CASE Restart
  BY <1>29 DEF Restart, Abandon, At
<1>30. ASSUME NEW t \in Threads, ResolveExplicit(t) PROVE Flags'
  BY <1>30 DEF ResolveExplicit, PathGiven, GoTo, At
<1>31. ASSUME NEW a \in Amps, LateLimit(a) PROVE Flags'
  BY <1>31 DEF LateLimit, At
<1>32. CASE FileDamaged
  BY <1>32 DEF FileDamaged, Damage
<1>33. CASE UNCHANGED vars
  BY <1>33 DEF vars
<1>34. QED
  BY <1>1, <1>2, <1>3, <1>4, <1>5, <1>6, <1>7, <1>8, <1>9, <1>10, <1>11,
     <1>12, <1>13, <1>14, <1>15, <1>16, <1>17, <1>18, <1>19, <1>20, <1>21,
     <1>22, <1>23, <1>24, <1>25, <1>26, <1>27, <1>28, <1>29, <1>30, <1>31,
     <1>32,
     <1>33
     DEF Next, Step, Login, Resolve, GetData, SetCurrent

\* Every step keeps the lock with the one thread inside the "with" block, and
\* the constructor alone.
LEMMA ExclusivePreserved ==
    ASSUME TypeOK, Exclusive, [Next]_vars
    PROVE  Exclusive'
<1> USE AlfenAssumption DEF TypeOK, Exclusive, OneOwner, self, cert, frame,
     LoginSteps, CertSteps, BodySteps, Threads
<1>1. ASSUME NEW t \in Threads, Construct(t) PROVE Exclusive'
  BY <1>1 DEF Construct, GoTo, At
<1>2. ASSUME NEW t \in Threads, Call(t) PROVE Exclusive'
  BY <1>2 DEF Call, GoTo, At
<1>3. ASSUME NEW t \in Threads, Acquire(t) PROVE Exclusive'
  BY <1>3 DEF Acquire, GoTo, At, Polling
<1>4. ASSUME NEW t \in Threads, Ensure(t) PROVE Exclusive'
  BY <1>4 DEF Ensure, GoTo, At, Continue, Polling
<1>5. ASSUME NEW t \in Threads, ResolveExisting(t) PROVE Exclusive'
  BY <1>5 DEF ResolveExisting, PathGiven, GoTo, At, Exists
<1>6. ASSUME NEW t \in Threads, ResolveMissing(t) PROVE Exclusive'
  BY <1>6 DEF ResolveMissing, PathGiven, GoTo, At, Exists
<1>7. ASSUME NEW t \in Threads, Fetch(t) PROVE Exclusive'
  BY <1>7 DEF Fetch, GoTo, At, Request
<1>8. ASSUME NEW t \in Threads, CreatePin(t) PROVE Exclusive'
  BY <1>8 DEF CreatePin, GoTo, At, CreateFile, PinFails
<1>9. ASSUME NEW t \in Threads, WritePin(t) PROVE Exclusive'
  BY <1>9 DEF WritePin, GoTo, At, WriteFile, PinFails
<1>10. ASSUME NEW t \in Threads, Constructed(t) PROVE Exclusive'
  BY <1>10 DEF Constructed, GoTo, At
<1>11. ASSUME NEW t \in Threads, NotPinned(t) PROVE Exclusive'
  BY <1>11 DEF NotPinned, GoTo, At, Fail, Leave, Polling
<1>12. ASSUME NEW t \in Threads, Pinned(t) PROVE Exclusive'
  BY <1>12 DEF Pinned, GoTo, At
<1>13. ASSUME NEW t \in Threads, Configure(t) PROVE Exclusive'
  BY <1>13 DEF Configure, GoTo, At, Decodes
<1>14. ASSUME NEW t \in Threads, ConfigureRaises(t) PROVE Exclusive'
  BY <1>14 DEF ConfigureRaises, GoTo, At, Decodes, Except, Raise, Fail,
     Leave, Polling
<1>15. ASSUME NEW t \in Threads, LoginAccepted(t) PROVE Exclusive'
  BY <1>15 DEF LoginAccepted, GoTo, At, Continue, Polling, Request
<1>16. ASSUME NEW t \in Threads, LoginFails(t) PROVE Exclusive'
  BY <1>16 DEF LoginFails, GoTo, At, Fail, Leave, Polling
<1>17. ASSUME NEW t \in Threads, ReadProperty(t) PROVE Exclusive'
  BY <1>17 DEF ReadProperty, GoTo, At, Request, Reads
<1>18. ASSUME NEW t \in Threads, ReadRaises(t) PROVE Exclusive'
  BY <1>18 DEF ReadRaises, GoTo, At, Except, Fail, Leave, Polling
<1>19. ASSUME NEW t \in Threads, Parsed(t) PROVE Exclusive'
  BY <1>19 DEF Parsed, GoTo, At, Leave
<1>20. ASSUME NEW t \in Threads, ParseRaises(t) PROVE Exclusive'
  BY <1>20 DEF ParseRaises, GoTo, At, Except, Fail, Leave, Polling
<1>21. ASSUME NEW t \in Threads, PostServed(t) PROVE Exclusive'
  BY <1>21 DEF PostServed, GoTo, At, Request
<1>22. ASSUME NEW t \in Threads, PostExpired(t) PROVE Exclusive'
  BY <1>22 DEF PostExpired, GoTo, At, Request
<1>23. ASSUME NEW t \in Threads, PostRefused(t) PROVE Exclusive'
  BY <1>23 DEF PostRefused, GoTo, At, Fail, Leave, Polling
<1>24. ASSUME NEW t \in Threads, PostFails(t) PROVE Exclusive'
  BY <1>24 DEF PostFails, Abandon, GoTo, At, Except, Fail, Leave, Polling
<1>25. ASSUME NEW t \in Threads, PostConfirmed(t) PROVE Exclusive'
  BY <1>25 DEF PostConfirmed, GoTo, At, Leave
<1>26. ASSUME NEW t \in Threads, Caught(t) PROVE Exclusive'
  BY <1>26 DEF Caught, GoTo, At
<1>27. CASE ChargerChange
  BY <1>27 DEF ChargerChange, At
<1>28. CASE Expire
  BY <1>28 DEF Expire, At
<1>29. CASE Restart
  BY <1>29 DEF Restart, Abandon, At
<1>30. ASSUME NEW t \in Threads, ResolveExplicit(t) PROVE Exclusive'
  BY <1>30 DEF ResolveExplicit, PathGiven, GoTo, At
<1>31. ASSUME NEW a \in Amps, LateLimit(a) PROVE Exclusive'
  BY <1>31 DEF LateLimit, At
<1>32. CASE FileDamaged
  BY <1>32 DEF FileDamaged, Damage
<1>33. CASE UNCHANGED vars
  BY <1>33 DEF vars
<1>34. QED
  BY <1>1, <1>2, <1>3, <1>4, <1>5, <1>6, <1>7, <1>8, <1>9, <1>10, <1>11,
     <1>12, <1>13, <1>14, <1>15, <1>16, <1>17, <1>18, <1>19, <1>20, <1>21,
     <1>22, <1>23, <1>24, <1>25, <1>26, <1>27, <1>28, <1>29, <1>30, <1>31,
     <1>32,
     <1>33
     DEF Next, Step, Login, Resolve, GetData, SetCurrent

\* A thread never changes the call it is in.
LEMMA RolesPreserved ==
    ASSUME TypeOK, Roles, [Next]_vars
    PROVE  Roles'
<1> USE AlfenAssumption DEF TypeOK, Roles, self, cert, frame, Threads
<1>1. ASSUME NEW t \in Threads, Construct(t) PROVE Roles'
  BY <1>1 DEF Construct, GoTo, At
<1>2. ASSUME NEW t \in Threads, Call(t) PROVE Roles'
  BY <1>2 DEF Call, GoTo, At
<1>3. ASSUME NEW t \in Threads, Acquire(t) PROVE Roles'
  BY <1>3 DEF Acquire, GoTo, At, Polling
<1>4. ASSUME NEW t \in Threads, Ensure(t) PROVE Roles'
  BY <1>4 DEF Ensure, GoTo, At, Continue, Polling
<1>5. ASSUME NEW t \in Threads, ResolveExisting(t) PROVE Roles'
  BY <1>5 DEF ResolveExisting, PathGiven, GoTo, At, Exists
<1>6. ASSUME NEW t \in Threads, ResolveMissing(t) PROVE Roles'
  BY <1>6 DEF ResolveMissing, PathGiven, GoTo, At, Exists
<1>7. ASSUME NEW t \in Threads, Fetch(t) PROVE Roles'
  BY <1>7 DEF Fetch, GoTo, At, Request
<1>8. ASSUME NEW t \in Threads, CreatePin(t) PROVE Roles'
  BY <1>8 DEF CreatePin, GoTo, At, CreateFile, PinFails
<1>9. ASSUME NEW t \in Threads, WritePin(t) PROVE Roles'
  BY <1>9 DEF WritePin, GoTo, At, WriteFile, PinFails
<1>10. ASSUME NEW t \in Threads, Constructed(t) PROVE Roles'
  BY <1>10 DEF Constructed, GoTo, At
<1>11. ASSUME NEW t \in Threads, NotPinned(t) PROVE Roles'
  BY <1>11 DEF NotPinned, GoTo, At, Fail, Leave, Polling
<1>12. ASSUME NEW t \in Threads, Pinned(t) PROVE Roles'
  BY <1>12 DEF Pinned, GoTo, At
<1>13. ASSUME NEW t \in Threads, Configure(t) PROVE Roles'
  BY <1>13 DEF Configure, GoTo, At, Decodes
<1>14. ASSUME NEW t \in Threads, ConfigureRaises(t) PROVE Roles'
  BY <1>14 DEF ConfigureRaises, GoTo, At, Decodes, Except, Raise, Fail,
     Leave, Polling
<1>15. ASSUME NEW t \in Threads, LoginAccepted(t) PROVE Roles'
  BY <1>15 DEF LoginAccepted, GoTo, At, Continue, Polling, Request
<1>16. ASSUME NEW t \in Threads, LoginFails(t) PROVE Roles'
  BY <1>16 DEF LoginFails, GoTo, At, Fail, Leave, Polling
<1>17. ASSUME NEW t \in Threads, ReadProperty(t) PROVE Roles'
  BY <1>17 DEF ReadProperty, GoTo, At, Request, Reads
<1>18. ASSUME NEW t \in Threads, ReadRaises(t) PROVE Roles'
  BY <1>18 DEF ReadRaises, GoTo, At, Except, Fail, Leave, Polling
<1>19. ASSUME NEW t \in Threads, Parsed(t) PROVE Roles'
  BY <1>19 DEF Parsed, GoTo, At, Leave
<1>20. ASSUME NEW t \in Threads, ParseRaises(t) PROVE Roles'
  BY <1>20 DEF ParseRaises, GoTo, At, Except, Fail, Leave, Polling
<1>21. ASSUME NEW t \in Threads, PostServed(t) PROVE Roles'
  BY <1>21 DEF PostServed, GoTo, At, Request
<1>22. ASSUME NEW t \in Threads, PostExpired(t) PROVE Roles'
  BY <1>22 DEF PostExpired, GoTo, At, Request
<1>23. ASSUME NEW t \in Threads, PostRefused(t) PROVE Roles'
  BY <1>23 DEF PostRefused, GoTo, At, Fail, Leave, Polling
<1>24. ASSUME NEW t \in Threads, PostFails(t) PROVE Roles'
  BY <1>24 DEF PostFails, Abandon, GoTo, At, Except, Fail, Leave, Polling
<1>25. ASSUME NEW t \in Threads, PostConfirmed(t) PROVE Roles'
  BY <1>25 DEF PostConfirmed, GoTo, At, Leave
<1>26. ASSUME NEW t \in Threads, Caught(t) PROVE Roles'
  BY <1>26 DEF Caught, GoTo, At
<1>27. CASE ChargerChange
  BY <1>27 DEF ChargerChange, At
<1>28. CASE Expire
  BY <1>28 DEF Expire, At
<1>29. CASE Restart
  BY <1>29 DEF Restart, Abandon, At
<1>30. ASSUME NEW t \in Threads, ResolveExplicit(t) PROVE Roles'
  BY <1>30 DEF ResolveExplicit, PathGiven, GoTo, At
<1>31. ASSUME NEW a \in Amps, LateLimit(a) PROVE Roles'
  BY <1>31 DEF LateLimit, At
<1>32. CASE FileDamaged
  BY <1>32 DEF FileDamaged, Damage
<1>33. CASE UNCHANGED vars
  BY <1>33 DEF vars
<1>34. QED
  BY <1>1, <1>2, <1>3, <1>4, <1>5, <1>6, <1>7, <1>8, <1>9, <1>10, <1>11,
     <1>12, <1>13, <1>14, <1>15, <1>16, <1>17, <1>18, <1>19, <1>20, <1>21,
     <1>22, <1>23, <1>24, <1>25, <1>26, <1>27, <1>28, <1>29, <1>30, <1>31,
     <1>32,
     <1>33
     DEF Next, Step, Login, Resolve, GetData, SetCurrent

\* An accepted certificate path stays, and stands behind every session.
LEMMA CertificatePreserved ==
    ASSUME TypeOK, Exclusive, Certificate, [Next]_vars
    PROVE  Certificate'
<1> USE AlfenAssumption DEF TypeOK, PemTypeOK, PemStates, Exclusive, OneOwner,
     Certificate,
     Trusting, self, cert, frame, device, LoginSteps, CertSteps, BodySteps,
     Threads
<1>1. ASSUME NEW t \in Threads, Construct(t) PROVE Certificate'
  BY <1>1 DEF Construct, GoTo, At
<1>2. ASSUME NEW t \in Threads, Call(t) PROVE Certificate'
  BY <1>2 DEF Call, GoTo, At
<1>3. ASSUME NEW t \in Threads, Acquire(t) PROVE Certificate'
  BY <1>3 DEF Acquire, GoTo, At, Polling
<1>4. ASSUME NEW t \in Threads, Ensure(t) PROVE Certificate'
  BY <1>4 DEF Ensure, GoTo, At, Continue, Polling
<1>5. ASSUME NEW t \in Threads, ResolveExisting(t) PROVE Certificate'
  BY <1>5 DEF ResolveExisting, PathGiven, GoTo, At, Exists
<1>6. ASSUME NEW t \in Threads, ResolveMissing(t) PROVE Certificate'
  BY <1>6 DEF ResolveMissing, PathGiven, GoTo, At, Exists
<1>7. ASSUME NEW t \in Threads, Fetch(t) PROVE Certificate'
  BY <1>7 DEF Fetch, GoTo, At, Request
<1>8. ASSUME NEW t \in Threads, CreatePin(t) PROVE Certificate'
  BY <1>8 DEF CreatePin, GoTo, At, CreateFile, PinFails
<1>9. ASSUME NEW t \in Threads, WritePin(t) PROVE Certificate'
  BY <1>9 DEF WritePin, GoTo, At, WriteFile, PinFails
<1>10. ASSUME NEW t \in Threads, Constructed(t) PROVE Certificate'
  BY <1>10 DEF Constructed, GoTo, At
<1>11. ASSUME NEW t \in Threads, NotPinned(t) PROVE Certificate'
  BY <1>11 DEF NotPinned, GoTo, At, Fail, Leave, Polling
<1>12. ASSUME NEW t \in Threads, Pinned(t) PROVE Certificate'
  BY <1>12 DEF Pinned, GoTo, At
<1>13. ASSUME NEW t \in Threads, Configure(t) PROVE Certificate'
  BY <1>13 DEF Configure, GoTo, At, Decodes
<1>14. ASSUME NEW t \in Threads, ConfigureRaises(t) PROVE Certificate'
  BY <1>14 DEF ConfigureRaises, GoTo, At, Decodes, Except, Raise, Fail,
     Leave, Polling
<1>15. ASSUME NEW t \in Threads, LoginAccepted(t) PROVE Certificate'
  BY <1>15 DEF LoginAccepted, GoTo, At, Continue, Polling, Request
<1>16. ASSUME NEW t \in Threads, LoginFails(t) PROVE Certificate'
  BY <1>16 DEF LoginFails, GoTo, At, Fail, Leave, Polling
<1>17. ASSUME NEW t \in Threads, ReadProperty(t) PROVE Certificate'
  BY <1>17 DEF ReadProperty, GoTo, At, Request, Reads
<1>18. ASSUME NEW t \in Threads, ReadRaises(t) PROVE Certificate'
  BY <1>18 DEF ReadRaises, GoTo, At, Except, Fail, Leave, Polling
<1>19. ASSUME NEW t \in Threads, Parsed(t) PROVE Certificate'
  BY <1>19 DEF Parsed, GoTo, At, Leave
<1>20. ASSUME NEW t \in Threads, ParseRaises(t) PROVE Certificate'
  BY <1>20 DEF ParseRaises, GoTo, At, Except, Fail, Leave, Polling
<1>21. ASSUME NEW t \in Threads, PostServed(t) PROVE Certificate'
  BY <1>21 DEF PostServed, GoTo, At, Request
<1>22. ASSUME NEW t \in Threads, PostExpired(t) PROVE Certificate'
  BY <1>22 DEF PostExpired, GoTo, At, Request
<1>23. ASSUME NEW t \in Threads, PostRefused(t) PROVE Certificate'
  BY <1>23 DEF PostRefused, GoTo, At, Fail, Leave, Polling
<1>24. ASSUME NEW t \in Threads, PostFails(t) PROVE Certificate'
  BY <1>24 DEF PostFails, Abandon, GoTo, At, Except, Fail, Leave, Polling
<1>25. ASSUME NEW t \in Threads, PostConfirmed(t) PROVE Certificate'
  BY <1>25 DEF PostConfirmed, GoTo, At, Leave
<1>26. ASSUME NEW t \in Threads, Caught(t) PROVE Certificate'
  BY <1>26 DEF Caught, GoTo, At
<1>27. CASE ChargerChange
  BY <1>27 DEF ChargerChange, At
<1>28. CASE Expire
  BY <1>28 DEF Expire, At
<1>29. CASE Restart
  BY <1>29 DEF Restart, Abandon, At
<1>30. ASSUME NEW t \in Threads, ResolveExplicit(t) PROVE Certificate'
  BY <1>30 DEF ResolveExplicit, PathGiven, GoTo, At
<1>31. ASSUME NEW a \in Amps, LateLimit(a) PROVE Certificate'
  BY <1>31 DEF LateLimit, At
<1>32. CASE FileDamaged
  BY <1>32 DEF FileDamaged, Damage
<1>33. CASE UNCHANGED vars
  BY <1>33 DEF vars
<1>34. QED
  BY <1>1, <1>2, <1>3, <1>4, <1>5, <1>6, <1>7, <1>8, <1>9, <1>10, <1>11,
     <1>12, <1>13, <1>14, <1>15, <1>16, <1>17, <1>18, <1>19, <1>20, <1>21,
     <1>22, <1>23, <1>24, <1>25, <1>26, <1>27, <1>28, <1>29, <1>30, <1>31,
     <1>32,
     <1>33
     DEF Next, Step, Login, Resolve, GetData, SetCurrent

\* No call exceeds its budget of requests, and every call hands back a clean
\* frame.
LEMMA FramePreserved ==
    ASSUME TypeOK, Exclusive, Roles, Certificate, Frame, [Next]_vars
    PROVE  Frame'
<1> USE AlfenAssumption DEF TypeOK, Exclusive, OneOwner, Roles, Certificate,
     Trusting, Frame, Budget, InCall, self, cert, frame, LoginSteps, CertSteps,
     BodySteps, Threads
<1>1. ASSUME NEW t \in Threads, Construct(t) PROVE Frame'
  BY <1>1 DEF Construct, GoTo, At
<1>2. ASSUME NEW t \in Threads, Call(t) PROVE Frame'
  BY <1>2 DEF Call, GoTo, At
<1>3. ASSUME NEW t \in Threads, Acquire(t) PROVE Frame'
  BY <1>3 DEF Acquire, GoTo, At, Polling
<1>4. ASSUME NEW t \in Threads, Ensure(t) PROVE Frame'
  BY <1>4 DEF Ensure, GoTo, At, Continue, Polling
<1>5. ASSUME NEW t \in Threads, ResolveExisting(t) PROVE Frame'
  BY <1>5 DEF ResolveExisting, PathGiven, GoTo, At, Exists
<1>6. ASSUME NEW t \in Threads, ResolveMissing(t) PROVE Frame'
  BY <1>6 DEF ResolveMissing, PathGiven, GoTo, At, Exists
<1>7. ASSUME NEW t \in Threads, Fetch(t) PROVE Frame'
  BY <1>7 DEF Fetch, GoTo, At, Request
<1>8. ASSUME NEW t \in Threads, CreatePin(t) PROVE Frame'
  BY <1>8 DEF CreatePin, GoTo, At, CreateFile, PinFails
<1>9. ASSUME NEW t \in Threads, WritePin(t) PROVE Frame'
  BY <1>9 DEF WritePin, GoTo, At, WriteFile, PinFails
<1>10. ASSUME NEW t \in Threads, Constructed(t) PROVE Frame'
  BY <1>10 DEF Constructed, GoTo, At
<1>11. ASSUME NEW t \in Threads, NotPinned(t) PROVE Frame'
  BY <1>11 DEF NotPinned, GoTo, At, Fail, Leave, Polling
<1>12. ASSUME NEW t \in Threads, Pinned(t) PROVE Frame'
  BY <1>12 DEF Pinned, GoTo, At
<1>13. ASSUME NEW t \in Threads, Configure(t) PROVE Frame'
  BY <1>13 DEF Configure, GoTo, At, Decodes
<1>14. ASSUME NEW t \in Threads, ConfigureRaises(t) PROVE Frame'
  BY <1>14 DEF ConfigureRaises, GoTo, At, Decodes, Except, Raise, Fail,
     Leave, Polling
<1>15. ASSUME NEW t \in Threads, LoginAccepted(t) PROVE Frame'
  BY <1>15 DEF LoginAccepted, GoTo, At, Continue, Polling, Request
<1>16. ASSUME NEW t \in Threads, LoginFails(t) PROVE Frame'
  BY <1>16 DEF LoginFails, GoTo, At, Fail, Leave, Polling
<1>17. ASSUME NEW t \in Threads, ReadProperty(t) PROVE Frame'
  BY <1>17 DEF ReadProperty, GoTo, At, Request, Reads
<1>18. ASSUME NEW t \in Threads, ReadRaises(t) PROVE Frame'
  BY <1>18 DEF ReadRaises, GoTo, At, Except, Fail, Leave, Polling
<1>19. ASSUME NEW t \in Threads, Parsed(t) PROVE Frame'
  BY <1>19 DEF Parsed, GoTo, At, Leave
<1>20. ASSUME NEW t \in Threads, ParseRaises(t) PROVE Frame'
  BY <1>20 DEF ParseRaises, GoTo, At, Except, Fail, Leave, Polling
<1>21. ASSUME NEW t \in Threads, PostServed(t) PROVE Frame'
  BY <1>21 DEF PostServed, GoTo, At, Request
<1>22. ASSUME NEW t \in Threads, PostExpired(t) PROVE Frame'
  BY <1>22 DEF PostExpired, GoTo, At, Request
<1>23. ASSUME NEW t \in Threads, PostRefused(t) PROVE Frame'
  BY <1>23 DEF PostRefused, GoTo, At, Fail, Leave, Polling
<1>24. ASSUME NEW t \in Threads, PostFails(t) PROVE Frame'
  BY <1>24 DEF PostFails, Abandon, GoTo, At, Except, Fail, Leave, Polling
<1>25. ASSUME NEW t \in Threads, PostConfirmed(t) PROVE Frame'
  BY <1>25 DEF PostConfirmed, GoTo, At, Leave
<1>26. ASSUME NEW t \in Threads, Caught(t) PROVE Frame'
  BY <1>26 DEF Caught, GoTo, At
<1>27. CASE ChargerChange
  BY <1>27 DEF ChargerChange, At
<1>28. CASE Expire
  BY <1>28 DEF Expire, At
<1>29. CASE Restart
  BY <1>29 DEF Restart, Abandon, At
<1>30. ASSUME NEW t \in Threads, ResolveExplicit(t) PROVE Frame'
  BY <1>30 DEF ResolveExplicit, PathGiven, GoTo, At
<1>31. ASSUME NEW a \in Amps, LateLimit(a) PROVE Frame'
  BY <1>31 DEF LateLimit, At
<1>32. CASE FileDamaged
  BY <1>32 DEF FileDamaged, Damage
<1>33. CASE UNCHANGED vars
  BY <1>33 DEF vars
<1>34. QED
  BY <1>1, <1>2, <1>3, <1>4, <1>5, <1>6, <1>7, <1>8, <1>9, <1>10, <1>11,
     <1>12, <1>13, <1>14, <1>15, <1>16, <1>17, <1>18, <1>19, <1>20, <1>21,
     <1>22, <1>23, <1>24, <1>25, <1>26, <1>27, <1>28, <1>29, <1>30, <1>31,
     <1>32,
     <1>33
     DEF Next, Step, Login, Resolve, GetData, SetCurrent

\* The limit changes with a set_current() on its way to its reply, or with a
\* request that was given up, which ends the promise of the last True.
LEMMA AcknowledgedPreserved ==
    ASSUME TypeOK, Exclusive, Roles, Acknowledged, [Next]_vars
    PROVE  Acknowledged'
<1> USE AlfenAssumption DEF TypeOK, Exclusive, OneOwner, Roles, Acknowledged,
     LimitIsAcknowledged, self, cert, frame, history, device, LoginSteps,
     CertSteps, BodySteps, Threads
<1>1. ASSUME NEW t \in Threads, Construct(t) PROVE Acknowledged'
  BY <1>1 DEF Construct, GoTo, At
<1>2. ASSUME NEW t \in Threads, Call(t) PROVE Acknowledged'
  BY <1>2 DEF Call, GoTo, At
<1>3. ASSUME NEW t \in Threads, Acquire(t) PROVE Acknowledged'
  BY <1>3 DEF Acquire, GoTo, At, Polling
<1>4. ASSUME NEW t \in Threads, Ensure(t) PROVE Acknowledged'
  BY <1>4 DEF Ensure, GoTo, At, Continue, Polling
<1>5. ASSUME NEW t \in Threads, ResolveExisting(t) PROVE Acknowledged'
  BY <1>5 DEF ResolveExisting, PathGiven, GoTo, At, Exists
<1>6. ASSUME NEW t \in Threads, ResolveMissing(t) PROVE Acknowledged'
  BY <1>6 DEF ResolveMissing, PathGiven, GoTo, At, Exists
<1>7. ASSUME NEW t \in Threads, Fetch(t) PROVE Acknowledged'
  BY <1>7 DEF Fetch, GoTo, At, Request
<1>8. ASSUME NEW t \in Threads, CreatePin(t) PROVE Acknowledged'
  BY <1>8 DEF CreatePin, GoTo, At, CreateFile, PinFails
<1>9. ASSUME NEW t \in Threads, WritePin(t) PROVE Acknowledged'
  BY <1>9 DEF WritePin, GoTo, At, WriteFile, PinFails
<1>10. ASSUME NEW t \in Threads, Constructed(t) PROVE Acknowledged'
  BY <1>10 DEF Constructed, GoTo, At
<1>11. ASSUME NEW t \in Threads, NotPinned(t) PROVE Acknowledged'
  BY <1>11 DEF NotPinned, GoTo, At, Fail, Leave, Polling
<1>12. ASSUME NEW t \in Threads, Pinned(t) PROVE Acknowledged'
  BY <1>12 DEF Pinned, GoTo, At
<1>13. ASSUME NEW t \in Threads, Configure(t) PROVE Acknowledged'
  BY <1>13 DEF Configure, GoTo, At, Decodes
<1>14. ASSUME NEW t \in Threads, ConfigureRaises(t) PROVE Acknowledged'
  BY <1>14 DEF ConfigureRaises, GoTo, At, Decodes, Except, Raise, Fail,
     Leave, Polling
<1>15. ASSUME NEW t \in Threads, LoginAccepted(t) PROVE Acknowledged'
  BY <1>15 DEF LoginAccepted, GoTo, At, Continue, Polling, Request
<1>16. ASSUME NEW t \in Threads, LoginFails(t) PROVE Acknowledged'
  BY <1>16 DEF LoginFails, GoTo, At, Fail, Leave, Polling
<1>17. ASSUME NEW t \in Threads, ReadProperty(t) PROVE Acknowledged'
  BY <1>17 DEF ReadProperty, GoTo, At, Request, Reads
<1>18. ASSUME NEW t \in Threads, ReadRaises(t) PROVE Acknowledged'
  BY <1>18 DEF ReadRaises, GoTo, At, Except, Fail, Leave, Polling
<1>19. ASSUME NEW t \in Threads, Parsed(t) PROVE Acknowledged'
  BY <1>19 DEF Parsed, GoTo, At, Leave
<1>20. ASSUME NEW t \in Threads, ParseRaises(t) PROVE Acknowledged'
  BY <1>20 DEF ParseRaises, GoTo, At, Except, Fail, Leave, Polling
<1>21. ASSUME NEW t \in Threads, PostServed(t) PROVE Acknowledged'
  BY <1>21 DEF PostServed, GoTo, At, Request
<1>22. ASSUME NEW t \in Threads, PostExpired(t) PROVE Acknowledged'
  BY <1>22 DEF PostExpired, GoTo, At, Request
<1>23. ASSUME NEW t \in Threads, PostRefused(t) PROVE Acknowledged'
  BY <1>23 DEF PostRefused, GoTo, At, Fail, Leave, Polling
<1>24. ASSUME NEW t \in Threads, PostFails(t) PROVE Acknowledged'
  BY <1>24 DEF PostFails, Abandon, GoTo, At, Except, Fail, Leave, Polling
<1>25. ASSUME NEW t \in Threads, PostConfirmed(t) PROVE Acknowledged'
  BY <1>25 DEF PostConfirmed, GoTo, At, Leave
<1>26. ASSUME NEW t \in Threads, Caught(t) PROVE Acknowledged'
  BY <1>26 DEF Caught, GoTo, At
<1>27. CASE ChargerChange
  BY <1>27 DEF ChargerChange, At
<1>28. CASE Expire
  BY <1>28 DEF Expire, At
<1>29. CASE Restart
  BY <1>29 DEF Restart, Abandon, At
<1>30. ASSUME NEW t \in Threads, ResolveExplicit(t) PROVE Acknowledged'
  BY <1>30 DEF ResolveExplicit, PathGiven, GoTo, At
<1>31. ASSUME NEW a \in Amps, LateLimit(a) PROVE Acknowledged'
  BY <1>31 DEF LateLimit, At
<1>32. CASE FileDamaged
  BY <1>32 DEF FileDamaged, Damage
<1>33. CASE UNCHANGED vars
  BY <1>33 DEF vars
<1>34. QED
  BY <1>1, <1>2, <1>3, <1>4, <1>5, <1>6, <1>7, <1>8, <1>9, <1>10, <1>11,
     <1>12, <1>13, <1>14, <1>15, <1>16, <1>17, <1>18, <1>19, <1>20, <1>21,
     <1>22, <1>23, <1>24, <1>25, <1>26, <1>27, <1>28, <1>29, <1>30, <1>31,
     <1>32,
     <1>33
     DEF Next, Step, Login, Resolve, GetData, SetCurrent

\* A failed poll leaves the error set until a later poll succeeds.
LEMMA FailedPollPreserved ==
    ASSUME TypeOK, Exclusive, Roles, FailedPoll, [Next]_vars
    PROVE  FailedPoll'
<1> USE AlfenAssumption DEF TypeOK, Exclusive, OneOwner, Roles, FailedPoll,
     self, cert, frame, history, LoginSteps, CertSteps, BodySteps, Threads
<1>1. ASSUME NEW t \in Threads, Construct(t) PROVE FailedPoll'
  BY <1>1 DEF Construct, GoTo, At
<1>2. ASSUME NEW t \in Threads, Call(t) PROVE FailedPoll'
  BY <1>2 DEF Call, GoTo, At
<1>3. ASSUME NEW t \in Threads, Acquire(t) PROVE FailedPoll'
  BY <1>3 DEF Acquire, GoTo, At, Polling
<1>4. ASSUME NEW t \in Threads, Ensure(t) PROVE FailedPoll'
  BY <1>4 DEF Ensure, GoTo, At, Continue, Polling
<1>5. ASSUME NEW t \in Threads, ResolveExisting(t) PROVE FailedPoll'
  BY <1>5 DEF ResolveExisting, PathGiven, GoTo, At, Exists
<1>6. ASSUME NEW t \in Threads, ResolveMissing(t) PROVE FailedPoll'
  BY <1>6 DEF ResolveMissing, PathGiven, GoTo, At, Exists
<1>7. ASSUME NEW t \in Threads, Fetch(t) PROVE FailedPoll'
  BY <1>7 DEF Fetch, GoTo, At, Request
<1>8. ASSUME NEW t \in Threads, CreatePin(t) PROVE FailedPoll'
  BY <1>8 DEF CreatePin, GoTo, At, CreateFile, PinFails
<1>9. ASSUME NEW t \in Threads, WritePin(t) PROVE FailedPoll'
  BY <1>9 DEF WritePin, GoTo, At, WriteFile, PinFails
<1>10. ASSUME NEW t \in Threads, Constructed(t) PROVE FailedPoll'
  BY <1>10 DEF Constructed, GoTo, At
<1>11. ASSUME NEW t \in Threads, NotPinned(t) PROVE FailedPoll'
  BY <1>11 DEF NotPinned, GoTo, At, Fail, Leave, Polling
<1>12. ASSUME NEW t \in Threads, Pinned(t) PROVE FailedPoll'
  BY <1>12 DEF Pinned, GoTo, At
<1>13. ASSUME NEW t \in Threads, Configure(t) PROVE FailedPoll'
  BY <1>13 DEF Configure, GoTo, At, Decodes
<1>14. ASSUME NEW t \in Threads, ConfigureRaises(t) PROVE FailedPoll'
  BY <1>14 DEF ConfigureRaises, GoTo, At, Decodes, Except, Raise, Fail,
     Leave, Polling
<1>15. ASSUME NEW t \in Threads, LoginAccepted(t) PROVE FailedPoll'
  BY <1>15 DEF LoginAccepted, GoTo, At, Continue, Polling, Request
<1>16. ASSUME NEW t \in Threads, LoginFails(t) PROVE FailedPoll'
  BY <1>16 DEF LoginFails, GoTo, At, Fail, Leave, Polling
<1>17. ASSUME NEW t \in Threads, ReadProperty(t) PROVE FailedPoll'
  BY <1>17 DEF ReadProperty, GoTo, At, Request, Reads
<1>18. ASSUME NEW t \in Threads, ReadRaises(t) PROVE FailedPoll'
  BY <1>18 DEF ReadRaises, GoTo, At, Except, Fail, Leave, Polling
<1>19. ASSUME NEW t \in Threads, Parsed(t) PROVE FailedPoll'
  BY <1>19 DEF Parsed, GoTo, At, Leave
<1>20. ASSUME NEW t \in Threads, ParseRaises(t) PROVE FailedPoll'
  BY <1>20 DEF ParseRaises, GoTo, At, Except, Fail, Leave, Polling
<1>21. ASSUME NEW t \in Threads, PostServed(t) PROVE FailedPoll'
  BY <1>21 DEF PostServed, GoTo, At, Request
<1>22. ASSUME NEW t \in Threads, PostExpired(t) PROVE FailedPoll'
  BY <1>22 DEF PostExpired, GoTo, At, Request
<1>23. ASSUME NEW t \in Threads, PostRefused(t) PROVE FailedPoll'
  BY <1>23 DEF PostRefused, GoTo, At, Fail, Leave, Polling
<1>24. ASSUME NEW t \in Threads, PostFails(t) PROVE FailedPoll'
  BY <1>24 DEF PostFails, Abandon, GoTo, At, Except, Fail, Leave, Polling
<1>25. ASSUME NEW t \in Threads, PostConfirmed(t) PROVE FailedPoll'
  BY <1>25 DEF PostConfirmed, GoTo, At, Leave
<1>26. ASSUME NEW t \in Threads, Caught(t) PROVE FailedPoll'
  BY <1>26 DEF Caught, GoTo, At
<1>27. CASE ChargerChange
  BY <1>27 DEF ChargerChange, At
<1>28. CASE Expire
  BY <1>28 DEF Expire, At
<1>29. CASE Restart
  BY <1>29 DEF Restart, Abandon, At
<1>30. ASSUME NEW t \in Threads, ResolveExplicit(t) PROVE FailedPoll'
  BY <1>30 DEF ResolveExplicit, PathGiven, GoTo, At
<1>31. ASSUME NEW a \in Amps, LateLimit(a) PROVE FailedPoll'
  BY <1>31 DEF LateLimit, At
<1>32. CASE FileDamaged
  BY <1>32 DEF FileDamaged, Damage
<1>33. CASE UNCHANGED vars
  BY <1>33 DEF vars
<1>34. QED
  BY <1>1, <1>2, <1>3, <1>4, <1>5, <1>6, <1>7, <1>8, <1>9, <1>10, <1>11,
     <1>12, <1>13, <1>14, <1>15, <1>16, <1>17, <1>18, <1>19, <1>20, <1>21,
     <1>22, <1>23, <1>24, <1>25, <1>26, <1>27, <1>28, <1>29, <1>30, <1>31,
     <1>32,
     <1>33
     DEF Next, Step, Login, Resolve, GetData, SetCurrent

\* Only a certificate file that cannot be read and decoded raises in
\* set_current(): nothing repairs the file while the path is held.
LEMMA RaisesPreserved ==
    ASSUME TypeOK, Exclusive, Roles, Certificate, RaisesOnlyOverCertificate,
     [Next]_vars
    PROVE  RaisesOnlyOverCertificate'
<1> USE AlfenAssumption DEF TypeOK, PemTypeOK, PemStates, Exclusive, OneOwner,
     Roles,
     Certificate, Trusting, RaisesOnlyOverCertificate, Polling, self, cert,
     frame, device, LoginSteps, CertSteps, BodySteps, Threads
<1>1. ASSUME NEW t \in Threads, Construct(t) PROVE RaisesOnlyOverCertificate'
  BY <1>1 DEF Construct, GoTo, At
<1>2. ASSUME NEW t \in Threads, Call(t) PROVE RaisesOnlyOverCertificate'
  BY <1>2 DEF Call, GoTo, At
<1>3. ASSUME NEW t \in Threads, Acquire(t) PROVE RaisesOnlyOverCertificate'
  BY <1>3 DEF Acquire, GoTo, At, Polling
<1>4. ASSUME NEW t \in Threads, Ensure(t) PROVE RaisesOnlyOverCertificate'
  BY <1>4 DEF Ensure, GoTo, At, Continue, Polling
<1>5. ASSUME NEW t \in Threads,
     ResolveExisting(t) PROVE RaisesOnlyOverCertificate'
  BY <1>5 DEF ResolveExisting, PathGiven, GoTo, At, Exists
<1>6. ASSUME NEW t \in Threads,
     ResolveMissing(t) PROVE RaisesOnlyOverCertificate'
  BY <1>6 DEF ResolveMissing, PathGiven, GoTo, At, Exists
<1>7. ASSUME NEW t \in Threads, Fetch(t) PROVE RaisesOnlyOverCertificate'
  BY <1>7 DEF Fetch, GoTo, At, Request
<1>8. ASSUME NEW t \in Threads, CreatePin(t) PROVE RaisesOnlyOverCertificate'
  BY <1>8 DEF CreatePin, GoTo, At, CreateFile, PinFails
<1>9. ASSUME NEW t \in Threads, WritePin(t) PROVE RaisesOnlyOverCertificate'
  BY <1>9 DEF WritePin, GoTo, At, WriteFile, PinFails
<1>10. ASSUME NEW t \in Threads, Constructed(t) PROVE RaisesOnlyOverCertificate'
  BY <1>10 DEF Constructed, GoTo, At
<1>11. ASSUME NEW t \in Threads, NotPinned(t) PROVE RaisesOnlyOverCertificate'
  BY <1>11 DEF NotPinned, GoTo, At, Fail, Leave, Polling
<1>12. ASSUME NEW t \in Threads, Pinned(t) PROVE RaisesOnlyOverCertificate'
  BY <1>12 DEF Pinned, GoTo, At
<1>13. ASSUME NEW t \in Threads, Configure(t) PROVE RaisesOnlyOverCertificate'
  BY <1>13 DEF Configure, GoTo, At, Decodes
<1>14. ASSUME NEW t \in Threads,
     ConfigureRaises(t) PROVE RaisesOnlyOverCertificate'
  BY <1>14 DEF ConfigureRaises, GoTo, At, Decodes, Except, Raise, Fail,
     Leave, Polling
<1>15. ASSUME NEW t \in Threads,
     LoginAccepted(t) PROVE RaisesOnlyOverCertificate'
  BY <1>15 DEF LoginAccepted, GoTo, At, Continue, Polling, Request
<1>16. ASSUME NEW t \in Threads, LoginFails(t) PROVE RaisesOnlyOverCertificate'
  BY <1>16 DEF LoginFails, GoTo, At, Fail, Leave, Polling
<1>17. ASSUME NEW t \in Threads,
     ReadProperty(t) PROVE RaisesOnlyOverCertificate'
  BY <1>17 DEF ReadProperty, GoTo, At, Request, Reads
<1>18. ASSUME NEW t \in Threads, ReadRaises(t) PROVE RaisesOnlyOverCertificate'
  BY <1>18 DEF ReadRaises, GoTo, At, Except, Fail, Leave, Polling
<1>19. ASSUME NEW t \in Threads, Parsed(t) PROVE RaisesOnlyOverCertificate'
  BY <1>19 DEF Parsed, GoTo, At, Leave
<1>20. ASSUME NEW t \in Threads, ParseRaises(t) PROVE RaisesOnlyOverCertificate'
  BY <1>20 DEF ParseRaises, GoTo, At, Except, Fail, Leave, Polling
<1>21. ASSUME NEW t \in Threads, PostServed(t) PROVE RaisesOnlyOverCertificate'
  BY <1>21 DEF PostServed, GoTo, At, Request
<1>22. ASSUME NEW t \in Threads, PostExpired(t) PROVE RaisesOnlyOverCertificate'
  BY <1>22 DEF PostExpired, GoTo, At, Request
<1>23. ASSUME NEW t \in Threads, PostRefused(t) PROVE RaisesOnlyOverCertificate'
  BY <1>23 DEF PostRefused, GoTo, At, Fail, Leave, Polling
<1>24. ASSUME NEW t \in Threads, PostFails(t) PROVE RaisesOnlyOverCertificate'
  BY <1>24 DEF PostFails, Abandon, GoTo, At, Except, Fail, Leave, Polling
<1>25. ASSUME NEW t \in Threads,
     PostConfirmed(t) PROVE RaisesOnlyOverCertificate'
  BY <1>25 DEF PostConfirmed, GoTo, At, Leave
<1>26. ASSUME NEW t \in Threads, Caught(t) PROVE RaisesOnlyOverCertificate'
  BY <1>26 DEF Caught, GoTo, At
<1>27. CASE ChargerChange
  BY <1>27 DEF ChargerChange, At
<1>28. CASE Expire
  BY <1>28 DEF Expire, At
<1>29. CASE Restart
  BY <1>29 DEF Restart, Abandon, At
<1>30. ASSUME NEW t \in Threads,
     ResolveExplicit(t) PROVE RaisesOnlyOverCertificate'
  BY <1>30 DEF ResolveExplicit, PathGiven, GoTo, At
<1>31. ASSUME NEW a \in Amps, LateLimit(a) PROVE RaisesOnlyOverCertificate'
  BY <1>31 DEF LateLimit, At
<1>32. CASE FileDamaged
  BY <1>32 DEF FileDamaged, Damage
<1>33. CASE UNCHANGED vars
  BY <1>33 DEF vars
<1>34. QED
  BY <1>1, <1>2, <1>3, <1>4, <1>5, <1>6, <1>7, <1>8, <1>9, <1>10, <1>11,
     <1>12, <1>13, <1>14, <1>15, <1>16, <1>17, <1>18, <1>19, <1>20, <1>21,
     <1>22, <1>23, <1>24, <1>25, <1>26, <1>27, <1>28, <1>29, <1>30, <1>31,
     <1>32,
     <1>33
     DEF Next, Step, Login, Resolve, GetData, SetCurrent

----------------------------------------------------------------------------
(* The theorems. *)

\* A process that has just started satisfies the inductive invariant.
LEMMA InvInit == Init => IInv
<1> SUFFICES ASSUME Init PROVE IInv
  OBVIOUS
<1> USE AlfenAssumption DEF Init, LoginSteps, CertSteps, BodySteps
<1>1. Values
  BY DEF Values, PemTypeOK, PemStates, CertInit, Reads
<1>2. Flags
  BY DEF Flags, CertInit
<1>3. Exclusive /\ Roles
  BY DEF Exclusive, OneOwner, Roles, Threads
<1>4. Certificate /\ Frame
  BY DEF Certificate, Trusting, Frame, InCall, Budget
<1>5. Acknowledged /\ FailedPoll /\ RaisesOnlyOverCertificate
  BY DEF Acknowledged, LimitIsAcknowledged, FailedPoll,
     RaisesOnlyOverCertificate, Threads
<1>6. QED
  BY <1>1, <1>2, <1>3, <1>4, <1>5, TypeParts DEF IInv

\* Every step of a thread, of the charger and of the process preserves it.
LEMMA InvStep == IInv /\ [Next]_vars => IInv'
<1> SUFFICES ASSUME IInv, [Next]_vars PROVE IInv'
  OBVIOUS
<1> USE DEF IInv
<1>1. Values' /\ Flags'
  BY TypeParts, ValuesPreserved, FlagsPreserved
<1>2. TypeOK'
  BY <1>1, Zenon DEF TypeOK, Values, Flags
<1>3. QED
  BY <1>2, ExclusivePreserved, RolesPreserved, CertificatePreserved,
     FramePreserved, AcknowledgedPreserved, FailedPollPreserved, RaisesPreserved

\* The inductive invariant holds in every reachable state.
THEOREM Invariance == Spec => []IInv
BY InvInit, InvStep, PTL DEF Spec

\* Type correctness of the driver's fields, the callers' frames and the file.
THEOREM TypeCorrect == Spec => []TypeOK
<1>1. IInv => TypeOK
  BY DEF IInv
<1>2. QED
  BY <1>1, Invariance, PTL

\* _session_lock is neither leaked nor shared, on whichever of the many ways
\* out a call takes: for any number of callers, exactly its owner is between
\* acquiring and releasing it.
THEOREM LockHasOneOwner == Spec => []OneOwner
<1>1. IInv => OneOwner
  BY DEF IInv, Exclusive
<1>2. QED
  BY <1>1, Invariance, PTL

\* When the last set_current() returned True, its current is the charger's
\* limit, however many callers and currents there are, unless a request given up
\* before is applied after it.
THEOREM LimitAcknowledged == Spec => []LimitIsAcknowledged
<1>1. IInv => LimitIsAcknowledged
  BY DEF IInv, Acknowledged
<1>2. QED
  BY <1>1, Invariance, PTL

\* A failed poll shows as "error" until a poll succeeds, for any number of
\* pollers: set_current() never hides it.
THEOREM FailedPollShows == Spec => []PollFailureShows
<1>1. IInv => PollFailureShows
  BY DEF IInv, FailedPoll, PollFailureShows, Status
<1>2. QED
  BY <1>1, Invariance, PTL

\* A call sends at most MaxRequests requests, whatever the charger answers and
\* whenever the session expires.
THEOREM CallsSendFewRequests == Spec => []RequestsBounded
<1>1. IInv => RequestsBounded
  <2> SUFFICES ASSUME IInv PROVE sent <= MaxRequests
    BY DEF RequestsBounded
  <2> USE TypeParts DEF IInv, Values, Frame, InCall, MaxRequests
  <2>1. CASE \A t \in Threads : ~InCall(t)
    BY <2>1
  <2>2. CASE \E t \in Threads : InCall(t)
    <3>1. PICK t \in Threads : InCall(t) /\ sent <= Budget(t)
      BY <2>2
    <3>2. Budget(t) <= 5
      BY <3>1 DEF Budget, Reads
    <3>3. QED
      BY <3>1, <3>2 DEF Budget, Reads
  <2>3. QED
    BY <2>1, <2>2
<1>2. QED
  BY <1>1, Invariance, PTL

\* "Never raise" is broken over the certificate file only: when it is missing,
\* not readable or not a whole PEM.  get_data() never raises, for any number of
\* callers.
THEOREM RaisesOnlyOverTheCertificate == Spec => []RaisesOnlyOverCertificate
<1>1. IInv => RaisesOnlyOverCertificate
  BY DEF IInv
<1>2. QED
  BY <1>1, Invariance, PTL
=============================================================================
