------------------------------ MODULE AlfenEve ------------------------------
(***************************************************************************)
(* ionemo_drivers/ev/alfen_eve.py: the poller's get_data() and the          *)
(* optimizer's set_current() share one authenticated session under          *)
(* _session_lock; _login() pins the charger's certificate on first use.     *)
(* The charger may expire the session, fail or fall silent before every     *)
(* request, it may apply a request after its caller has given up, somebody  *)
(* may delete the certificate file, and the process may be restarted at any *)
(* point.                                                                   *)
(***************************************************************************)
EXTENDS CertStore, FiniteSets

CONSTANTS
    Pollers, Optimizers,   \* threads that call get_data(), set_current()
    Amps,                  \* currents the optimizer asks for
    MaxLate,               \* bound: different limits under way unanswered
    NoThread, NoAmps

Threads == Pollers \cup Optimizers

ASSUME AlfenAssumption ==
    /\ Pollers \cap Optimizers = {}
    /\ NoThread \notin Threads /\ NoAmps \notin Amps
    /\ MaxLate \in Nat
    /\ DiskFaults \in BOOLEAN /\ FileDamage \in BOOLEAN
    /\ CertPaths \subseteq BOOLEAN

Reads == 3          \* cat=meter1, ids=3600_1, ids=2068_0
MaxRequests == 5    \* TOFU, login, and three more

VARIABLES
    pc,         \* where each thread is
    lock,       \* owner of _session_lock
    ready,      \* __init__() has returned in this process
    verify,     \* self._verify is a path
    session,    \* self._session is not None
    failing,    \* self._last_error is set
    succeeded,  \* self._last_success is not None
    read,       \* property request under way (owner's frame)
    retried,    \* set_current() is past its first 401 (owner's frame)
    amps,       \* argument of set_current() (owner's frame)
    sent,       \* requests the current call has sent, TOFU included
    overtaken,  \* history: an older request was applied after the current one
    lastPoll,   \* history: what the last get_data() returned
    lastSet,    \* history: amps of the last set_current() if it returned True
                \* and no older request was applied after its own
    healthy,    \* the charger and the network do what they should; if not, a
                \* request may also time out, be refused, find another
                \* fingerprint, get any status, or values that do not convert
    valid,      \* the charger accepts the session cookie
    limit,      \* the charger's dynamic current limit
    late        \* limits of requests under way whose caller has given up

self == <<verify, session, failing, succeeded>>
frame == <<read, retried, amps, sent, overtaken>>
history == <<lastPoll, lastSet>>
device == <<healthy, valid, limit, late>>
vars == <<pc, lock, ready, self, frame, history, device, cert>>

CertSteps == {"resolve", "fetch", "create", "write"}
LoginSteps == CertSteps \cup {"resolved", "tls", "login"}
BodySteps == {"ensure", "read", "parse", "post", "posted"}

\* The type invariant.
TypeOK ==
    /\ pc \in [Threads -> {"idle", "acquire", "raised"} \cup LoginSteps
                              \cup BodySteps]
    /\ lock \in Threads \cup {NoThread}
    /\ {ready, verify, session, failing, succeeded, retried, overtaken,
            healthy, valid, explicit} \subseteq BOOLEAN
    /\ read \in 1..Reads
    /\ amps \in Amps \cup {NoAmps}
    /\ sent \in Nat
    /\ lastPoll \in {"never", "data", "failed"}
    /\ lastSet \in Amps \cup {NoAmps}
    /\ limit \in Amps /\ late \subseteq Amps
    /\ PemTypeOK

\* A process in which the driver object has not been constructed.
Init ==
    /\ pc = [t \in Threads |-> "idle"]
    /\ lock = NoThread /\ ready = FALSE
    /\ verify = FALSE /\ session = FALSE
    /\ failing = FALSE /\ succeeded = FALSE
    /\ read = 1 /\ retried = FALSE /\ amps = NoAmps /\ sent = 0
    /\ overtaken = FALSE
    /\ lastPoll = "never" /\ lastSet = NoAmps
    /\ healthy \in BOOLEAN /\ valid = FALSE
    /\ limit \in Amps /\ late = {}
    /\ CertInit

Status == IF failing THEN "error"
          ELSE IF ~succeeded THEN "disabled" ELSE "connected"

GoTo(t, label) == pc' = [pc EXCEPT ![t] = label]
At(t, label) == pc[t] = label
Polling(t) == t \in Pollers
Request == sent' = sent + 1

----------------------------------------------------------------------------
(* Calls and returns *)

\* __init__() resolves the certificate before there is a lock.
Construct(t) ==
    /\ ~ready /\ \A u \in Threads : At(u, "idle")
    /\ GoTo(t, "resolve")
    /\ UNCHANGED <<lock, ready, self, frame, history, device, cert>>

Call(t) ==
    /\ ready /\ At(t, "idle")
    /\ GoTo(t, "acquire")
    /\ UNCHANGED <<lock, ready, self, frame, history, device, cert>>

\* Mutant: the session is used without its lock.
AcquireIgnoresLock(t) ==
    /\ At(t, "acquire")
    /\ lock' = t
    /\ IF Polling(t) THEN UNCHANGED amps ELSE amps' \in Amps
    /\ GoTo(t, "ensure")
    /\ UNCHANGED <<ready, self, read, retried, sent, overtaken, history, device,
                   cert>>

Acquire(t) ==
    /\ At(t, "acquire") /\ lock = NoThread
    /\ lock' = t
    /\ IF Polling(t) THEN UNCHANGED amps ELSE amps' \in Amps
    /\ GoTo(t, "ensure")
    /\ UNCHANGED <<ready, self, read, retried, sent, overtaken, history, device,
                   cert>>

\* The "with" block ends and the frame is gone.
Leave(t, label) ==
    /\ GoTo(t, label)
    /\ lock' = NoThread
    /\ read' = 1 /\ retried' = FALSE /\ amps' = NoAmps /\ sent' = 0
    /\ overtaken' = FALSE

\* None from get_data(), False from set_current().
Fail(t) ==
    /\ Leave(t, "idle")
    /\ lastPoll' = IF Polling(t) THEN "failed" ELSE lastPoll
    /\ lastSet' = IF Polling(t) THEN lastSet ELSE NoAmps
    /\ UNCHANGED ready

\* Mutant: the session that failed is kept.
ExceptKeepsSession(t) ==
    /\ failing' = TRUE
    /\ Fail(t)
    /\ UNCHANGED <<verify, session, succeeded>>

\* Both calls' handling of a RequestException, get_data()'s of any exception.
Except(t) ==
    /\ failing' = TRUE /\ session' = FALSE
    /\ Fail(t)
    /\ UNCHANGED <<verify, succeeded>>

\* Mutant: the exception leaves the lock taken.
RaiseLeaks(t) ==
    /\ GoTo(t, "raised")
    /\ lastSet' = NoAmps
    /\ UNCHANGED <<lock, ready, self, frame, lastPoll>>

\* set_current() lets every other exception through.
Raise(t) ==
    /\ Leave(t, "raised")
    /\ lastSet' = NoAmps
    /\ UNCHANGED <<ready, self, lastPoll>>

----------------------------------------------------------------------------
(* _ensure_session(), _login(), resolve_verify() *)

\* Where a call goes on once it has a session.
Continue(t) == GoTo(t, IF Polling(t) THEN "read" ELSE "post")

Ensure(t) ==
    /\ At(t, "ensure")
    /\ IF session THEN Continue(t)
       ELSE GoTo(t, IF verify THEN "tls" ELSE "resolve")
    /\ UNCHANGED <<lock, ready, self, frame, history, device, cert>>

\* Only the constructor passes ca_cert_path on.
PathGiven == explicit /\ ~ready

ResolveExplicit(t) ==
    /\ At(t, "resolve") /\ PathGiven
    /\ verify' = TRUE
    /\ GoTo(t, "resolved")
    /\ UNCHANGED <<lock, ready, session, failing, succeeded, frame, history,
                   device, cert>>

ResolveExisting(t) ==
    /\ At(t, "resolve") /\ ~PathGiven /\ Exists
    /\ verify' = TRUE
    /\ GoTo(t, "resolved")
    /\ UNCHANGED <<lock, ready, session, failing, succeeded, frame, history,
                   device, cert>>

ResolveMissing(t) ==
    /\ At(t, "resolve") /\ ~PathGiven /\ ~Exists
    /\ GoTo(t, "fetch")
    /\ UNCHANGED <<lock, ready, self, frame, history, device, cert>>

\* ssl.get_server_certificate()
Fetch(t) ==
    /\ At(t, "fetch")
    /\ GoTo(t, "create") \/ (~healthy /\ GoTo(t, "resolved"))
    /\ Request
    /\ UNCHANGED <<lock, ready, self, read, retried, amps, overtaken, history,
                   device, cert>>

CreatePin(t) ==
    /\ At(t, "create")
    /\ \/ CreateFile /\ GoTo(t, "write")
       \/ PinFails /\ GoTo(t, "resolved")
    /\ UNCHANGED <<lock, ready, self, frame, history, device>>

WritePin(t) ==
    /\ At(t, "write")
    /\ \/ WriteFile /\ verify' = TRUE
       \/ PinFails /\ UNCHANGED verify
    /\ GoTo(t, "resolved")
    /\ UNCHANGED <<lock, ready, session, failing, succeeded, frame, history,
                   device>>

Constructed(t) ==
    /\ At(t, "resolved") /\ ~ready
    /\ ready' = TRUE
    /\ GoTo(t, "idle")
    /\ sent' = 0
    /\ UNCHANGED <<lock, self, read, retried, amps, overtaken, history, device,
                   cert>>

\* "TLS certificate not yet pinned"
NotPinned(t) ==
    /\ At(t, "resolved") /\ ready /\ ~verify
    /\ failing' = TRUE
    /\ Fail(t)
    /\ UNCHANGED <<verify, session, succeeded, device, cert>>

Pinned(t) ==
    /\ At(t, "resolved") /\ ready /\ verify
    /\ GoTo(t, "tls")
    /\ UNCHANGED <<lock, ready, self, frame, history, device, cert>>

\* configure_session_tls()
Configure(t) ==
    /\ At(t, "tls") /\ Decodes
    /\ GoTo(t, "login")
    /\ UNCHANGED <<lock, ready, self, frame, history, device, cert>>

\* OSError of read_text() or ValueError of PEM_cert_to_DER_cert(): neither is
\* a RequestException of requests.
ConfigureRaises(t) ==
    /\ At(t, "tls") /\ ~Decodes
    /\ IF Polling(t) THEN Except(t) ELSE Raise(t)
    /\ UNCHANGED <<device, cert>>

LoginAccepted(t) ==
    /\ At(t, "login")
    /\ session' = TRUE /\ valid' = TRUE
    /\ Request
    /\ Continue(t)
    /\ UNCHANGED <<lock, ready, verify, failing, succeeded, read, retried, amps,
                   overtaken, history, healthy, limit, late, cert>>

\* Mutant: a failed login records no error.
LoginFailsSilently(t) ==
    /\ At(t, "login") /\ ~healthy
    /\ Fail(t)
    /\ UNCHANGED <<self, device, cert>>

\* "Login failed" or "Login error"
LoginFails(t) ==
    /\ At(t, "login") /\ ~healthy
    /\ failing' = TRUE
    /\ Fail(t)
    /\ UNCHANGED <<verify, session, succeeded, device, cert>>

----------------------------------------------------------------------------
(* get_data() with a session *)

\* Mutant: one property request too many.
ReadPropertyOffByOne(t) ==
    /\ At(t, "read") /\ (valid \/ ~healthy)
    /\ Request
    /\ IF read <= Reads
       THEN read' = read + 1 /\ UNCHANGED <<pc, failing, succeeded>>
       ELSE /\ failing' = FALSE /\ succeeded' = TRUE
            /\ GoTo(t, "parse") /\ UNCHANGED read
    /\ UNCHANGED <<lock, ready, verify, session, retried, amps, overtaken,
                   history, device, cert>>

\* A 200 is collected, any other status but 401 is silently skipped.  The
\* status fields are set before the properties are parsed.
ReadProperty(t) ==
    /\ At(t, "read") /\ (valid \/ ~healthy)
    /\ Request
    /\ IF read < Reads
       THEN /\ read' = read + 1
            /\ UNCHANGED <<pc, failing, succeeded>>
       ELSE /\ failing' = FALSE /\ succeeded' = TRUE
            /\ GoTo(t, "parse")
            /\ UNCHANGED read
    /\ UNCHANGED <<lock, ready, verify, session, retried, amps, overtaken,
                   history, device, cert>>

\* 401, a RequestException, a body that is not JSON, a property without an id.
ReadRaises(t) ==
    /\ At(t, "read") /\ ~(valid /\ healthy)
    /\ Except(t)
    /\ UNCHANGED <<device, cert>>

Parsed(t) ==
    /\ At(t, "parse")
    /\ Leave(t, "idle")
    /\ lastPoll' = "data"
    /\ UNCHANGED <<ready, self, lastSet, device, cert>>

\* float() or int() of a value.
ParseRaises(t) ==
    /\ At(t, "parse") /\ ~healthy
    /\ Except(t)
    /\ UNCHANGED <<device, cert>>

----------------------------------------------------------------------------
(* set_current() with a session *)

PostServed(t) ==
    /\ At(t, "post") /\ valid
    /\ limit' = amps
    /\ Request
    /\ GoTo(t, "posted")
    /\ UNCHANGED <<lock, ready, self, read, retried, amps, overtaken, history,
                   healthy, valid, late, cert>>

\* Mutant: every 401 is retried.
PostExpiredLoops(t) ==
    /\ At(t, "post") /\ ~valid
    /\ session' = FALSE /\ retried' = TRUE
    /\ Request
    /\ GoTo(t, "ensure")
    /\ UNCHANGED <<lock, ready, verify, failing, succeeded, read, amps,
                   overtaken, history, device, cert>>

\* The first 401: drop the session, log in again and repeat the request.
PostExpired(t) ==
    /\ At(t, "post") /\ ~valid /\ ~retried
    /\ session' = FALSE /\ retried' = TRUE
    /\ Request
    /\ GoTo(t, "ensure")
    /\ UNCHANGED <<lock, ready, verify, failing, succeeded, read, amps,
                   overtaken, history, device, cert>>

\* Mutant: any reply to the request counts as success.
PostRefusedAccepted(t) ==
    /\ At(t, "post") /\ (~healthy \/ (~valid /\ retried))
    /\ lastSet' = amps
    /\ Leave(t, "idle")
    /\ UNCHANGED <<ready, self, lastPoll, device, cert>>

\* The second 401, or any other status: False, and no error is recorded.
PostRefused(t) ==
    /\ At(t, "post") /\ (~healthy \/ (~valid /\ retried))
    /\ Fail(t)
    /\ UNCHANGED <<self, device, cert>>

\* Mutant: the repeated request is outside the try statement.
PostFailsUnhandled(t) ==
    /\ (At(t, "post") \/ At(t, "posted")) /\ ~healthy
    /\ IF retried THEN Raise(t) ELSE Except(t)
    /\ UNCHANGED <<device, cert>>

\* A request that is not answered in time may still be under way when the
\* call, or the process, that sent it is gone.
Abandon ==
    /\ \/ late' = late
       \/ /\ \E u \in Threads : At(u, "post")
          /\ Cardinality(late \cup {amps}) <= MaxLate
          /\ late' = late \cup {amps}
    /\ UNCHANGED <<healthy, valid, limit>>

\* Never sent, applied by the charger and the reply lost, or applied later.
PostFails(t) ==
    /\ (At(t, "post") \/ At(t, "posted")) /\ ~healthy
    /\ Except(t)
    /\ Abandon
    /\ UNCHANGED cert

PostConfirmed(t) ==
    /\ At(t, "posted")
    /\ lastSet' = IF overtaken THEN NoAmps ELSE amps
    /\ Leave(t, "idle")
    /\ UNCHANGED <<ready, self, lastPoll, device, cert>>

\* The job that called set_current() handles the exception.
Caught(t) ==
    /\ At(t, "raised")
    /\ GoTo(t, "idle")
    /\ UNCHANGED <<lock, ready, self, frame, history, device, cert>>

----------------------------------------------------------------------------
(* The world around the driver *)

ChargerChange ==
    /\ healthy' = ~healthy
    /\ UNCHANGED <<pc, lock, ready, self, frame, history, valid, limit, late,
                   cert>>

\* The charger drops the session: idle for too long, or another client.
Expire ==
    /\ valid /\ valid' = FALSE
    /\ UNCHANGED <<pc, lock, ready, self, frame, history, healthy, limit, late,
                   cert>>

\* The charger applies a request whose caller has given up; the same limit may
\* have been sent more than once.
LateLimit(a) ==
    /\ a \in late
    /\ limit' = a /\ late' \in {late, late \ {a}}
    /\ overtaken' = \E t \in Threads : At(t, "posted")
    /\ lastSet' = NoAmps
    /\ UNCHANGED <<pc, lock, ready, self, read, retried, amps, sent, lastPoll,
                   healthy, valid, cert>>

FileDamaged ==
    /\ Damage
    /\ UNCHANGED <<pc, lock, ready, self, frame, history, device>>

\* The process ends and starts again; the file and the charger stay.
Restart ==
    /\ DiskFaults \/ \A t \in Threads : ~At(t, "write")
    /\ pc' = [t \in Threads |-> "idle"]
    /\ lock' = NoThread /\ ready' = FALSE
    /\ verify' = FALSE /\ session' = FALSE
    /\ failing' = FALSE /\ succeeded' = FALSE
    /\ read' = 1 /\ retried' = FALSE /\ amps' = NoAmps /\ sent' = 0
    /\ overtaken' = FALSE
    /\ lastPoll' = "never" /\ lastSet' = NoAmps
    /\ Abandon
    /\ UNCHANGED cert

Resolve(t) == \/ ResolveExplicit(t) \/ ResolveExisting(t) \/ ResolveMissing(t)
              \/ Fetch(t) \/ CreatePin(t) \/ WritePin(t)
Login(t) == \/ Resolve(t) \/ Constructed(t) \/ NotPinned(t) \/ Pinned(t)
            \/ Configure(t) \/ ConfigureRaises(t)
            \/ LoginAccepted(t) \/ LoginFails(t)
GetData(t) == \/ ReadProperty(t) \/ ReadRaises(t) \/ Parsed(t) \/ ParseRaises(t)
SetCurrent(t) == \/ PostServed(t) \/ PostExpired(t) \/ PostRefused(t)
                 \/ PostFails(t) \/ PostConfirmed(t) \/ Caught(t)
Step(t) == Ensure(t) \/ Login(t) \/ GetData(t) \/ SetCurrent(t)

Next ==
    \/ \E t \in Threads : Construct(t) \/ Call(t) \/ Acquire(t) \/ Step(t)
    \/ ChargerChange \/ Expire \/ FileDamaged \/ Restart
    \/ \E a \in Amps : LateLimit(a)

Spec == Init /\ [][Next]_vars

\* The driver is constructed and polled for ever, every request has a timeout,
\* and the calls are seconds apart, so a waiting thread gets the lock.
Fairness ==
    /\ \A t \in Threads : WF_vars(Construct(t)) /\ WF_vars(Step(t))
                            /\ SF_vars(Acquire(t))
    /\ \A t \in Pollers : WF_vars(Call(t))

FairSpec == Spec /\ Fairness

----------------------------------------------------------------------------
(* Properties *)

\* One call at a time talks to the charger with the shared session: a thread is
\* between acquiring and releasing _session_lock exactly when it owns it.
OneOwner ==
    ready => \A t \in Threads :
                pc[t] \in LoginSteps \cup BodySteps <=> lock = t

\* When the last set_current() returned True, its amps are the charger's limit,
\* through expired sessions, lost replies, restarts and other callers.  Another
\* limit comes from a later call that did not return True, or from a request
\* whose caller had given up before: nothing orders that one after the newer
\* request.  amps are sent as they are: the driver does neither clamp nor pause,
\* as docs/contracts/ev_charger.md:69-70 say it should.
LimitIsAcknowledged ==
    (\A t \in Optimizers : pc[t] # "posted") /\ lastSet # NoAmps
        => limit = lastSet

\* After a poll that returned None, get_status() does not say "connected"
\* between calls, whatever set_current() does.
PollFailureShows ==
    (\A t \in Pollers : pc[t] \in {"idle", "acquire"}) /\ lastPoll = "failed"
        => Status = "error"

\* A call sends at most five requests, each with its own timeout: the expired
\* session is renewed once, never in a loop.
RequestsBounded == sent <= MaxRequests

\* Every call returns or raises, although the lock is taken without a timeout.
EveryCallReturns ==
    \A t \in Threads : At(t, "acquire") ~> pc[t] \in {"idle", "raised"}

\* Once a whole certificate is pinned and the charger answers, the driver
\* reaches "connected" and stays there: no stale session survives.
Recovery ==
    /\ <>[](ready /\ healthy /\ pem = "pinned")
    /\ <>[][~Expire]_vars
    => <>[](Status = "connected")

\* set_current() breaks README.md:139 ("Never raise from get_data() or
\* set_current()") over the certificate file only: it was torn by a crash or a
\* full disk, deleted after its path was resolved, it is not readable, or
\* ca_cert_path names no such file.  tests/test_alfen_driver.py:162-166 knows
\* the FileNotFoundError.  Expired sessions, lost replies, a failing second
\* login and restarts never let an exception through, and get_data() never does.
RaisesOnlyOverCertificate ==
    \A t \in Threads : pc[t] = "raised" => pem # "pinned" /\ ~Polling(t)

\* The comment in __init__(): "_login() will retry TOFU on every poll until it
\* succeeds".
TofuRetried ==
    <>[](ready /\ healthy) => <>(pem = "pinned")
=============================================================================
