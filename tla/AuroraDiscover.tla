--------------------------- MODULE AuroraDiscover ---------------------------
(***************************************************************************)
(* discover() of ionemo_drivers/pv/aurora_rs485.py: every port, on each all *)
(* baud rates, at each all addresses, over the lines of RS485Line.  It is a *)
(* class method and holds no lock: a driver object may be polling one of    *)
(* the ports meanwhile (AuroraBus).                                         *)
(***************************************************************************)
EXTENDS RS485Line

VARIABLES
    spc,         \* where discover() is; "idle" between two scans, "done" when
                 \* it returns or raises
    portIx,      \* port, as an index of Ports
    rateIx,      \* baud, as an index of Rates
    address,
    handle,      \* ser: closed, open, or dead (its adapter was pulled)
    found,       \* devices found, as records
    portOpened,  \* port_opened
    warning,     \* fallback_warning
    result,      \* what the scan ended with
    disturbed    \* history: the worst disturbance of the scan so far

scan == <<spc, portIx, rateIx, address, handle, found, portOpened, warning,
          result, disturbed>>

Port == Ports[portIx]
Rate == Rates[rateIx]

Warnings == (Attachments \ {"port"}) \cup {"none", "no answer"}
Results == Warnings \cup {"none yet", "devices", "no adapter", "raised"}

\* Replies were late or lost; an adapter was pulled or plugged in; a driver
\* object used the same port.
Severity == [nothing |-> 0, late |-> 1, pulled |-> 2, shared |-> 3]

Disturb(event) ==
    disturbed' = IF Severity[event] > Severity[disturbed] THEN event
                 ELSE disturbed

ScanTypeOK ==
    /\ spc \in {"idle", "open", "probe", "read", "close", "next port",
               "done"}
    /\ portIx \in DOMAIN Ports /\ rateIx \in DOMAIN Rates
    /\ address \in Addresses
    /\ handle \in {"closed", "open", "dead"}
    /\ \A d \in found :
         d.port \in RangeOf(Ports) /\ d.baudrate \in RangeOf(Rates)
    /\ portOpened \in BOOLEAN /\ warning \in Warnings /\ result \in Results
    /\ disturbed \in DOMAIN Severity

ScanInit ==
    /\ spc = "idle" /\ portIx = 1 /\ rateIx = 1 /\ address = 1
    /\ handle = "closed" /\ found = {} /\ portOpened = FALSE
    /\ warning = "none" /\ result = "none yet" /\ disturbed = "nothing"

Scanning == spc # "idle"

\* Replies that an earlier scan has left on a bus can disturb this one.
ScanCall ==
    /\ spc = "idle" /\ spc' = "open"
    /\ Disturb(IF \E p \in RangeOf(Ports) : flying[p] # <<>> THEN "late"
               ELSE "nothing")
    /\ UNCHANGED <<portIx, rateIx, address, handle, found, portOpened, warning,
                   result, line>>

\* The caller has its result or exception; the locals are gone.
ScanReturn ==
    /\ spc = "done" /\ spc' = "idle"
    /\ portIx' = 1 /\ rateIx' = 1 /\ address' = 1
    /\ found' = {} /\ portOpened' = FALSE /\ warning' = "none"
    /\ result' = "none yet" /\ disturbed' = "nothing"
    /\ UNCHANGED <<handle, line>>

(* _open_serial() and what discover() makes of its three outcomes. *)

Missing ==
    /\ spc = "open" /\ attached[Port] = "FileNotFoundError"
    /\ spc' = "next port"
    /\ UNCHANGED <<portIx, rateIx, address, handle, found, portOpened, warning,
                   result, disturbed, line>>

Refused ==
    /\ spc = "open" /\ attached[Port] \in {"PermissionError", "Exception"}
    /\ warning' = IF warning = "none" THEN attached[Port] ELSE warning
    /\ spc' = "next port"
    /\ UNCHANGED <<portIx, rateIx, address, handle, found, portOpened, result,
                   disturbed, line>>

Opened(shared) ==
    /\ spc = "open" /\ attached[Port] = "port"
    /\ handle' = "open" /\ portOpened' = TRUE /\ address' = 1
    /\ SetRate(Port, Rate)
    /\ Disturb(IF shared THEN "shared" ELSE "nothing")
    /\ spc' = "probe"
    /\ UNCHANGED <<portIx, rateIx, found, warning, result, world, queue, flying>>

(* The loop over the addresses, with _probe_address(). *)

Known == \E d \in found : d.address = address

\* Mutant: the range of addresses is one too long.
NextAddressLong ==
    IF address > LastAddress
    THEN spc' = "close" /\ UNCHANGED address
    ELSE spc' = "probe" /\ address' = address + 1

NextAddress ==
    IF address = LastAddress
    THEN spc' = "close" /\ UNCHANGED address
    ELSE spc' = "probe" /\ address' = address + 1

Skip ==
    /\ spc = "probe" /\ Known
    /\ NextAddress
    /\ UNCHANGED <<portIx, rateIx, handle, found, portOpened, warning, result,
                   disturbed, line>>

Probe ==
    /\ spc = "probe" /\ ~Known /\ handle = "open"
    /\ SendRequest(Port, address, "power")
    /\ spc' = "read"
    /\ UNCHANGED <<portIx, rateIx, address, handle, found, portOpened, warning,
                   result, disturbed>>

\* Mutant: a frame of the right length is enough, its checksum is not looked at.
AnsweredUnchecked ==
    /\ spc = "read" /\ handle = "open" /\ TakeReply(Port)
    /\ found' = found \cup
                {[address |-> address, baudrate |-> Rate, port |-> Port]}
    /\ NextAddress
    /\ UNCHANGED <<portIx, rateIx, handle, portOpened, warning, result, disturbed>>

\* Any frame with a good checksum counts, whoever sent it.
Answered ==
    /\ spc = "read" /\ handle = "open" /\ TakeReply(Port)
    /\ found' = IF Head(queue[Port]) = Garbage THEN found
                ELSE found \cup
                     {[address |-> address, baudrate |-> Rate, port |-> Port]}
    /\ NextAddress
    /\ UNCHANGED <<portIx, rateIx, handle, portOpened, warning, result, disturbed>>

Unanswered(shared) ==
    /\ spc = "read" /\ handle = "open" /\ NothingCame(Port, shared)
    /\ Disturb(IF flying[Port] # <<>> THEN "late" ELSE "nothing")
    /\ NextAddress
    /\ UNCHANGED <<portIx, rateIx, handle, found, portOpened, warning, result>>

\* Mutant: no try/finally around the probes.
ScanRaisesOpen(stolen) ==
    /\ \/ spc \in {"probe", "read"} /\ handle = "dead"
       \/ spc = "read" /\ stolen
    /\ spc' = "done" /\ result' = "raised" /\ found' = {}
    /\ UNCHANGED <<portIx, rateIx, address, handle, portOpened, warning,
                   disturbed, line>>

\* Nothing around _probe_address() catches: "finally: ser.close()" runs and the
\* exception leaves discover().  A handle also raises when another one has
\* taken the bytes it was told of.
ScanRaises(stolen) ==
    /\ \/ spc \in {"probe", "read"} /\ handle = "dead"
       \/ spc = "read" /\ stolen
    /\ spc' = "done" /\ result' = "raised" /\ handle' = "closed"
    /\ found' = {}
    /\ UNCHANGED <<portIx, rateIx, address, portOpened, warning, disturbed,
                   line>>

(* After the addresses of a rate, and after the rates of a port. *)

\* Mutant: the loop over the rates ends one rate too early.
CloseLastRateSkipped ==
    /\ spc = "close" /\ handle' = "closed"
    /\ IF rateIx + 1 >= Len(Rates)
       THEN spc' = "next port" /\ UNCHANGED rateIx
       ELSE spc' = "open" /\ rateIx' = rateIx + 1
    /\ UNCHANGED <<portIx, address, found, portOpened, warning, result, disturbed,
                   line>>

\* Mutant: the loop over the rates does not advance.
CloseSameRate ==
    /\ spc = "close" /\ handle' = "closed"
    /\ IF rateIx = Len(Rates)
       THEN spc' = "next port" /\ UNCHANGED rateIx
       ELSE spc' = "open" /\ UNCHANGED rateIx
    /\ UNCHANGED <<portIx, address, found, portOpened, warning, result, disturbed,
                   line>>

Close ==
    /\ spc = "close" /\ handle' = "closed"
    /\ IF rateIx = Len(Rates)
       THEN spc' = "next port" /\ UNCHANGED rateIx
       ELSE spc' = "open" /\ rateIx' = rateIx + 1
    /\ UNCHANGED <<portIx, address, found, portOpened, warning, result, disturbed,
                   line>>

NextPort(shared) ==
    /\ spc = "next port"
    /\ warning' = IF found = {} /\ portOpened THEN "no answer" ELSE warning
    /\ IF found = {} /\ portIx < Len(Ports)
       THEN /\ spc' = "open" /\ portIx' = portIx + 1 /\ rateIx' = 1
            /\ portOpened' = FALSE /\ UNCHANGED result
       ELSE /\ spc' = "done"
            /\ result' = IF found # {} THEN "devices"
                         ELSE IF warning' # "none" THEN warning'
                         ELSE "no adapter"
            /\ UNCHANGED <<portIx, rateIx, portOpened>>
    /\ IF shared THEN UNCHANGED flying ELSE Abandon(Port)
    /\ UNCHANGED <<address, handle, found, disturbed, world, rate, queue>>

\* "shared" and "stolen" say that another handle has, or reads, the port.
ScanStep(shared, stolen) ==
    \/ Missing \/ Refused \/ Opened(shared)
    \/ Skip \/ Probe \/ Answered \/ Unanswered(shared) \/ ScanRaises(stolen)
    \/ Close \/ NextPort(shared) \/ ScanReturn

\* What the world does to a scan.
ScanPulled(p) ==
    /\ handle' = IF handle = "open" /\ p = Port THEN "dead" ELSE handle
    /\ Disturb(IF Scanning THEN "pulled" ELSE "nothing")
    /\ UNCHANGED <<spc, portIx, rateIx, address, found, portOpened, warning,
                   result>>

ScanLost ==
    /\ Disturb(IF Scanning THEN "late" ELSE "nothing")
    /\ UNCHANGED <<spc, portIx, rateIx, address, handle, found, portOpened,
                   warning, result>>

----------------------------------------------------------------------------
(* What a scan should find, from the ports and inverters there are. *)

Present(i) ==
    IF attached[Ports[i]] # "port" THEN {}
    ELSE {[address |-> a, baudrate |-> inverters[Ports[i]][a],
           port |-> Ports[i]] :
            a \in {b \in Addresses : inverters[Ports[i]][b] # NoRate}}

First(S) == CHOOSE i \in S : \A j \in S : i <= j

Inhabited == {i \in DOMAIN Ports : Present(i) # {}}
Refusing == {i \in DOMAIN Ports :
               attached[Ports[i]] \in {"PermissionError", "Exception"}}

RightDevices == IF Inhabited = {} THEN {} ELSE Present(First(Inhabited))

RightResult ==
    IF Inhabited # {} THEN "devices"
    ELSE IF \E i \in DOMAIN Ports : attached[Ports[i]] = "port"
    THEN "no answer"
    ELSE IF Refusing # {} THEN attached[Ports[First(Refusing)]]
    ELSE "no adapter"
=============================================================================
