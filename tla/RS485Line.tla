----------------------------- MODULE RS485Line -----------------------------
(***************************************************************************)
(* What is at the other end of the serial calls of                          *)
(* ionemo_drivers/pv/aurora_rs485.py: the ports, the inverters on their     *)
(* buses, and for each port the line settings and the queue of received     *)
(* bytes.  Settings and queue belong to the port, not to an open handle:    *)
(* all handles of a port share them, and opening a port changes its rate.   *)
(***************************************************************************)
EXTENDS Naturals, Sequences

CONSTANTS
    Ports,        \* _PROBE_PORTS, in order
    Rates,        \* _PROBE_BAUDRATES, in order
    LastAddress,  \* 10: discovery probes the addresses 1..LastAddress
    NoRate,       \* the rate of an address without an inverter
    MaxLate       \* bound: late replies a bus may hold when a request is heard

RangeOf(s) == {s[i] : i \in DOMAIN s}

ASSUME PortAssumption ==
    /\ Ports \in Seq(RangeOf(Ports)) /\ Ports # <<>>
    /\ Rates \in Seq(RangeOf(Rates)) /\ Rates # <<>>
    /\ NoRate \notin RangeOf(Rates)
ASSUME BusAssumption == LastAddress \in Nat \ {0} /\ MaxLate \in Nat

Addresses == 1..LastAddress

\* What Serial() meets at a path: a port, or the exception it raises.
Attachments == {"port", "FileNotFoundError", "PermissionError", "Exception"}

VARIABLES
    attached,   \* what is at each path
    inverters,  \* the rate of the inverter at each path and address
    prompt,     \* from now on nothing is lost or pulled, and replies beat the
                \* timeout
    rate,       \* the line speed each port is set to
    queue,      \* replies received on each port and not read
    flying      \* requests of each port whose replies are still to come

line == <<attached, inverters, prompt, rate, queue, flying>>
world == <<attached, inverters, prompt>>

\* A reply tells neither its sender nor its command; the model remembers both.
\* A reply sampled at another rate than it was sent at has a bad checksum.
Garbage == [address |-> 0, command |-> "garbage"]

LineTypeOK ==
    /\ \A p \in RangeOf(Ports) :
         attached[p] \in Attachments /\ Len(flying[p]) <= MaxLate + 1
    /\ rate \in [RangeOf(Ports) -> RangeOf(Rates)]
    /\ inverters \in [RangeOf(Ports) -> [Addresses -> RangeOf(Rates) \cup {NoRate}]]

\* Serial(port, baudrate): the settings of the port change for every handle.
SetRate(p, r) == rate' = [rate EXCEPT ![p] = r]

\* An inverter hears a request sent at its rate on a bus that is not yet full
\* of late replies.
Heard(p, address) ==
    inverters[p][address] = rate[p] /\ Len(flying[p]) <= MaxLate

\* Mutant: reset_input_buffer() is not called before a request.
SendWithoutReset(p, address, command) ==
    /\ flying' = IF Heard(p, address)
                 THEN [flying EXCEPT ![p] =
                         Append(@, [address |-> address, command |-> command])]
                 ELSE flying
    /\ UNCHANGED <<queue, rate, world>>

\* reset_input_buffer() and write(): an inverter that hears starts to reply.
SendRequest(p, address, command) ==
    /\ queue' = [queue EXCEPT ![p] = <<>>]
    /\ flying' = IF Heard(p, address)
                 THEN [flying EXCEPT ![p] =
                         Append(@, [address |-> address, command |-> command])]
                 ELSE flying
    /\ UNCHANGED <<rate, world>>

\* read(8) gets a complete frame.
TakeReply(p) ==
    /\ queue[p] # <<>>
    /\ queue' = [queue EXCEPT ![p] = Tail(@)]
    /\ UNCHANGED <<flying, rate, world>>

\* read(8) times out; where two handles read, one may wait in vain for what the
\* other has taken or discarded.
NothingCame(p, shared) ==
    /\ queue[p] = <<>>
    /\ flying[p] = <<>> \/ ~prompt \/ shared
    /\ UNCHANGED line

\* A reply comes; a port that no handle has open keeps nothing.
Deliver(p, open) ==
    /\ flying[p] # <<>>
    /\ LET reply == Head(flying[p])
           whole == inverters[p][reply.address] = rate[p]
       IN queue' = IF open
                   THEN [queue EXCEPT ![p] =
                           Append(@, IF whole THEN reply ELSE Garbage)]
                   ELSE queue
    /\ flying' = [flying EXCEPT ![p] = Tail(@)]
    /\ UNCHANGED <<rate, world>>

\* The last handle is closed: replies still to come are lost.  (They come before
\* anyone opens the port again.)
Abandon(p) == flying' = [flying EXCEPT ![p] = <<>>]

\* Noise, requests that collide, or a frame whose bytes two readers share.
Lose(p, contended) ==
    /\ flying[p] # <<>> /\ (~prompt \/ contended)
    /\ flying' = [flying EXCEPT ![p] = Tail(@)]
    /\ UNCHANGED <<queue, rate, world>>

\* Until this happens a reply may be in time, late or lost.
Settle ==
    /\ ~prompt /\ prompt' = TRUE
    /\ UNCHANGED <<attached, inverters, rate, queue, flying>>

\* The adapter is pulled out; its successor starts with fresh settings.
Pull(p) ==
    /\ attached[p] = "port" /\ ~prompt
    /\ attached' = [attached EXCEPT ![p] = "FileNotFoundError"]
    /\ queue' = [queue EXCEPT ![p] = <<>>]
    /\ flying' = [flying EXCEPT ![p] = <<>>]
    /\ SetRate(p, Rates[1])
    /\ UNCHANGED <<inverters, prompt>>

\* It is plugged in again, at the same path.
Plug(p) ==
    /\ attached[p] = "FileNotFoundError"
    /\ attached' = [attached EXCEPT ![p] = "port"]
    /\ UNCHANGED <<inverters, prompt, rate, queue, flying>>
=============================================================================
