-------------------------- MODULE AuroraBus_proofs --------------------------
(***************************************************************************)
(* The safety of AuroraBus for every list of ports, rates and addresses and *)
(* every bound on late replies.                                             *)
(*                                                                          *)
(* The invariant has two layers.  Whatever happens, what has happened to a  *)
(* scan or to the calls is remembered (Marked, Mixed, OwnReplies), and a    *)
(* handle that nobody shares reads replies of its own rate (Genuine).  Of a *)
(* scan that nothing has disturbed, the bus, the devices found and the      *)
(* warning are known at every step of its three loops (Calm, Opening,       *)
(* SoFar, Behind): that is what ScanIsRight follows from.                   *)
(***************************************************************************)
EXTENDS AuroraBus, TLAPS

----------------------------------------------------------------------------
(* The invariant *)

\* What the lines hold.
Commands == {"power"} \cup RangeOf(Reads)
Replies == [address : Addresses, command : Commands]
Devices == [address : Addresses, baudrate : RangeOf(Rates), port : RangeOf(Ports)]

LineOK ==
    /\ attached \in [RangeOf(Ports) -> Attachments] /\ prompt \in BOOLEAN
    /\ inverters \in [RangeOf(Ports) -> [Addresses -> RangeOf(Rates) \cup {NoRate}]]
    /\ rate \in [RangeOf(Ports) -> RangeOf(Rates)]
    /\ queue \in [RangeOf(Ports) -> Seq(Replies \cup {Garbage})]
    /\ flying \in [RangeOf(Ports) -> Seq(Replies)]
    /\ \A p \in RangeOf(Ports) : Len(flying[p]) <= MaxLate + 1

Typed == TypeOK /\ LineOK /\ found \subseteq Devices

\* The part of the type invariant that is get_data()'s.
PollTypeOK ==
    /\ ppc \in {"idle", "open", "send", "read", "evaluate", "done"}
    /\ serial \in {"none", "open", "dead"} /\ cmd \in 1..Len(Reads) + 1
    /\ missing \in BOOLEAN /\ gap \in BOOLEAN /\ mixed \in BOOLEAN
    /\ foreign \in {"no", "after gap", "yes"}
    /\ value \in {"none yet", "failed", "right", "wrong"}

\* Where discover() has its handle open; between two scans nothing is kept.
Handles ==
    /\ spc \in {"probe", "read", "close"} <=> handle # "closed"
    /\ spc = "idle" => /\ portIx = 1 /\ rateIx = 1 /\ found = {} /\ ~portOpened
                       /\ warning = "none" /\ disturbed = "nothing"
    /\ spc # "done" => result = "none yet"

\* Where get_data() is in its reads.
Calls ==
    /\ ppc \in {"idle", "open", "done"} => cmd = 1 /\ foreign = "no"
    /\ ppc \in {"send", "read"} => cmd <= Len(Reads)
    /\ ~polled => ppc = "idle" /\ serial = "none"

\* A scan that has met a driver object, or lost its adapter, remembers it.
Marked ==
    /\ polled /\ ScanOnPollPort => disturbed = "shared"
    /\ handle = "dead" => disturbed \in {"pulled", "shared"}
    /\ result = "raised" => disturbed \in {"pulled", "shared"}

\* A scan on the driver's port is remembered.
Mixed == polled /\ ScanOnPollPort => mixed

\* As long as no call has missed an answer and no scan was met, or all that is
\* in the past, the bus holds nothing but the reply to the request under way.
OwnReplies ==
    polled /\ ~mixed /\ ~gap =>
        /\ ppc # "read" \/ serial = "dead" => flying[PollPort] = <<>>
        /\ ppc = "read" =>
              \/ queue[PollPort] = <<>> /\ flying[PollPort] \in {<<>>, <<Asked>>}
              \/ /\ queue[PollPort] \in {<<Asked>>, <<Garbage>>}
                 /\ flying[PollPort] = <<>>

\* A scan's handle has the line at its own rate, and what it reads there with a
\* good checksum was sent at that rate, unless a driver object uses the port.
Genuine ==
    handle = "open" /\ disturbed # "shared" =>
        /\ rate[Port] = Rate
        /\ spc = "read" =>
              \A i \in DOMAIN queue[Port] :
                 queue[Port][i] # Garbage =>
                    inverters[Port][queue[Port][i].address] = Rate

\* The second half of LateRepliesHarmless.
Real ==
    disturbed # "shared" =>
        \A d \in found : \E a \in Addresses : inverters[d.port][a] = d.baudrate

Base == Typed /\ Handles /\ Calls /\ Marked

(* Of a scan that nothing has disturbed *)

Undisturbed == Scanning /\ disturbed = "nothing"

\* The probe under way, where an inverter hears it, is answered by one frame.
ProbeOnly ==
    LET reply == [address |-> address, command |-> "power"]
    IN  IF inverters[Port][address] = Rate
        THEN \/ queue[Port] = <<>> /\ flying[Port] = <<reply>>
             \/ queue[Port] = <<reply>> /\ flying[Port] = <<>>
        ELSE queue[Port] = <<>> /\ flying[Port] = <<>>

OfPoller(p) == polled /\ p = PollPort

\* Its port carries nothing else, and the ports to come nothing at all, but for
\* the port of a driver object.
Calm ==
    Undisturbed =>
        /\ \A p \in RangeOf(Ports) :
              ~OfPoller(p) /\ (p = Port => spc # "read") => flying[p] = <<>>
        /\ spc = "read" => ProbeOnly

\* port_opened says what is at the port.
Opening ==
    Undisturbed =>
        /\ spc = "open" => (portOpened <=> rateIx # 1)
        /\ spc \in {"probe", "read", "close"} => portOpened
        /\ spc # "done" /\ portOpened => attached[Port] = "port"
        /\ spc = "next port" /\ ~portOpened => attached[Port] # "port"
        /\ spc = "next port" /\ portOpened => rateIx = Len(Rates)

\* The scan has asked address a of its port at its inverter's rate.
Tried(a) ==
    \/ \E j \in 1..(rateIx - 1) : inverters[Port][a] = Rates[j]
    \/ /\ inverters[Port][a] = Rate
       /\ \/ spc \in {"probe", "read"} /\ a < address
          \/ spc \in {"close", "next port"}

Device(p, a) == [address |-> a, baudrate |-> inverters[p][a], port |-> p]

\* Of its port it has found the inverters it has asked.
SoFar ==
    Undisturbed /\ spc # "done" =>
        found = IF portOpened
                THEN {Device(Port, a) : a \in {b \in Addresses : Tried(b)}}
                ELSE {}

\* The first n ports have no inverter, and warning w says what they have.
Silent(n, w) ==
    /\ \A i \in 1..n : Present(i) = {}
    /\ \/ w = "no answer" /\ \E i \in 1..n : attached[Ports[i]] = "port"
       \/ /\ \A i \in 1..n : attached[Ports[i]] # "port"
          /\ \/ w = "none" /\ \A i \in 1..n : i \notin Refusing
             \/ \E i \in 1..n : /\ i \in Refusing /\ w = attached[Ports[i]]
                                /\ \A j \in 1..(i - 1) : j \notin Refusing

\* How many ports the scan has left, or found closed.
Passed == IF spc = "next port" /\ ~portOpened THEN portIx ELSE portIx - 1

Behind == Undisturbed /\ spc # "done" => Silent(Passed, warning)

IInv ==
    /\ Base /\ Genuine /\ Real /\ Mixed /\ OwnReplies /\ AnswersAreOwn
    /\ Calm /\ Opening /\ SoFar /\ Behind /\ ScanIsRight

----------------------------------------------------------------------------
(* The lists and the line *)

\* The scan's port and rate are among those it is given.
LEMMA Lists ==
    ASSUME portIx \in DOMAIN Ports, rateIx \in DOMAIN Rates
    PROVE  /\ Port \in RangeOf(Ports) /\ Rate \in RangeOf(Rates)
           /\ Len(Ports) \in Nat \ {0} /\ DOMAIN Ports = 1..Len(Ports)
           /\ Len(Rates) \in Nat \ {0} /\ DOMAIN Rates = 1..Len(Rates)
           /\ Rates[1] \in RangeOf(Rates)
           /\ Len(Reads) \in Nat \ {0} /\ DOMAIN Reads = 1..Len(Reads)
BY PortAssumption, PollAssumption DEF Port, Rate, RangeOf

\* What the worst of two disturbances is.
LEMMA Worst ==
    ASSUME disturbed \in DOMAIN Severity, NEW event \in DOMAIN Severity,
           Disturb(event)
    PROVE  /\ disturbed' \in DOMAIN Severity
           /\ disturbed' = "nothing" <=> disturbed = "nothing" /\ event = "nothing"
           /\ disturbed = "shared" \/ event = "shared" => disturbed' = "shared"
           /\ disturbed \in {"pulled", "shared"} \/ event \in {"pulled", "shared"}
                => disturbed' \in {"pulled", "shared"}
           /\ event = "nothing" => disturbed' = disturbed
           /\ disturbed # "shared" /\ event # "shared" => disturbed' # "shared"
BY DEF Disturb, Severity

\* Sending and receiving keep the line's values in their sets.
LEMMA SendTyped ==
    ASSUME LineOK, NEW p \in RangeOf(Ports), NEW a \in Addresses,
           NEW c \in Commands, SendRequest(p, a, c)
    PROVE  LineOK'
<1> USE BusAssumption
<1>1. [address |-> a, command |-> c] \in Replies
  BY DEF Replies
<1>2. queue' \in [RangeOf(Ports) -> Seq(Replies \cup {Garbage})]
  BY DEF LineOK, SendRequest
<1>3. /\ flying' \in [RangeOf(Ports) -> Seq(Replies)]
      /\ \A q \in RangeOf(Ports) : Len(flying'[q]) <= MaxLate + 1
  <2>1. CASE ~Heard(p, a)
    BY <2>1 DEF LineOK, SendRequest
  <2>2. CASE Heard(p, a)
    <3>1. flying' = [flying EXCEPT ![p] =
                       Append(@, [address |-> a, command |-> c])]
      BY <2>2 DEF SendRequest
    <3>2. /\ Append(flying[p], [address |-> a, command |-> c]) \in Seq(Replies)
          /\ Len(Append(flying[p], [address |-> a, command |-> c])) = Len(flying[p]) + 1
      BY <1>1 DEF LineOK
    <3>3. Len(flying[p]) \in Nat /\ Len(flying[p]) <= MaxLate
      BY <2>2 DEF LineOK, Heard
    <3> QED
      BY <3>1, <3>2, <3>3 DEF LineOK
  <2> QED
    BY <2>1, <2>2
<1> QED
  BY <1>2, <1>3 DEF LineOK, SendRequest, world

\* The same for a frame that is read.
LEMMA TakeTyped ==
    ASSUME LineOK, NEW p \in RangeOf(Ports), TakeReply(p)
    PROVE  LineOK' /\ Head(queue[p]) \in Replies \cup {Garbage}
<1>1. /\ queue' \in [RangeOf(Ports) -> Seq(Replies \cup {Garbage})]
      /\ Head(queue[p]) \in Replies \cup {Garbage}
  BY DEF LineOK, TakeReply
<1> QED
  BY <1>1 DEF LineOK, TakeReply, world

\* The same for what the world does to the lines.
LEMMA WorldTyped ==
    ASSUME LineOK, NEW p \in RangeOf(Ports),
           \/ \E open \in BOOLEAN : Deliver(p, open)
           \/ \E contended \in BOOLEAN : Lose(p, contended)
           \/ Pull(p) \/ Plug(p) \/ Settle
    PROVE  LineOK'
<1> USE BusAssumption
<1>1. flying[p] # <<>> => /\ Head(flying[p]) \in Replies
                          /\ Tail(flying[p]) \in Seq(Replies)
                          /\ Len(Tail(flying[p])) <= MaxLate + 1
  BY DEF LineOK
<1>2. ASSUME NEW open \in BOOLEAN, Deliver(p, open) PROVE LineOK'
  <2>1. /\ flying' \in [RangeOf(Ports) -> Seq(Replies)]
        /\ \A q \in RangeOf(Ports) : Len(flying'[q]) <= MaxLate + 1
    BY <1>1, <1>2 DEF LineOK, Deliver
  <2>2. queue' \in [RangeOf(Ports) -> Seq(Replies \cup {Garbage})]
    <3> DEFINE reply == Head(flying[p])
               got == IF inverters[p][reply.address] = rate[p] THEN reply ELSE Garbage
    <3>1. got \in Replies \cup {Garbage}
      BY <1>1, <1>2 DEF Deliver
    <3>2. queue' = queue \/ queue' = [queue EXCEPT ![p] = Append(@, got)]
      BY <1>2 DEF Deliver
    <3> HIDE DEF got
    <3>3. Append(queue[p], got) \in Seq(Replies \cup {Garbage})
      BY <3>1 DEF LineOK
    <3> QED
      BY <3>2, <3>3 DEF LineOK
  <2> QED
    BY <1>2, <2>1, <2>2 DEF LineOK, Deliver, world
<1>3. ASSUME NEW contended \in BOOLEAN, Lose(p, contended) PROVE LineOK'
  BY <1>1, <1>3 DEF LineOK, Lose, world
<1>4. ASSUME Pull(p) PROVE LineOK'
  <2>1. Rates[1] \in RangeOf(Rates)
    BY PortAssumption DEF RangeOf
  <2>2. /\ attached' \in [RangeOf(Ports) -> Attachments]
        /\ rate' \in [RangeOf(Ports) -> RangeOf(Rates)]
    BY <1>4, <2>1 DEF LineOK, Pull, SetRate, Attachments
  <2>3. /\ queue' \in [RangeOf(Ports) -> Seq(Replies \cup {Garbage})]
        /\ flying' \in [RangeOf(Ports) -> Seq(Replies)]
        /\ \A q \in RangeOf(Ports) : Len(flying'[q]) <= MaxLate + 1
    BY <1>4 DEF LineOK, Pull
  <2> QED
    BY <1>4, <2>2, <2>3 DEF LineOK, Pull
<1>5. ASSUME Plug(p) \/ Settle PROVE LineOK'
  BY <1>5 DEF LineOK, Plug, Settle, Attachments
<1> QED
  BY <1>2, <1>3, <1>4, <1>5

----------------------------------------------------------------------------
(* Types *)

\* What is left alone keeps its type.
LEMMA Untouched ==
    /\ LineOK /\ UNCHANGED line => LineOK'
    /\ ScanTypeOK /\ UNCHANGED scan => ScanTypeOK'
    /\ PollTypeOK /\ UNCHANGED poll => PollTypeOK'
<1>1. LineOK /\ UNCHANGED line => LineOK'
  BY DEF LineOK, line
<1>2. ScanTypeOK /\ UNCHANGED scan => ScanTypeOK'
  BY DEF ScanTypeOK, scan
<1>3. PollTypeOK /\ UNCHANGED poll => PollTypeOK'
  BY DEF PollTypeOK, poll
<1> QED
  BY <1>1, <1>2, <1>3

\* The scan's steps keep the types, of the line's values too.
LEMMA ScanTyped ==
    ASSUME Typed, Handles, NEW shared, NEW stolen, ScanStep(shared, stolen)
    PROVE  LineOK' /\ ScanTypeOK' /\ found' \subseteq Devices
<1>0. LineOK /\ ScanTypeOK /\ found \subseteq Devices
  BY DEF Typed, TypeOK
<1>L. /\ Port \in RangeOf(Ports) /\ Rate \in RangeOf(Rates)
      /\ Len(Ports) \in Nat \ {0} /\ DOMAIN Ports = 1..Len(Ports)
      /\ Len(Rates) \in Nat \ {0} /\ DOMAIN Rates = 1..Len(Rates)
      /\ portIx \in DOMAIN Ports /\ rateIx \in DOMAIN Rates
  BY <1>0, Lists DEF ScanTypeOK
<1>A. LastAddress \in Nat \ {0} /\ Addresses = 1..LastAddress /\ address \in Addresses
  BY <1>0, BusAssumption DEF Addresses, ScanTypeOK
<1>1. ASSUME Missing \/ Refused PROVE LineOK' /\ ScanTypeOK' /\ found' \subseteq Devices
  BY <1>0, <1>1 DEF ScanTypeOK, LineOK, Missing, Refused, line, world, Warnings,
                    Attachments
<1>2. ASSUME Opened(shared) PROVE LineOK' /\ ScanTypeOK' /\ found' \subseteq Devices
  <2>1. disturbed' \in DOMAIN Severity
    BY <1>0, <1>2, Worst DEF Opened, ScanTypeOK, Severity
  <2>2. rate' \in [RangeOf(Ports) -> RangeOf(Rates)]
    BY <1>0, <1>L, <1>2 DEF Opened, SetRate, LineOK, ScanTypeOK
  <2> QED
    BY <1>0, <1>A, <1>2, <2>1, <2>2 DEF Opened, ScanTypeOK, LineOK, world
<1>3. ASSUME NextAddress, spc \in {"probe", "read"}
      PROVE  address' \in Addresses /\ spc' \in {"close", "probe"}
  <2>1. address # LastAddress => address + 1 \in Addresses
    BY <1>A
  <2> QED
    BY <1>3, <1>A, <2>1 DEF NextAddress
<1>4. ASSUME Skip PROVE LineOK' /\ ScanTypeOK' /\ found' \subseteq Devices
  BY <1>0, <1>3, <1>4 DEF Skip, ScanTypeOK, LineOK, line, world
<1>5. ASSUME Probe PROVE LineOK' /\ ScanTypeOK' /\ found' \subseteq Devices
  <2>1. LineOK'
    BY <1>0, <1>L, <1>5, SendTyped DEF Probe, ScanTypeOK, Commands
  <2> QED
    BY <1>0, <1>5, <2>1 DEF Probe, ScanTypeOK
<1>6. ASSUME Answered PROVE LineOK' /\ ScanTypeOK' /\ found' \subseteq Devices
  <2>1. LineOK'
    BY <1>0, <1>L, <1>6, TakeTyped DEF Answered, ScanTypeOK
  <2>2. [address |-> address, baudrate |-> Rate, port |-> Port] \in Devices
    BY <1>0, <1>L DEF Devices, ScanTypeOK
  <2>3. found' \subseteq Devices
    BY <1>0, <1>6, <2>2 DEF Answered
  <2>4. \A d \in found' : d.port \in RangeOf(Ports) /\ d.baudrate \in RangeOf(Rates)
    BY <2>3 DEF Devices
  <2> QED
    BY <1>0, <1>3, <1>6, <2>1, <2>3, <2>4 DEF Answered, ScanTypeOK
<1>7. ASSUME Unanswered(shared) PROVE LineOK' /\ ScanTypeOK' /\ found' \subseteq Devices
  <2>1. disturbed' \in DOMAIN Severity
    BY <1>0, <1>7, Worst DEF Unanswered, ScanTypeOK, Severity
  <2> QED
    BY <1>0, <1>3, <1>7, <2>1 DEF Unanswered, NothingCame, ScanTypeOK, LineOK, line,
                                  world
<1>8. ASSUME ScanRaises(stolen) PROVE LineOK' /\ ScanTypeOK' /\ found' \subseteq Devices
  BY <1>0, <1>8 DEF ScanRaises, ScanTypeOK, LineOK, line, world, Results
<1>9. ASSUME Close PROVE LineOK' /\ ScanTypeOK' /\ found' \subseteq Devices
  <2>1. rateIx' \in DOMAIN Rates
    <3>1. \/ rateIx' = rateIx
          \/ rateIx # Len(Rates) /\ rateIx' = rateIx + 1
      BY <1>9 DEF Close
    <3> QED
      BY <1>L, <3>1
  <2>2. LineOK'
    BY <1>0, <1>9, Untouched DEF Close
  <2> QED
    BY <1>0, <1>9, <2>1, <2>2 DEF Close, ScanTypeOK
<1>10. ASSUME NextPort(shared) PROVE LineOK' /\ ScanTypeOK' /\ found' \subseteq Devices
  <2>1. warning' \in Warnings /\ Warnings \subseteq Results
    BY <1>0, <1>10 DEF NextPort, ScanTypeOK, Warnings, Results
  <2>2. /\ flying' \in [RangeOf(Ports) -> Seq(Replies)]
        /\ \A q \in RangeOf(Ports) : Len(flying'[q]) <= MaxLate + 1
    <3>1. flying' = flying \/ flying' = [flying EXCEPT ![Port] = <<>>]
      BY <1>10 DEF NextPort, Abandon
    <3>2. Len(<<>>) <= MaxLate + 1
      BY BusAssumption
    <3>3. <<>> \in Seq(Replies)
      OBVIOUS
    <3>4. /\ flying \in [RangeOf(Ports) -> Seq(Replies)]
          /\ \A q \in RangeOf(Ports) : Len(flying[q]) <= MaxLate + 1
      BY <1>0 DEF LineOK
    <3> QED
      BY <1>L, <3>1, <3>2, <3>3, <3>4
  <2>3. LineOK'
    BY <1>0, <1>10, <2>2 DEF NextPort, LineOK, world
  <2>4. portIx' \in DOMAIN Ports /\ rateIx' \in DOMAIN Rates
    <3>1. \/ UNCHANGED <<portIx, rateIx>>
          \/ portIx < Len(Ports) /\ portIx' = portIx + 1 /\ rateIx' = 1
      BY <1>10 DEF NextPort
    <3> QED
      BY <1>L, <3>1
  <2>5. /\ spc' \in {"open", "done"} /\ result' \in Results
        /\ portOpened' \in BOOLEAN
    BY <1>0, <1>10, <2>1 DEF NextPort, ScanTypeOK, Results
  <2> QED
    BY <1>0, <1>10, <2>1, <2>3, <2>4, <2>5 DEF NextPort, ScanTypeOK
<1>11. ASSUME ScanReturn PROVE LineOK' /\ ScanTypeOK' /\ found' \subseteq Devices
  <2>1. LineOK'
    BY <1>0, <1>11, Untouched DEF ScanReturn
  <2>2. 1 \in DOMAIN Ports /\ 1 \in DOMAIN Rates /\ 1 \in Addresses
    BY <1>L, <1>A
  <2> QED
    BY <1>0, <1>11, <2>1, <2>2 DEF ScanReturn, ScanTypeOK, Warnings, Results, Severity
<1> QED
  BY <1>1, <1>2, <1>4, <1>5, <1>6, <1>7, <1>8, <1>9, <1>10, <1>11 DEF ScanStep

\* The same for the steps of a call.
LEMMA PollTyped ==
    ASSUME Typed, Calls, PollCall \/ PollStep
    PROVE  LineOK' /\ PollTypeOK'
<1> USE PollAssumption
<1>0. LineOK /\ PollTypeOK
  BY DEF Typed, TypeOK, PollTypeOK
<1>L. Len(Reads) \in Nat \ {0} /\ DOMAIN Reads = 1..Len(Reads)
  OBVIOUS
<1>C. cmd \in 1..Len(Reads) + 1 /\ (ppc \in {"send", "read"} => cmd \in 1..Len(Reads))
  <2>1. cmd \in 1..Len(Reads) + 1
    BY <1>0 DEF PollTypeOK
  <2> QED
    BY <1>L, <2>1 DEF Calls
<1>1. ASSUME NEW outcome \in {"failed", "right", "wrong"}, Return(outcome)
      PROVE  /\ ppc' = "done" /\ value' = outcome /\ cmd' \in 1..Len(Reads) + 1
             /\ missing' \in BOOLEAN /\ gap' \in BOOLEAN /\ mixed' \in BOOLEAN
             /\ foreign' = "no"
  <2>1. 1 \in 1..Len(Reads) + 1
    BY <1>L
  <2> QED
    BY <1>0, <1>1, <2>1 DEF Return, PollTypeOK
<1>2. ASSUME PollCall \/ PollDone PROVE LineOK' /\ PollTypeOK'
  <2>1. CASE PollDone
    BY <1>0, <2>1 DEF PollDone, PollTypeOK, LineOK, line, world
  <2>2. CASE PollCall
    <3>1. LineOK'
      BY <1>0, <2>2, Untouched DEF PollCall
    <3>2. gap' \in BOOLEAN /\ mixed' \in BOOLEAN
      BY <2>2 DEF PollCall, ScanOnPollPort
    <3>3. ppc' \in {"open", "send"} /\ UNCHANGED <<serial, cmd, missing, foreign, value>>
      BY <2>2 DEF PollCall
    <3> QED
      BY <1>0, <3>1, <3>2, <3>3 DEF PollTypeOK
  <2> QED
    BY <1>2, <2>1, <2>2
<1>3. ASSUME PollOpens PROVE LineOK' /\ PollTypeOK'
  <2>1. rate' \in [RangeOf(Ports) -> RangeOf(Rates)]
    BY <1>0, <1>3 DEF PollOpens, SetRate, LineOK
  <2> QED
    BY <1>0, <1>3, <2>1 DEF PollOpens, PollTypeOK, LineOK, world
<1>4. ASSUME PollCannotOpen \/ PollRaises \/ PollReturns PROVE LineOK' /\ PollTypeOK'
  <2>1. PICK outcome \in {"failed", "right", "wrong"} : Return(outcome)
    BY <1>4 DEF PollCannotOpen, PollRaises, PollReturns
  <2>2. serial' \in {"none", "open", "dead"} /\ UNCHANGED line
    BY <1>0, <1>4 DEF PollCannotOpen, PollRaises, PollReturns, PollTypeOK
  <2> QED
    BY <1>0, <1>1, <2>1, <2>2 DEF PollTypeOK, LineOK, line, world
<1>5. ASSUME PollSends PROVE LineOK' /\ PollTypeOK'
  <2>1. Reads[cmd] \in Commands
    <3>1. cmd \in DOMAIN Reads
      BY <1>L, <1>C, <1>5 DEF PollSends
    <3> QED
      BY <3>1 DEF Commands, RangeOf
  <2>2. LineOK'
    BY <1>0, <1>5, <2>1, SendTyped DEF PollSends
  <2> QED
    BY <1>0, <1>5, <2>2 DEF PollSends, PollTypeOK
<1>6. ASSUME NEW none \in BOOLEAN, NextRead(none), ppc = "read"
      PROVE  /\ missing' \in BOOLEAN /\ gap' \in BOOLEAN /\ cmd' \in 1..Len(Reads) + 1
             /\ ppc' \in {"evaluate", "send"} /\ UNCHANGED <<serial, mixed, value>>
  <2>1. cmd + 1 \in 1..Len(Reads) + 1
    BY <1>L, <1>C, <1>6
  <2> QED
    BY <1>0, <1>6, <2>1 DEF NextRead, PollTypeOK
<1>7. ASSUME PollAnswered PROVE LineOK' /\ PollTypeOK'
  <2>1. LineOK'
    BY <1>0, <1>7, TakeTyped DEF PollAnswered
  <2>2. foreign' \in {"no", "after gap", "yes"}
    BY <1>0, <1>7 DEF PollAnswered, PollTypeOK
  <2>3. PICK none \in BOOLEAN : NextRead(none)
    BY <1>7 DEF PollAnswered
  <2>4. ppc = "read"
    BY <1>7 DEF PollAnswered
  <2> QED
    BY <1>0, <1>6, <2>1, <2>2, <2>3, <2>4 DEF PollTypeOK
<1>8. ASSUME PollUnanswered PROVE LineOK' /\ PollTypeOK'
  <2>1. NextRead(TRUE) /\ ppc = "read" /\ UNCHANGED <<line, foreign>>
    BY <1>8 DEF PollUnanswered, NothingCame
  <2> QED
    BY <1>0, <1>6, <2>1 DEF PollTypeOK, LineOK, line, world
<1> QED
  BY <1>2, <1>3, <1>4, <1>5, <1>7, <1>8 DEF PollStep

\* Every step keeps the values in their types.
LEMMA TypedKept ==
    ASSUME Typed, Handles, Calls, [Next]_vars
    PROVE  Typed'
<1>0. /\ LineOK /\ ScanTypeOK /\ PollTypeOK /\ polled \in BOOLEAN
      /\ found \subseteq Devices
  BY DEF Typed, TypeOK, PollTypeOK
<1>1. SUFFICES /\ LineOK' /\ ScanTypeOK' /\ PollTypeOK' /\ polled' \in BOOLEAN
               /\ found' \subseteq Devices
  BY DEF Typed, TypeOK, PollTypeOK, LineOK, LineTypeOK
<1>2. CASE StartScan
  <2>1. disturbed' \in DOMAIN Severity
    BY <1>0, <1>2, Worst DEF StartScan, ScanCall, ScanTypeOK, Severity
  <2> QED
    BY <1>0, <1>2, <2>1, Untouched DEF StartScan, ScanCall, ScanTypeOK
<1>3. CASE Discover
  <2>1. LineOK' /\ ScanTypeOK' /\ found' \subseteq Devices
    BY <1>3, ScanTyped DEF Discover
  <2> QED
    BY <1>0, <1>3, <2>1 DEF Discover, PollTypeOK, Shared
<1>4. CASE StartPoll \/ PollStep
  <2>1. LineOK' /\ PollTypeOK'
    BY <1>4, PollTyped DEF StartPoll
  <2> QED
    BY <1>0, <1>4, <2>1 DEF StartPoll, PollStep, scan, ScanTypeOK
<1>5. CASE Arrive \/ Weather
  <2>1. LineOK'
    <3>1. ASSUME NEW p \in RangeOf(Ports), Deliver(p, HeldOpen(p)) PROVE LineOK'
      BY <1>0, <3>1, WorldTyped DEF HeldOpen
    <3> QED
      BY <1>0, <1>5, <3>1, WorldTyped, PollAssumption DEF Arrive, Weather
  <2> QED
    BY <1>0, <1>5, <2>1, Untouched DEF Arrive, Weather, scan
<1>6. CASE Lost
  <2>1. PICK p \in RangeOf(Ports) : Lose(p, Contended)
    BY <1>6 DEF Lost
  <2>2. LineOK'
    BY <1>0, <2>1, WorldTyped DEF Contended, ScanOnPollPort
  <2>3. disturbed' \in DOMAIN Severity
    BY <1>0, <1>6, Worst DEF Lost, ScanLost, ScanTypeOK, Severity
  <2> QED
    BY <1>0, <1>6, <2>2, <2>3, Untouched DEF Lost, ScanLost, ScanTypeOK
<1>7. CASE Unplug \/ Replug
  <2>1. PICK p \in RangeOf(Ports) : (Pull(p) \/ Plug(p)) /\ ScanPulled(p)
    BY <1>7 DEF Unplug, Replug
  <2>2. LineOK'
    BY <1>0, <2>1, WorldTyped
  <2>3. disturbed' \in DOMAIN Severity
    BY <1>0, <2>1, Worst DEF ScanPulled, ScanTypeOK, Severity
  <2>4. ScanTypeOK' /\ found' \subseteq Devices
    BY <1>0, <2>1, <2>3 DEF ScanPulled, ScanTypeOK
  <2>5. PollTypeOK' /\ polled' = polled
    BY <1>0, <1>7 DEF Unplug, Replug, poll, PollTypeOK
  <2> QED
    BY <1>0, <2>2, <2>4, <2>5
<1>8. CASE UNCHANGED vars
  BY <1>0, <1>8, Untouched DEF vars, scan
<1> QED
  BY <1>2, <1>3, <1>4, <1>5, <1>6, <1>7, <1>8 DEF Next

----------------------------------------------------------------------------
(* What is remembered *)

\* The poller, the arriving replies and the weather leave the scan alone.
LEMMA ScanAlone ==
    ASSUME StartPoll \/ PollStep \/ Arrive \/ Weather \/ UNCHANGED vars
    PROVE  UNCHANGED <<spc, portIx, rateIx, address, handle, found, portOpened,
                       warning, result, disturbed>>
BY DEF StartPoll, PollStep, Arrive, Weather, vars, scan

\* What a pulled adapter or a lost reply does to the scan: the disturbance is
\* remembered while it runs, and its handle may be dead.
LEMMA ScanDisturbed ==
    ASSUME Typed, Lost \/ Unplug \/ Replug
    PROVE  /\ UNCHANGED <<spc, portIx, rateIx, address, found, portOpened, warning,
                          result>>
           /\ \E event \in {"nothing", "late", "pulled"} :
                 /\ Disturb(event) /\ (event = "nothing" <=> ~Scanning)
                 /\ \/ handle' = handle
                    \/ handle = "open" /\ handle' = "dead"
                       /\ (Scanning => event = "pulled")
           /\ handle' = "open" => /\ handle = "open" /\ rate'[Port] = rate[Port]
<1>1. CASE Lost
  <2>1. PICK p \in RangeOf(Ports) : Lose(p, Contended)
    BY <1>1 DEF Lost
  <2> QED
    BY <1>1, <2>1 DEF Lost, ScanLost, Lose
<1>2. CASE Unplug \/ Replug
  <2>1. PICK p \in RangeOf(Ports) : (Pull(p) \/ Plug(p)) /\ ScanPulled(p)
    BY <1>2 DEF Unplug, Replug
  <2>2. handle' = "open" => /\ handle = "open" /\ (p # Port \/ rate' = rate)
    BY <2>1 DEF ScanPulled, Plug
  <2>3. rate' = [rate EXCEPT ![p] = Rates[1]] \/ rate' = rate
    BY <2>1 DEF Pull, Plug, SetRate
  <2>4. Port \in RangeOf(Ports) /\ rate \in [RangeOf(Ports) -> RangeOf(Rates)]
    BY Lists DEF Typed, TypeOK, ScanTypeOK, LineOK
  <2>5. handle' = "open" => rate'[Port] = rate[Port]
    BY <2>2, <2>3, <2>4
  <2> QED
    BY <2>1, <2>2, <2>5 DEF ScanPulled
<1> QED
  BY <1>1, <1>2

\* The handle is open exactly between its opening and its closing.
LEMMA HandlesKept ==
    ASSUME Typed, Handles, [Next]_vars
    PROVE  Handles'
<1>0. disturbed \in DOMAIN Severity /\ handle \in {"closed", "open", "dead"}
  BY DEF Typed, TypeOK, ScanTypeOK
<1>1. CASE StartScan
  BY <1>1 DEF StartScan, ScanCall, Handles
<1>2. CASE Discover
  <2>1. PICK shared, stolen : ScanStep(shared, stolen)
    BY <1>2 DEF Discover
  <2>2. CASE Missing \/ Refused \/ Opened(shared)
    BY <2>2 DEF Handles, Missing, Refused, Opened
  <2>3. CASE Skip \/ Probe \/ Answered \/ Unanswered(shared)
    BY <2>3 DEF Handles, Skip, Probe, Answered, Unanswered, NextAddress
  <2>4. CASE ScanRaises(stolen) \/ Close
    BY <2>4 DEF Handles, ScanRaises, Close
  <2>5. CASE NextPort(shared) \/ ScanReturn
    BY <2>5 DEF Handles, NextPort, ScanReturn
  <2> QED
    BY <2>1, <2>2, <2>3, <2>4, <2>5 DEF ScanStep
<1>3. CASE StartPoll \/ PollStep \/ Arrive \/ Weather \/ UNCHANGED vars
  <2>1. UNCHANGED <<spc, portIx, rateIx, handle, found, portOpened, warning, result,
                    disturbed>>
    BY <1>3, ScanAlone
  <2> QED
    BY <2>1 DEF Handles
<1>4. CASE Lost \/ Unplug \/ Replug
  <2>1. PICK event \in {"nothing", "late", "pulled"} :
           /\ Disturb(event) /\ (event = "nothing" <=> ~Scanning)
           /\ \/ handle' = handle
              \/ handle = "open" /\ handle' = "dead"
    BY <1>4, ScanDisturbed
  <2>2. event \in DOMAIN Severity
    BY DEF Severity
  <2>3. event = "nothing" => disturbed' = disturbed
    BY <1>0, <2>1, <2>2, Worst
  <2>4. UNCHANGED <<spc, portIx, rateIx, found, portOpened, warning, result>>
    BY <1>4, ScanDisturbed
  <2> QED
    BY <2>1, <2>3, <2>4 DEF Handles, Scanning
<1> QED
  BY <1>1, <1>2, <1>3, <1>4 DEF Next

\* A call's counters are clean between calls.
LEMMA CallsKept ==
    ASSUME Typed, Calls, [Next]_vars
    PROVE  Calls'
<1>0. PollTypeOK
  BY DEF Typed, TypeOK, PollTypeOK
<1>1. CASE StartScan \/ Discover \/ Arrive \/ Lost \/ Replug \/ Weather \/ UNCHANGED vars
  <2>1. UNCHANGED <<polled, ppc, serial, cmd, foreign>>
    BY <1>1 DEF StartScan, Discover, Arrive, Lost, Replug, Weather, vars, poll
  <2> QED
    BY <2>1 DEF Calls
<1>2. CASE Unplug
  BY <1>2 DEF Unplug, Calls
<1>3. CASE StartPoll
  <2>1. 1 <= Len(Reads)
    BY PollAssumption
  <2> QED
    BY <1>3, <2>1 DEF StartPoll, PollCall, Calls
<1>4. CASE PollStep
  <2>0. polled' = polled
    BY <1>4 DEF PollStep
  <2>1. CASE PollOpens \/ PollSends \/ PollDone
    <3>1. 1 <= Len(Reads)
      BY PollAssumption
    <3>2. UNCHANGED <<cmd, foreign>> /\ polled
      BY <2>1 DEF PollOpens, PollSends, PollDone, Calls
    <3>3. \/ ppc = "open" /\ ppc' = "send"
          \/ ppc = "send" /\ ppc' = "read"
          \/ ppc = "done" /\ ppc' = "idle"
      BY <2>1 DEF PollOpens, PollSends, PollDone
    <3> QED
      BY <2>0, <3>1, <3>2, <3>3 DEF Calls
  <2>2. CASE PollCannotOpen \/ PollRaises \/ PollReturns
    <3>1. PICK outcome \in {"failed", "right", "wrong"} : Return(outcome)
      BY <2>2 DEF PollCannotOpen, PollRaises, PollReturns
    <3>2. polled
      BY <2>2 DEF PollCannotOpen, PollRaises, PollReturns, Calls, Contended
    <3> QED
      BY <2>0, <3>1, <3>2 DEF Return, Calls
  <2>3. CASE PollAnswered \/ PollUnanswered
    <3>1. PICK none \in BOOLEAN : NextRead(none)
      BY <2>3 DEF PollAnswered, PollUnanswered
    <3>2. polled /\ ppc = "read"
      BY <2>3 DEF PollAnswered, PollUnanswered, Calls
    <3>3. cmd \in 1..Len(Reads) /\ Len(Reads) \in Nat
      <4>1. cmd \in 1..Len(Reads) + 1
        BY <1>0 DEF PollTypeOK
      <4>2. Len(Reads) \in Nat
        BY PollAssumption
      <4> QED
        BY <3>2, <4>1, <4>2 DEF Calls
    <3>4. cmd' = cmd + 1 /\ ppc' = IF cmd = Len(Reads) THEN "evaluate" ELSE "send"
      BY <3>1 DEF NextRead
    <3>5. ppc' = "send" => cmd' <= Len(Reads)
      BY <3>3, <3>4
    <3> QED
      BY <2>0, <3>2, <3>4, <3>5 DEF Calls
  <2> QED
    BY <1>4, <2>1, <2>2, <2>3 DEF PollStep
<1> QED
  BY <1>1, <1>2, <1>3, <1>4 DEF Next

\* No disturbance of a running scan is forgotten.
LEMMA MarkedKept ==
    ASSUME Base, [Next]_vars
    PROVE  Marked'
<1> USE DEF ScanOnPollPort
<1>0. /\ disturbed \in DOMAIN Severity /\ handle \in {"closed", "open", "dead"}
      /\ Handles /\ Marked /\ Typed
  BY DEF Base, Typed, TypeOK, ScanTypeOK
<1>1. CASE StartScan
  <2>1. handle = "closed" /\ handle' = handle /\ result' = result /\ result = "none yet"
    BY <1>0, <1>1 DEF StartScan, ScanCall, Handles
  <2> QED
    BY <2>1 DEF Marked
<1>2. CASE Discover
  <2>0. ScanStep(Shared, Contended) /\ polled' = polled
    BY <1>2 DEF Discover
  <2>1. CASE Missing \/ Refused \/ Skip \/ Probe \/ Answered
    <3>1. UNCHANGED <<portIx, handle, disturbed, result>>
      BY <2>1 DEF Missing, Refused, Skip, Probe, Answered
    <3> QED
      BY <1>0, <2>0, <3>1 DEF Marked, Port
  <2>2. CASE Opened(Shared)
    <3>1. PICK event \in {"shared", "nothing"} :
             Disturb(event) /\ (event = "shared" <=> Shared)
      BY <2>2 DEF Opened
    <3>2. event \in DOMAIN Severity
      BY DEF Severity
    <3>3. Shared => disturbed' = "shared"
      BY <1>0, <3>1, <3>2, Worst
    <3>4. handle' = "open" /\ portIx' = portIx /\ result' = result /\ result = "none yet"
      BY <1>0, <2>2 DEF Opened, Handles
    <3> QED
      BY <2>0, <3>3, <3>4 DEF Marked, Shared, Port
  <2>3. CASE Unanswered(Shared)
    <3>1. PICK event \in {"late", "nothing"} : Disturb(event)
      BY <2>3 DEF Unanswered
    <3>2. event \in DOMAIN Severity
      BY DEF Severity
    <3>3. disturbed = "shared" => disturbed' = "shared"
      BY <1>0, <3>1, <3>2, Worst
    <3>4. UNCHANGED <<portIx, handle, result>> /\ handle = "open" /\ result = "none yet"
      BY <1>0, <2>3 DEF Unanswered, Handles
    <3> QED
      BY <1>0, <2>0, <3>3, <3>4 DEF Marked, Port
  <2>4. CASE ScanRaises(Contended)
    <3>1. disturbed \in {"pulled", "shared"}
      <4>1. CASE handle = "dead"
        BY <1>0, <4>1 DEF Marked
      <4>2. CASE Contended
        <5>1. polled
          BY <4>2 DEF Contended, Base, Calls
        <5> QED
          BY <1>0, <4>2, <5>1 DEF Contended, Marked
      <4> QED
        BY <2>4, <4>1, <4>2 DEF ScanRaises
    <3>2. handle' = "closed" /\ disturbed' = disturbed
      BY <2>4 DEF ScanRaises
    <3> QED
      BY <3>1, <3>2 DEF Marked
  <2>5. CASE Close \/ ScanReturn
    <3>1. handle' = "closed" /\ result' = "none yet"
      BY <1>0, <2>5 DEF Close, ScanReturn, Handles
    <3> QED
      BY <3>1 DEF Marked
  <2>6. CASE NextPort(Shared)
    <3>1. handle = "closed" /\ handle' = handle /\ result = "none yet"
      BY <1>0, <2>6 DEF NextPort, Handles
    <3>2. warning \in Warnings
      BY <1>0 DEF Typed, TypeOK, ScanTypeOK
    <3>3. warning' # "raised"
      BY <2>6, <3>2 DEF NextPort, Warnings, Attachments
    <3>4. result' # "raised"
      BY <2>6, <3>1, <3>3 DEF NextPort
    <3> QED
      BY <3>1, <3>4 DEF Marked
  <2> QED
    BY <2>0, <2>1, <2>2, <2>3, <2>4, <2>5, <2>6 DEF ScanStep
<1>3. CASE StartPoll \/ PollStep \/ Arrive \/ Weather \/ UNCHANGED vars
  <2>1. polled' = polled
    BY <1>3 DEF StartPoll, PollStep, Arrive, Weather, vars
  <2> QED
    BY <1>0, <1>3, <2>1, ScanAlone DEF Marked, Port
<1>4. CASE Lost \/ Unplug \/ Replug
  <2>1. PICK event \in {"nothing", "late", "pulled"} :
           /\ Disturb(event) /\ (event = "nothing" <=> ~Scanning)
           /\ \/ handle' = handle
              \/ handle = "open" /\ handle' = "dead" /\ (Scanning => event = "pulled")
    BY <1>0, <1>4, ScanDisturbed
  <2>2. event \in DOMAIN Severity
    BY DEF Severity
  <2>3. /\ disturbed = "shared" => disturbed' = "shared"
        /\ disturbed \in {"pulled", "shared"} \/ event = "pulled"
             => disturbed' \in {"pulled", "shared"}
    BY <1>0, <2>1, <2>2, Worst
  <2>4. handle' = "dead" => handle = "dead" \/ event = "pulled"
    BY <1>0, <2>1 DEF Handles, Scanning
  <2>5. UNCHANGED <<portIx, result>> /\ polled' = polled
    BY <1>0, <1>4, ScanDisturbed DEF Lost, Unplug, Replug
  <2>6. handle' # "closed" => handle # "closed"
    BY <2>1
  <2> QED
    BY <1>0, <2>3, <2>4, <2>5, <2>6 DEF Marked, Port
<1> QED
  BY <1>1, <1>2, <1>3, <1>4 DEF Next

----------------------------------------------------------------------------
(* What a scan reads *)

\* Nobody is ever wired to another bus, and only the poller's own port is
\* touched by its calls.
LEMMA Wired == Next => inverters' = inverters
BY DEF Next, StartScan, ScanCall, Discover, ScanStep, Missing, Refused, Opened, Skip,
       Probe, Answered, Unanswered, ScanRaises, Close, NextPort, ScanReturn, SendRequest,
       TakeReply, NothingCame, StartPoll, PollCall, PollStep, PollOpens, PollCannotOpen,
       PollSends, PollRaises, PollAnswered, PollUnanswered, PollReturns, PollDone,
       Arrive, Deliver, Lost, Lose, Unplug, Pull, Replug, Plug, Weather, Settle, line,
       world

\* A call touches no port but its own.
LEMMA PollElsewhere ==
    ASSUME Typed, StartPoll \/ PollStep, NEW p \in RangeOf(Ports), p # PollPort
    PROVE  /\ rate'[p] = rate[p] /\ queue'[p] = queue[p] /\ flying'[p] = flying[p]
           /\ attached' = attached
<1>0. /\ rate \in [RangeOf(Ports) -> RangeOf(Rates)]
      /\ queue \in [RangeOf(Ports) -> Seq(Replies \cup {Garbage})]
      /\ flying \in [RangeOf(Ports) -> Seq(Replies)]
  BY DEF Typed, LineOK
<1>1. CASE StartPoll
  BY <1>1 DEF StartPoll, PollCall, line
<1>2. CASE PollOpens
  BY <1>0, <1>2 DEF PollOpens, SetRate, world
<1>3. CASE PollSends
  BY <1>0, <1>3 DEF PollSends, SendRequest, world
<1>4. CASE PollAnswered
  BY <1>0, <1>4 DEF PollAnswered, TakeReply, world
<1>5. CASE PollCannotOpen \/ PollRaises \/ PollUnanswered \/ PollReturns \/ PollDone
  BY <1>5 DEF PollCannotOpen, PollRaises, PollUnanswered, NothingCame, PollReturns,
              PollDone, line
<1> QED
  BY <1>1, <1>2, <1>3, <1>4, <1>5 DEF PollStep

\* A scan that nobody shares the port with is not on the poller's port.
LEMMA Unshared ==
    ASSUME Base, handle # "closed", disturbed # "shared"
    PROVE  ~Shared /\ ~Contended /\ (StartPoll \/ PollStep => Port # PollPort)
<1>1. ~(polled /\ Port = PollPort)
  BY DEF Base, Marked, ScanOnPollPort
<1>2. ~polled => ~Contended /\ ~StartPoll /\ ~PollStep
  BY DEF Base, Calls, Contended, StartPoll, PollCall, PollStep, PollOpens,
         PollCannotOpen, PollSends, PollRaises, PollAnswered, PollUnanswered,
         PollReturns, PollDone
<1> QED
  BY <1>1, <1>2 DEF Shared, Contended, ScanOnPollPort

\* A disturbance by a driver object is never forgotten by a scan with a handle.
LEMMA StillUnshared ==
    ASSUME Base, Next, disturbed' # "shared", handle # "closed"
    PROVE  disturbed # "shared"
<1>0. disturbed \in DOMAIN Severity
  BY DEF Base, Typed, TypeOK, ScanTypeOK
<1>1. CASE \E event \in DOMAIN Severity : Disturb(event)
  BY <1>0, <1>1, Worst
<1>2. CASE Discover
  <2>1. PICK shared, stolen : ScanStep(shared, stolen)
    BY <1>2 DEF Discover
  <2>2. CASE disturbed' = disturbed
    BY <2>2
  <2>3. CASE Opened(shared) \/ Unanswered(shared)
    BY <1>1, <2>3 DEF Opened, Unanswered, Severity
  <2>4. CASE ScanReturn
    BY <2>4 DEF ScanReturn, Base, Handles
  <2> QED
    BY <2>1, <2>2, <2>3, <2>4 DEF ScanStep, Missing, Refused, Skip, Probe, Answered,
                                  ScanRaises, Close, NextPort
<1>3. CASE StartScan \/ Lost \/ Unplug \/ Replug
  BY <1>1, <1>3 DEF StartScan, ScanCall, Lost, ScanLost, Unplug, Replug, ScanPulled,
                    Severity
<1>4. CASE StartPoll \/ PollStep \/ Arrive \/ Weather
  BY <1>4, ScanAlone
<1> QED
  BY <1>2, <1>3, <1>4 DEF Next

\* What a scan reads with a good checksum was sent at its own rate.
LEMMA GenuineKept ==
    ASSUME Base, Genuine, [Next]_vars
    PROVE  Genuine'
<1>0. /\ Typed /\ Handles /\ LineOK /\ ScanTypeOK /\ Port \in RangeOf(Ports)
      /\ rate \in [RangeOf(Ports) -> RangeOf(Rates)]
      /\ queue \in [RangeOf(Ports) -> Seq(Replies \cup {Garbage})]
  BY Lists DEF Base, Typed, TypeOK, ScanTypeOK, LineOK
<1>1. SUFFICES ASSUME Next, handle' = "open", disturbed' # "shared"
               PROVE  /\ rate'[Port'] = Rate'
                      /\ spc' = "read" =>
                            \A i \in DOMAIN queue'[Port'] :
                               queue'[Port'][i] # Garbage =>
                                  inverters'[Port'][queue'[Port'][i].address] = Rate'
  <2>1. ASSUME UNCHANGED vars PROVE Genuine'
    BY <2>1 DEF Genuine, vars, line, scan, Port, Rate
  <2> QED
    BY <2>1 DEF Genuine
<1>2. inverters' = inverters
  BY <1>1, Wired
<1>3. ASSUME handle = "open", rate'[Port] = rate[Port],
             UNCHANGED <<portIx, rateIx>>, spc' = "read" => spc = "read",
             queue'[Port] = queue[Port]
      PROVE  /\ rate'[Port'] = Rate'
             /\ spc' = "read" =>
                   \A i \in DOMAIN queue'[Port'] :
                      queue'[Port'][i] # Garbage =>
                         inverters'[Port'][queue'[Port'][i].address] = Rate'
  <2>1. disturbed # "shared"
    BY <1>1, <1>3, StillUnshared
  <2> QED
    BY <1>2, <1>3, <2>1 DEF Genuine, Port, Rate
<1>4. CASE StartScan
  BY <1>0, <1>1, <1>4 DEF StartScan, ScanCall, Handles
<1>5. CASE Discover
  <2>1. PICK shared, stolen : ScanStep(shared, stolen)
    BY <1>5 DEF Discover
  <2>2. CASE Missing \/ Refused
    BY <1>0, <1>1, <2>2 DEF Missing, Refused, Handles
  <2>3. CASE Opened(shared)
    <3>1. rate' = [rate EXCEPT ![Port] = Rate] /\ spc' = "probe"
          /\ UNCHANGED <<portIx, rateIx>>
      BY <2>3 DEF Opened, SetRate
    <3> QED
      BY <1>0, <3>1 DEF Port, Rate
  <2>4. CASE Skip
    <3>1. handle = "open" /\ UNCHANGED <<portIx, rateIx, rate, queue>> /\ spc' # "read"
      BY <1>1, <2>4 DEF Skip, NextAddress, line
    <3> QED
      BY <1>3, <3>1
  <2>5. CASE Probe
    <3>1. /\ UNCHANGED <<portIx, rateIx, rate>> /\ handle = "open"
          /\ queue' = [queue EXCEPT ![Port] = <<>>]
      BY <2>5 DEF Probe, SendRequest
    <3>2. queue'[Port] = <<>>
      BY <1>0, <3>1
    <3>3. disturbed # "shared"
      BY <1>1, <3>1, StillUnshared
    <3> QED
      BY <3>1, <3>2, <3>3 DEF Genuine, Port, Rate
  <2>6. CASE Answered \/ Unanswered(shared)
    <3>1. /\ UNCHANGED <<portIx, rateIx, rate>> /\ handle = "open" /\ spc' # "read"
      BY <2>6 DEF Answered, TakeReply, Unanswered, NothingCame, NextAddress, line
    <3>2. disturbed # "shared"
      BY <1>1, <3>1, StillUnshared
    <3> QED
      BY <3>1, <3>2 DEF Genuine, Port, Rate
  <2>7. CASE ScanRaises(stolen) \/ Close \/ NextPort(shared) \/ ScanReturn
    BY <1>0, <1>1, <2>7 DEF ScanRaises, Close, NextPort, ScanReturn, Handles
  <2> QED
    BY <2>1, <2>2, <2>3, <2>4, <2>5, <2>6, <2>7 DEF ScanStep
<1>6. CASE StartPoll \/ PollStep
  <2>1. handle = "open" /\ disturbed = disturbed' /\ UNCHANGED <<spc, portIx, rateIx>>
    BY <1>1, <1>6, ScanAlone
  <2>2. Port # PollPort
    BY <1>1, <1>6, <2>1, Unshared
  <2> QED
    BY <1>0, <1>3, <1>6, <2>1, <2>2, PollElsewhere
<1>7. CASE Arrive
  <2>1. /\ handle = "open" /\ disturbed # "shared" /\ rate' = rate
        /\ UNCHANGED <<spc, portIx, rateIx>>
    BY <1>1, <1>7, ScanAlone DEF Arrive, Deliver
  <2>2. PICK p \in RangeOf(Ports) : Deliver(p, HeldOpen(p))
    BY <1>7 DEF Arrive
  <2>3. CASE queue'[Port] = queue[Port]
    BY <1>3, <2>1, <2>3
  <2>4. CASE queue'[Port] # queue[Port]
    <3> DEFINE reply == Head(flying[p])
               got == IF inverters[p][reply.address] = rate[p] THEN reply ELSE Garbage
    <3>1. p = Port /\ queue'[Port] = Append(queue[Port], got)
      BY <1>0, <2>2, <2>4 DEF Deliver
    <3>2. got # Garbage => inverters[Port][got.address] = Rate
      BY <2>1, <3>1 DEF Genuine
    <3> HIDE DEF got
    <3>3. queue[Port] \in Seq(Replies \cup {Garbage})
      BY <1>0
    <3>4. \A i \in DOMAIN queue'[Port] :
             \/ queue'[Port][i] = got
             \/ i \in DOMAIN queue[Port] /\ queue'[Port][i] = queue[Port][i]
      BY <3>1, <3>3
    <3> QED
      BY <1>2, <2>1, <3>2, <3>4 DEF Genuine, Port, Rate
  <2> QED
    BY <2>3, <2>4
<1>8. CASE Lost \/ Unplug \/ Replug
  <2>1. /\ UNCHANGED <<spc, portIx, rateIx>> /\ handle = "open"
        /\ rate'[Port] = rate[Port]
    BY <1>0, <1>1, <1>8, ScanDisturbed
  <2>2. queue'[Port] = queue[Port]
    <3>1. CASE Lost
      BY <3>1 DEF Lost, Lose
    <3>2. CASE Replug
      BY <3>2 DEF Replug, Plug
    <3>3. CASE Unplug
      <4>1. PICK p \in RangeOf(Ports) : Pull(p) /\ ScanPulled(p)
        BY <3>3 DEF Unplug
      <4>2. p # Port
        BY <1>1, <2>1, <4>1 DEF ScanPulled
      <4> QED
        BY <1>0, <4>1, <4>2 DEF Pull
    <3> QED
      BY <1>8, <3>1, <3>2, <3>3
  <2> QED
    BY <1>3, <2>1, <2>2
<1>9. CASE Weather
  <2>1. UNCHANGED <<spc, portIx, rateIx, handle, rate, queue>>
    BY <1>9, ScanAlone DEF Weather, Settle
  <2> QED
    BY <1>1, <1>3, <2>1
<1> QED
  BY <1>1, <1>4, <1>5, <1>6, <1>7, <1>8, <1>9 DEF Next

\* A device is reported only at a rate at which its port has an inverter.
LEMMA RealKept ==
    ASSUME Base, Genuine, Real, [Next]_vars
    PROVE  Real'
<1>0. /\ Typed /\ Handles /\ disturbed \in DOMAIN Severity /\ Port \in RangeOf(Ports)
      /\ queue \in [RangeOf(Ports) -> Seq(Replies \cup {Garbage})]
  BY Lists DEF Base, Typed, TypeOK, ScanTypeOK, LineOK
<1>1. SUFFICES ASSUME Next, disturbed' # "shared"
               PROVE  \A d \in found' :
                         \E a \in Addresses : inverters[d.port][a] = d.baudrate
  <2>1. ASSUME UNCHANGED vars PROVE Real'
    BY <2>1 DEF Real, vars, line, scan
  <2> QED
    BY <2>1, Wired DEF Real
<1>2. CASE found' = {}
  BY <1>2
<1>3. CASE found' = found /\ disturbed # "shared"
  BY <1>3 DEF Real
<1>4. CASE StartScan
  BY <1>0, <1>2, <1>4 DEF StartScan, ScanCall, Handles
<1>5. CASE Discover
  <2>1. PICK shared, stolen : ScanStep(shared, stolen)
    BY <1>5 DEF Discover
  <2>2. CASE Missing \/ Refused \/ Skip \/ Probe \/ Close \/ NextPort(shared)
    BY <1>1, <1>3, <2>2 DEF Missing, Refused, Skip, Probe, Close, NextPort
  <2>3. CASE Opened(shared) \/ Unanswered(shared)
    <3>1. PICK event \in DOMAIN Severity : Disturb(event)
      BY <2>3 DEF Opened, Unanswered, Severity
    <3>2. disturbed # "shared"
      BY <1>0, <1>1, <3>1, Worst
    <3> QED
      BY <1>3, <2>3, <3>2 DEF Opened, Unanswered
  <2>4. CASE Answered
    <3>1. handle = "open" /\ spc = "read" /\ disturbed # "shared" /\ queue[Port] # <<>>
      BY <1>1, <2>4 DEF Answered, TakeReply
    <3>2. CASE Head(queue[Port]) = Garbage
      BY <1>3, <2>4, <3>1, <3>2 DEF Answered
    <3>3. CASE Head(queue[Port]) # Garbage
      <4> DEFINE reply == Head(queue[Port])
      <4>1. reply = queue[Port][1] /\ 1 \in DOMAIN queue[Port] /\ reply \in Replies
        BY <1>0, <3>1, <3>3
      <4>2. inverters[Port][reply.address] = Rate /\ reply.address \in Addresses
        BY <3>1, <3>3, <4>1 DEF Genuine, Replies
      <4>3. found' = found \cup
              {[address |-> address, baudrate |-> Rate, port |-> Port]}
        BY <2>4, <3>3 DEF Answered
      <4> QED
        BY <3>1, <4>2, <4>3 DEF Real
    <3> QED
      BY <3>2, <3>3
  <2>5. CASE ScanRaises(stolen) \/ ScanReturn
    BY <1>2, <2>5 DEF ScanRaises, ScanReturn
  <2> QED
    BY <2>1, <2>2, <2>3, <2>4, <2>5 DEF ScanStep
<1>6. CASE StartPoll \/ PollStep \/ Arrive \/ Weather
  BY <1>1, <1>3, <1>6, ScanAlone
<1>7. CASE Lost \/ Unplug \/ Replug
  <2>1. PICK event \in {"nothing", "late", "pulled"} : Disturb(event)
    BY <1>0, <1>7, ScanDisturbed
  <2>2. event \in DOMAIN Severity
    BY DEF Severity
  <2>3. disturbed # "shared"
    BY <1>0, <1>1, <2>1, <2>2, Worst
  <2> QED
    BY <1>0, <1>3, <1>7, <2>3, ScanDisturbed
<1> QED
  BY <1>1, <1>4, <1>5, <1>6, <1>7 DEF Next

----------------------------------------------------------------------------
(* What a call reads *)

\* A scan touches the lines of no port but its own.
LEMMA ScanElsewhere ==
    ASSUME Typed, NEW shared, NEW stolen, ScanStep(shared, stolen),
           NEW p \in RangeOf(Ports), p # Port
    PROVE  queue'[p] = queue[p] /\ flying'[p] = flying[p]
<1>0. /\ queue \in [RangeOf(Ports) -> Seq(Replies \cup {Garbage})]
      /\ flying \in [RangeOf(Ports) -> Seq(Replies)]
  BY DEF Typed, LineOK
<1>1. CASE Probe
  BY <1>0, <1>1 DEF Probe, SendRequest
<1>2. CASE Answered
  BY <1>0, <1>2 DEF Answered, TakeReply
<1>3. CASE NextPort(shared)
  BY <1>0, <1>3 DEF NextPort, Abandon
<1>4. CASE \/ Missing \/ Refused \/ Opened(shared) \/ Skip \/ Unanswered(shared)
           \/ ScanRaises(stolen) \/ Close \/ ScanReturn
  BY <1>4 DEF Missing, Refused, Opened, Skip, Unanswered, NothingCame, ScanRaises, Close,
              ScanReturn, line
<1> QED
  BY <1>1, <1>2, <1>3, <1>4 DEF ScanStep

\* A scan that leaves the poller's port without a handle has not touched it.
LEMMA ScanSpares ==
    ASSUME Base, polled, Discover, ~mixed'
    PROVE  queue'[PollPort] = queue[PollPort] /\ flying'[PollPort] = flying[PollPort]
<1>1. ScanStep(Shared, Contended) /\ ~(Shared /\ handle' # "closed")
  BY DEF Discover
<1>2. CASE Port # PollPort
  BY <1>1, <1>2, ScanElsewhere, PollAssumption DEF Base
<1>3. CASE Port = PollPort
  <2>1. Shared /\ handle' = "closed"
    BY <1>1, <1>3 DEF Shared
  <2>2. \/ Missing \/ Refused \/ ScanRaises(Contended) \/ Close \/ NextPort(Shared)
        \/ ScanReturn
    BY <1>1, <2>1 DEF ScanStep, Opened, Skip, Probe, Answered, Unanswered, Base, Handles
  <2> QED
    BY <2>1, <2>2 DEF Missing, Refused, ScanRaises, Close, NextPort, ScanReturn, line
<1> QED
  BY <1>2, <1>3

\* A scan that uses the driver's port leaves its mark on the calls.
LEMMA MixedKept ==
    ASSUME Base, Mixed, [Next]_vars
    PROVE  Mixed'
<1> USE DEF Mixed, ScanOnPollPort, Port
<1>1. CASE Discover
  <2>1. /\ ScanStep(Shared, Contended) /\ polled' = polled
        /\ mixed' = (mixed \/ (Shared /\ handle' # "closed"))
    BY <1>1 DEF Discover
  <2>2. CASE portIx' = portIx
    BY <2>1, <2>2 DEF Shared
  <2>3. CASE portIx' # portIx
    <3>1. NextPort(Shared) \/ ScanReturn
      BY <2>1, <2>3 DEF ScanStep, Missing, Refused, Opened, Skip, Probe, Answered,
                        Unanswered, ScanRaises, Close
    <3>2. spc \in {"next port", "done"} /\ handle' = handle
      BY <3>1 DEF NextPort, ScanReturn
    <3> QED
      BY <3>2 DEF Base, Handles
  <2> QED
    BY <2>2, <2>3
<1>2. CASE StartScan \/ Arrive \/ Weather \/ UNCHANGED vars
  BY <1>2 DEF StartScan, ScanCall, Arrive, Weather, poll, scan, vars
<1>3. CASE Lost \/ Unplug \/ Replug
  <2>1. PICK event \in {"nothing", "late", "pulled"} :
           \/ handle' = handle
           \/ handle = "open" /\ handle' = "dead"
    BY <1>3, ScanDisturbed DEF Base, Typed, TypeOK, ScanTypeOK
  <2>2. UNCHANGED <<polled, mixed, portIx>>
    BY <1>3 DEF Lost, Unplug, Replug, poll, ScanLost, ScanPulled
  <2> QED
    BY <2>1, <2>2
<1>4. CASE StartPoll
  BY <1>4 DEF StartPoll, PollCall, scan
<1>5. CASE PollStep
  <2>1. UNCHANGED <<mixed, polled, scan>>
    BY <1>5 DEF PollStep, PollOpens, PollCannotOpen, PollSends, PollRaises, PollAnswered,
                PollUnanswered, PollReturns, PollDone, Return, NextRead
  <2> QED
    BY <2>1 DEF scan
<1> QED
  BY <1>1, <1>2, <1>3, <1>4, <1>5 DEF Next

\* The bus of the calls holds the reply to the last request and nothing else.
LEMMA OwnRepliesKept ==
    ASSUME Base, Mixed, OwnReplies, [Next]_vars
    PROVE  OwnReplies'
<1>0. /\ queue \in [RangeOf(Ports) -> Seq(Replies \cup {Garbage})]
      /\ flying \in [RangeOf(Ports) -> Seq(Replies)]
      /\ PollPort \in RangeOf(Ports)
  BY PollAssumption DEF Base, Typed, LineOK
<1>1. ASSUME UNCHANGED <<polled, ppc, cmd, gap, serial>>, ~mixed' => ~mixed,
             polled => /\ queue'[PollPort] = queue[PollPort]
                       /\ flying'[PollPort] = flying[PollPort]
      PROVE  OwnReplies'
  BY <1>1 DEF OwnReplies, Asked
<1>2. CASE StartScan \/ Replug \/ Weather \/ UNCHANGED vars
  <2>1. UNCHANGED <<polled, ppc, cmd, gap, serial, mixed, queue, flying>>
    BY <1>2 DEF StartScan, ScanCall, Replug, Plug, Weather, Settle, vars, line, poll
  <2> QED
    BY <1>1, <2>1
<1>3. CASE Discover
  <2>1. UNCHANGED <<polled, ppc, cmd, gap, serial>> /\ (~mixed' => ~mixed)
    BY <1>3 DEF Discover
  <2>2. CASE mixed'
    BY <2>2 DEF OwnReplies
  <2>3. CASE ~mixed'
    BY <1>1, <1>3, <2>1, <2>3, ScanSpares
  <2> QED
    BY <2>2, <2>3
<1>4. CASE StartPoll
  <2>1. /\ ppc = "idle" /\ ppc' \in {"open", "send"} /\ UNCHANGED <<polled, line>>
        /\ gap' = (gap /\ flying[PollPort] # <<>>)
        /\ mixed' = (ScanOnPollPort \/ (mixed /\ flying[PollPort] # <<>>))
    BY <1>4 DEF StartPoll, PollCall
  <2>2. polled /\ ~mixed' /\ ~gap' => flying[PollPort] = <<>>
    BY <2>1 DEF OwnReplies
  <2> QED
    BY <2>1, <2>2 DEF OwnReplies, line
<1>5. CASE PollStep /\ (PollOpens \/ PollDone \/ PollCannotOpen \/ PollRaises
                          \/ PollReturns)
  <2>1. /\ ppc' \in {"idle", "done", "send"} /\ UNCHANGED <<polled, gap, mixed, flying>>
    BY <1>5 DEF PollDone, PollCannotOpen, PollRaises, PollReturns, Return, PollOpens,
                PollStep, line
  <2>2. polled /\ ~mixed /\ ~gap => ppc # "read" \/ serial = "dead"
    BY <1>5 DEF PollDone, PollCannotOpen, PollRaises, PollReturns, PollOpens, Contended,
                Mixed
  <2> QED
    BY <2>1, <2>2 DEF OwnReplies
<1>6. CASE PollStep /\ PollSends
  <2>1. SUFFICES ASSUME polled, ~mixed, ~gap
                 PROVE  /\ queue'[PollPort] = <<>> /\ ppc' = "read"
                        /\ flying'[PollPort] \in {<<>>, <<Asked>>}
                        /\ serial' # "dead" /\ UNCHANGED <<cmd, gap, mixed>>
    BY <1>6 DEF OwnReplies, PollSends, PollStep, Asked
  <2>2. flying[PollPort] = <<>>
    BY <1>6, <2>1 DEF OwnReplies, PollSends
  <2>3. queue'[PollPort] = <<>> /\ UNCHANGED <<cmd, gap, mixed>>
    BY <1>0, <1>6 DEF PollSends, SendRequest
  <2>4. flying' = flying \/ flying' = [flying EXCEPT ![PollPort] = Append(@, Asked)]
    BY <1>6 DEF PollSends, SendRequest, Asked
  <2>5. Append(<<>>, Asked) = <<Asked>>
    OBVIOUS
  <2> QED
    BY <1>0, <1>6, <2>2, <2>3, <2>4, <2>5 DEF PollSends
<1>7. CASE PollStep /\ PollAnswered
  <2>1. SUFFICES ASSUME polled, ~mixed, ~gap, Head(queue[PollPort]) # Garbage
                 PROVE  flying'[PollPort] = <<>> /\ ppc' # "read"
    BY <1>7 DEF OwnReplies, PollAnswered, NextRead, PollStep
  <2>2. flying[PollPort] = <<>>
    BY <1>7, <2>1 DEF OwnReplies, PollAnswered, TakeReply
  <2> QED
    BY <1>7, <2>2 DEF PollAnswered, TakeReply, NextRead
<1>8. CASE PollStep /\ PollUnanswered
  BY <1>8 DEF PollUnanswered, NextRead, OwnReplies
<1>9. CASE Arrive
  <2>1. UNCHANGED <<polled, ppc, cmd, gap, serial, mixed>>
    BY <1>9 DEF Arrive, poll
  <2>2. PICK p \in RangeOf(Ports) : Deliver(p, HeldOpen(p))
    BY <1>9 DEF Arrive
  <2>3. CASE p # PollPort
    BY <1>0, <1>1, <2>1, <2>2, <2>3 DEF Deliver
  <2>4. CASE p = PollPort
    <3>1. SUFFICES ASSUME polled, ~mixed, ~gap
                   PROVE  /\ ppc = "read" /\ flying'[PollPort] = <<>>
                          /\ queue'[PollPort] \in {<<>>, <<Asked>>, <<Garbage>>}
      BY <2>1 DEF OwnReplies, Asked
    <3>2. flying[PollPort] # <<>>
      BY <2>2, <2>4 DEF Deliver
    <3>3. ppc = "read" /\ queue[PollPort] = <<>> /\ flying[PollPort] = <<Asked>>
      BY <3>1, <3>2 DEF OwnReplies
    <3>4. Head(<<Asked>>) = Asked /\ Tail(<<Asked>>) = <<>>
      OBVIOUS
    <3>5. flying'[PollPort] = <<>>
      BY <1>0, <2>2, <2>4, <3>3, <3>4 DEF Deliver
    <3>6. \E got \in {Asked, Garbage} :
             queue' = queue \/ queue' = [queue EXCEPT ![PollPort] = Append(@, got)]
      BY <2>2, <2>4, <3>3, <3>4 DEF Deliver
    <3>7. \A got : Append(<<>>, got) = <<got>>
      OBVIOUS
    <3> QED
      BY <1>0, <3>3, <3>5, <3>6, <3>7
  <2> QED
    BY <2>3, <2>4
<1>10. CASE Lost
  <2>1. UNCHANGED <<polled, ppc, cmd, gap, serial, mixed>>
    BY <1>10 DEF Lost, poll
  <2>2. PICK p \in RangeOf(Ports) : Lose(p, Contended)
    BY <1>10 DEF Lost
  <2>3. CASE p # PollPort
    BY <1>0, <1>1, <2>1, <2>2, <2>3 DEF Lose
  <2>4. CASE p = PollPort
    <3>1. flying[PollPort] # <<>> /\ flying'[PollPort] = Tail(flying[PollPort])
          /\ queue' = queue
      BY <1>0, <2>2, <2>4 DEF Lose
    <3>2. Tail(<<Asked>>) = <<>>
      OBVIOUS
    <3> QED
      BY <2>1, <3>1, <3>2 DEF OwnReplies, Asked
  <2> QED
    BY <2>3, <2>4
<1>11. CASE Unplug
  <2>1. UNCHANGED <<polled, ppc, cmd, gap, mixed>>
    BY <1>11 DEF Unplug
  <2>2. PICK p \in RangeOf(Ports) : /\ Pull(p)
                                    /\ p # PollPort => serial' = serial
    BY <1>11 DEF Unplug
  <2>3. CASE p # PollPort
    <3>1. queue'[PollPort] = queue[PollPort] /\ flying'[PollPort] = flying[PollPort]
      BY <1>0, <2>2, <2>3 DEF Pull
    <3> QED
      BY <1>1, <2>1, <2>2, <2>3, <3>1
  <2>4. CASE p = PollPort
    <3>1. flying'[PollPort] = <<>> /\ queue'[PollPort] = <<>>
      BY <1>0, <2>2, <2>4 DEF Pull
    <3> QED
      BY <3>1 DEF OwnReplies
  <2> QED
    BY <2>3, <2>4
<1> QED
  BY <1>2, <1>3, <1>4, <1>5, <1>6, <1>7, <1>8, <1>9, <1>10, <1>11 DEF Next, PollStep

\* So a wrong answer follows a missed one.
LEMMA AnswersKept ==
    ASSUME Base, OwnReplies, AnswersAreOwn, [Next]_vars
    PROVE  AnswersAreOwn'
<1>1. CASE foreign' = foreign /\ (mixed => mixed')
  BY <1>1 DEF AnswersAreOwn
<1>2. CASE foreign' # "yes"
  BY <1>2 DEF AnswersAreOwn
<1>3. CASE \/ StartScan \/ Discover \/ Arrive \/ Lost \/ Unplug \/ Replug
           \/ Weather \/ UNCHANGED vars
  <2>1. foreign' = foreign
    BY <1>3 DEF StartScan, Discover, Arrive, Lost, Unplug, Replug, Weather, vars, poll
  <2>2. CASE Discover
    BY <1>1, <2>1, <2>2 DEF Discover
  <2>3. CASE ~Discover
    <3>1. mixed' = mixed
      BY <1>3, <2>3 DEF StartScan, Arrive, Lost, Unplug, Replug, Weather, vars, poll
    <3> QED
      BY <1>1, <2>1, <3>1
  <2> QED
    BY <2>2, <2>3
<1>4. CASE PollCannotOpen \/ PollRaises \/ PollReturns
  BY <1>2, <1>4 DEF PollCannotOpen, PollRaises, PollReturns, Return
<1>7. CASE StartPoll
  BY <1>2, <1>7 DEF StartPoll, PollCall, Base, Calls
<1>5. CASE PollOpens \/ PollSends \/ PollUnanswered \/ PollDone
  BY <1>1, <1>5 DEF PollOpens, PollSends, PollUnanswered, NextRead, PollDone
<1>6. CASE PollAnswered
  <2>1. mixed' = mixed
    BY <1>6 DEF PollAnswered, NextRead
  <2>2. CASE foreign # "no"
    BY <1>1, <1>6, <2>1, <2>2 DEF PollAnswered
  <2>3. CASE foreign = "no" /\ ~mixed
    <3>1. gap \/ Head(queue[PollPort]) \in {Asked, Garbage}
      <4>1. queue[PollPort] # <<>> /\ ppc = "read"
        BY <1>6 DEF PollAnswered, TakeReply
      <4>2. ~gap => queue[PollPort] \in {<<Asked>>, <<Garbage>>}
        BY <2>3, <4>1 DEF OwnReplies, Base, Calls
      <4>3. Head(<<Asked>>) = Asked /\ Head(<<Garbage>>) = Garbage
        OBVIOUS
      <4> QED
        BY <4>2, <4>3
    <3> QED
      BY <1>2, <1>6, <2>3, <3>1 DEF PollAnswered
  <2>4. CASE mixed
    BY <2>1, <2>4 DEF AnswersAreOwn
  <2> QED
    BY <2>2, <2>3, <2>4
<1> QED
  BY <1>3, <1>4, <1>5, <1>6, <1>7 DEF Next, PollStep

----------------------------------------------------------------------------
(* What an undisturbed scan finds *)

\* A scan without disturbance has none behind it, and meets only steps that do
\* not disturb it.
LEMMA QuietStep ==
    ASSUME Base, Next, Undisturbed'
    PROVE  /\ \/ StartScan /\ \A p \in RangeOf(Ports) : flying[p] = <<>>
              \/ /\ Undisturbed
                 /\ Discover \/ StartPoll \/ PollStep \/ Arrive \/ Weather
           /\ attached' = attached
<1>0. /\ disturbed \in DOMAIN Severity /\ Typed
      /\ {"nothing", "late", "pulled", "shared"} = DOMAIN Severity
  BY DEF Base, Typed, TypeOK, ScanTypeOK, Severity
<1>1. CASE StartScan
  <2>1. PICK event \in {"nothing", "late"} :
           /\ Disturb(event)
           /\ event = "nothing" => \A p \in RangeOf(Ports) : flying[p] = <<>>
    BY <1>1 DEF StartScan, ScanCall
  <2>2. event = "nothing"
    BY <1>0, <2>1, Worst DEF Undisturbed
  <2> QED
    BY <1>1, <2>1, <2>2 DEF StartScan, ScanCall, line
<1>2. CASE Lost \/ Unplug \/ Replug
  <2>1. PICK event \in {"nothing", "late", "pulled"} :
           Disturb(event) /\ (event = "nothing" <=> ~Scanning)
    BY <1>0, <1>2, ScanDisturbed
  <2>2. spc' = spc
    BY <1>0, <1>2, ScanDisturbed
  <2> QED
    BY <1>0, <2>1, <2>2, Worst DEF Undisturbed, Scanning
<1>3. CASE StartPoll \/ PollStep \/ Arrive \/ Weather
  <2>1. Undisturbed
    BY <1>3, ScanAlone DEF Undisturbed, Scanning
  <2>2. attached' = attached
    BY <1>3 DEF StartPoll, PollCall, PollStep, PollOpens, PollCannotOpen, PollSends,
                SendRequest, PollRaises, PollAnswered, TakeReply, PollUnanswered,
                NothingCame, PollReturns, PollDone, Arrive, Deliver, Weather, Settle,
                line, world
  <2> QED
    BY <1>3, <2>1, <2>2
<1>4. CASE Discover
  <2>1. PICK shared, stolen : ScanStep(shared, stolen)
    BY <1>4 DEF Discover
  <2>2. spc # "idle" /\ attached' = attached
    BY <2>1 DEF ScanStep, Missing, Refused, Opened, Skip, Probe, SendRequest, Answered,
                TakeReply, Unanswered, NothingCame, ScanRaises, Close, NextPort,
                ScanReturn, line, world
  <2>3. ~ScanReturn
    BY DEF ScanReturn, Undisturbed, Scanning
  <2>4. disturbed = "nothing"
    <3>1. CASE Opened(shared) \/ Unanswered(shared)
      <4>1. PICK event \in DOMAIN Severity : Disturb(event)
        BY <1>0, <3>1 DEF Opened, Unanswered
      <4> QED
        BY <1>0, <4>1, Worst DEF Undisturbed
    <3>2. CASE disturbed' = disturbed
      BY <3>2 DEF Undisturbed
    <3> QED
      BY <2>1, <2>3, <3>1, <3>2 DEF ScanStep, Missing, Refused, Skip, Probe, Answered,
                                    ScanRaises, Close, NextPort
  <2> QED
    BY <1>4, <2>2, <2>4 DEF Undisturbed, Scanning
<1> QED
  BY <1>1, <1>2, <1>3, <1>4 DEF Next

\* An undisturbed scan with a handle has it to itself.
LEMMA Alone ==
    ASSUME Base, Genuine, Undisturbed, handle # "closed"
    PROVE  /\ handle = "open" /\ ~Shared /\ ~Contended /\ ~OfPoller(Port)
           /\ rate[Port] = Rate /\ ~ScanRaises(Contended)
<1>1. handle = "open"
  BY DEF Base, Typed, TypeOK, ScanTypeOK, Marked, Undisturbed
<1>2. ~Shared /\ ~Contended
  BY Unshared DEF Undisturbed
<1> QED
  BY <1>1, <1>2 DEF Genuine, Undisturbed, Shared, OfPoller, ScanRaises

\* The rates and replies of other ports are of no concern to a scan, and those
\* of its own are the answers to its probes.
LEMMA CalmKept ==
    ASSUME Base, Genuine, Calm, Opening, [Next]_vars
    PROVE  Calm'
<1>0. /\ Typed /\ Handles /\ Port \in RangeOf(Ports)
      /\ queue \in [RangeOf(Ports) -> Seq(Replies \cup {Garbage})]
      /\ flying \in [RangeOf(Ports) -> Seq(Replies)]
  BY Lists DEF Base, Typed, TypeOK, ScanTypeOK, LineOK
<1>1. ASSUME UNCHANGED vars PROVE Calm'
  BY <1>1 DEF Calm, Undisturbed, Scanning, ProbeOnly, OfPoller, Port, Rate, vars, scan,
              line
<1>2. SUFFICES ASSUME Next, Undisturbed'
               PROVE  /\ \A p \in RangeOf(Ports) :
                            ~OfPoller(p)' /\ (p = Port' => spc' # "read")
                               => flying'[p] = <<>>
                      /\ spc' = "read" => ProbeOnly'
  BY <1>1 DEF Calm
<1>3. inverters' = inverters /\ attached' = attached
  BY <1>2, Wired, QuietStep
<1>4. polled' = polled
  BY <1>2 DEF Next, StartScan, Discover, StartPoll, PollStep, Arrive, Lost, Unplug,
              Replug, Weather
<1>5. CASE StartScan
  <2>1. \A p \in RangeOf(Ports) : flying[p] = <<>>
    BY <1>2, <1>5, QuietStep DEF Discover, ScanStep, StartScan, ScanCall, Undisturbed,
                                 Scanning
  <2> QED
    BY <1>5, <2>1 DEF StartScan, ScanCall, line
<1>6. CASE ~StartScan
  <2>1. Undisturbed /\ (Discover \/ StartPoll \/ PollStep \/ Arrive \/ Weather)
    BY <1>2, <1>6, QuietStep
  <2>2. /\ \A p \in RangeOf(Ports) :
              ~OfPoller(p) /\ (p = Port => spc # "read") => flying[p] = <<>>
        /\ spc = "read" => ProbeOnly
    BY <2>1 DEF Calm
  <2>3. CASE StartPoll \/ PollStep
    <3>1. UNCHANGED <<spc, portIx, rateIx, address>> /\ polled
      BY <2>3, ScanAlone DEF Base, Calls, StartPoll, PollCall, PollStep, PollOpens,
             PollCannotOpen, PollSends, PollRaises, PollAnswered, PollUnanswered,
             PollReturns, PollDone, Contended
    <3>2. \A p \in RangeOf(Ports) :
             ~OfPoller(p) => queue'[p] = queue[p] /\ flying'[p] = flying[p]
      BY <1>0, <2>3, <3>1, PollElsewhere DEF OfPoller
    <3>3. spc = "read" => ~OfPoller(Port)
      BY <1>0, <2>1, Alone DEF Handles
    <3> QED
      BY <1>0, <1>3, <1>4, <2>2, <3>1, <3>2, <3>3 DEF OfPoller, ProbeOnly, Port, Rate
  <2>4. CASE Weather
    BY <1>3, <1>4, <2>2, <2>4, ScanAlone DEF Weather, Settle, OfPoller, ProbeOnly, Port,
                                             Rate
  <2>5. CASE Arrive
    <3>1. PICK p \in RangeOf(Ports) : Deliver(p, HeldOpen(p))
      BY <2>5 DEF Arrive
    <3>2. UNCHANGED <<spc, portIx, rateIx, address>> /\ flying[p] # <<>>
      BY <2>5, <3>1, ScanAlone DEF Deliver
    <3>3. OfPoller(p) \/ (p = Port /\ spc = "read")
      BY <2>2, <3>2
    <3>4. \A q \in RangeOf(Ports) :
             q # p => queue'[q] = queue[q] /\ flying'[q] = flying[q]
      BY <1>0, <3>1 DEF Deliver
    <3>5. CASE p = Port /\ spc = "read"
      <4> DEFINE reply == [address |-> address, command |-> "power"]
      <4>1. /\ inverters[Port][address] = Rate
            /\ queue[Port] = <<>> /\ flying[Port] = <<reply>>
        BY <2>2, <3>2, <3>5 DEF ProbeOnly
      <4>2. rate[Port] = Rate /\ HeldOpen(Port)
        BY <1>0, <2>1, <3>5, Alone DEF Handles, HeldOpen
      <4> HIDE DEF reply
      <4>3. Head(<<reply>>) = reply /\ Tail(<<reply>>) = <<>>
            /\ Append(<<>>, reply) = <<reply>>
        OBVIOUS
      <4>4. reply.address = address
        BY DEF reply
      <4>5. queue'[Port] = <<reply>> /\ flying'[Port] = <<>>
        BY <1>0, <3>1, <3>5, <4>1, <4>2, <4>3, <4>4 DEF Deliver
      <4> QED
        BY <1>3, <1>4, <2>2, <3>2, <3>4, <3>5, <4>1, <4>5
           DEF OfPoller, ProbeOnly, Port, Rate, reply
    <3>6. CASE ~(p = Port /\ spc = "read")
      <4>1. OfPoller(p) /\ (spc = "read" => p # Port)
        BY <3>3, <3>6
      <4> QED
        BY <1>0, <1>3, <1>4, <2>2, <3>2, <3>4, <4>1 DEF OfPoller, ProbeOnly, Port, Rate
    <3> QED
      BY <3>5, <3>6
  <2>6. CASE Discover
    <3>1. ScanStep(Shared, Contended)
      BY <2>6 DEF Discover
    <3>2. \A p \in RangeOf(Ports) : p # Port => flying'[p] = flying[p]
      BY <1>0, <3>1, ScanElsewhere
    <3>3. CASE Missing \/ Refused \/ Opened(Shared) \/ Skip \/ Close
      <4>1. UNCHANGED <<portIx, flying>> /\ spc # "read" /\ spc' # "read"
        BY <3>3 DEF Missing, Refused, Opened, Skip, NextAddress, Close, line
      <4> QED
        BY <1>4, <2>2, <4>1 DEF OfPoller
    <3>4. CASE Probe
      <4> DEFINE reply == [address |-> address, command |-> "power"]
      <4>1. /\ ~OfPoller(Port) /\ rate[Port] = Rate
        BY <2>1, <3>4, Alone DEF Probe
      <4>2. flying[Port] = <<>>
        BY <1>0, <2>2, <3>4, <4>1 DEF Probe
      <4>3. UNCHANGED <<portIx, rateIx, address>> /\ spc' = "read"
        BY <3>4 DEF Probe
      <4>4. queue'[Port] = <<>>
        BY <1>0, <3>4 DEF Probe, SendRequest
      <4>5. Heard(Port, address) <=> inverters[Port][address] = Rate
        <5>1. Len(<<>>) <= MaxLate
          BY BusAssumption
        <5> QED
          BY <4>1, <4>2, <5>1 DEF Heard
      <4> HIDE DEF reply
      <4>6. Append(<<>>, reply) = <<reply>>
        OBVIOUS
      <4>7. flying'[Port] = IF inverters[Port][address] = Rate THEN <<reply>> ELSE <<>>
        BY <1>0, <3>4, <4>2, <4>5, <4>6 DEF Probe, SendRequest, reply
      <4> QED
        BY <1>3, <1>4, <2>2, <3>2, <4>3, <4>4, <4>7 DEF OfPoller, ProbeOnly, Port, Rate,
                                                        reply
    <3>5. CASE Answered \/ Unanswered(Shared)
      <4>1. UNCHANGED <<portIx, flying>> /\ spc = "read" /\ spc' # "read"
        BY <3>5 DEF Answered, TakeReply, Unanswered, NothingCame, NextAddress, line
      <4>2. flying[Port] = <<>>
        <5>1. CASE Answered
          BY <2>2, <4>1, <5>1 DEF Answered, TakeReply, ProbeOnly
        <5>2. CASE Unanswered(Shared)
          <6>1. flying[Port] # <<>> => Disturb("late")
            BY <5>2 DEF Unanswered
          <6>2. "late" \in DOMAIN Severity /\ disturbed \in DOMAIN Severity
            BY <1>0 DEF Severity, Typed, TypeOK, ScanTypeOK
          <6> QED
            BY <1>2, <6>1, <6>2, Worst DEF Undisturbed
        <5> QED
          BY <3>5, <5>1, <5>2
      <4> QED
        BY <1>4, <2>2, <4>1, <4>2 DEF OfPoller
    <3>6. CASE NextPort(Shared)
      <4>1. ~Shared => flying'[Port] = <<>>
        BY <1>0, <3>6 DEF NextPort, Abandon
      <4>2. \A p \in RangeOf(Ports) : ~OfPoller(p) => flying'[p] = <<>>
        BY <2>2, <3>2, <4>1 DEF OfPoller, Shared
      <4>3. spc' # "read"
        BY <3>6 DEF NextPort
      <4> QED
        BY <1>4, <4>2, <4>3 DEF OfPoller
    <3>7. CASE ScanRaises(Contended)
      BY <1>0, <2>1, <3>7, Alone DEF ScanRaises, Handles
    <3>8. CASE ScanReturn
      BY <1>2, <3>8 DEF ScanReturn, Undisturbed, Scanning
    <3> QED
      BY <3>1, <3>3, <3>4, <3>5, <3>6, <3>7, <3>8 DEF ScanStep
  <2> QED
    BY <2>1, <2>3, <2>4, <2>5, <2>6
<1> QED
  BY <1>5, <1>6

\* What happens to an undisturbed scan is its beginning or its own next step.
LEMMA OwnStep ==
    ASSUME Base, Genuine, [Next]_vars, Undisturbed'
    PROVE  /\ inverters' = inverters /\ attached' = attached
           /\ \/ /\ spc' = "open" /\ portIx' = 1 /\ rateIx' = 1 /\ found' = {}
                 /\ ~portOpened' /\ warning' = "none" /\ result' = "none yet"
              \/ /\ Undisturbed
                 /\ UNCHANGED <<spc, portIx, rateIx, address, found, portOpened,
                                warning, result>>
              \/ /\ Undisturbed /\ spc' # "idle"
                 /\ \/ Missing \/ Refused \/ Opened(Shared) \/ Skip \/ Probe \/ Answered
                    \/ Unanswered(Shared) \/ Close \/ NextPort(Shared)
<1>1. CASE UNCHANGED vars
  BY <1>1 DEF vars, line, scan, Undisturbed, Scanning
<1>2. CASE Next
  <2>1. inverters' = inverters /\ attached' = attached
    BY <1>2, Wired, QuietStep
  <2>2. CASE StartScan
    BY <2>1, <2>2 DEF StartScan, ScanCall, Base, Handles
  <2>3. CASE Undisturbed /\ (StartPoll \/ PollStep \/ Arrive \/ Weather)
    BY <2>1, <2>3, ScanAlone
  <2>4. CASE Undisturbed /\ Discover
    <3>1. ScanStep(Shared, Contended) /\ spc' # "idle"
      BY <2>4 DEF Discover, Undisturbed, Scanning
    <3>2. ~ScanRaises(Contended)
      BY <2>4, Alone DEF ScanRaises, Base, Handles
    <3>3. ~ScanReturn
      BY <3>1 DEF ScanReturn
    <3> QED
      BY <2>1, <2>4, <3>1, <3>2, <3>3 DEF ScanStep
  <2> QED
    BY <1>2, <2>2, <2>3, <2>4, QuietStep
<1> QED
  BY <1>1, <1>2

\* port_opened is true of a port from its first opening until it is left.
LEMMA OpeningKept ==
    ASSUME Base, Genuine, Opening, [Next]_vars
    PROVE  Opening'
<1>0. /\ rateIx \in 1..Len(Rates) /\ Len(Rates) \in Nat
  BY Lists DEF Base, Typed, TypeOK, ScanTypeOK
<1>1. SUFFICES ASSUME Undisturbed'
               PROVE  /\ spc' = "open" => (portOpened' <=> rateIx' # 1)
                      /\ spc' \in {"probe", "read", "close"} => portOpened'
                      /\ spc' # "done" /\ portOpened' => attached'[Port'] = "port"
                      /\ spc' = "next port" /\ ~portOpened' => attached'[Port'] # "port"
                      /\ spc' = "next port" /\ portOpened' => rateIx' = Len(Rates)
  BY DEF Opening
<1>2. CASE spc' = "open" /\ rateIx' = 1 /\ ~portOpened'
  BY <1>2
<1>3. attached' = attached
  BY <1>1, OwnStep
<1>4. ASSUME Undisturbed
      PROVE  /\ spc = "open" => (portOpened <=> rateIx # 1)
             /\ spc \in {"probe", "read", "close"} => portOpened
             /\ spc # "done" /\ portOpened => attached[Port] = "port"
             /\ spc = "next port" /\ ~portOpened => attached[Port] # "port"
             /\ spc = "next port" /\ portOpened => rateIx = Len(Rates)
  BY <1>4 DEF Opening
<1>5. CASE /\ Undisturbed
           /\ UNCHANGED <<spc, portIx, rateIx, portOpened>>
  BY <1>3, <1>4, <1>5 DEF Port
<1>6. CASE Undisturbed /\ (Missing \/ Refused)
  <2>1. UNCHANGED <<portIx, rateIx, portOpened>> /\ spc' = "next port"
        /\ attached[Port] # "port" /\ spc = "open"
    BY <1>6 DEF Missing, Refused
  <2>2. ~portOpened
    BY <1>4, <1>6, <2>1
  <2> QED
    BY <1>3, <2>1, <2>2 DEF Port
<1>7. CASE Undisturbed /\ Opened(Shared)
  BY <1>3, <1>7 DEF Opened, Port
<1>8. CASE Undisturbed /\ (Skip \/ Probe \/ Answered \/ Unanswered(Shared))
  <2>1. /\ spc \in {"probe", "read"} /\ spc' \in {"probe", "read", "close"}
        /\ UNCHANGED <<portIx, portOpened>>
    BY <1>8 DEF Skip, Probe, Answered, Unanswered, NextAddress
  <2> QED
    BY <1>3, <1>4, <1>8, <2>1 DEF Port
<1>9. CASE Undisturbed /\ Close
  <2>1. portOpened' = portOpened /\ portIx' = portIx /\ portOpened
    BY <1>4, <1>9 DEF Close
  <2>2. \/ spc' = "next port" /\ rateIx' = rateIx /\ rateIx = Len(Rates)
        \/ spc' = "open" /\ rateIx' = rateIx + 1
    BY <1>9 DEF Close
  <2>3. rateIx + 1 # 1
    BY <1>0
  <2>4. attached'[Port'] = "port"
    <3>1. spc # "done"
      BY <1>9 DEF Close
    <3> QED
      BY <1>3, <1>4, <1>9, <2>1, <3>1 DEF Port
  <2>5. CASE spc' = "next port" /\ rateIx' = rateIx /\ rateIx = Len(Rates)
    BY <2>1, <2>4, <2>5
  <2>6. CASE spc' = "open" /\ rateIx' = rateIx + 1
    BY <1>0, <2>1, <2>3, <2>4, <2>6
  <2> QED
    BY <2>2, <2>5, <2>6
<1>10. CASE Undisturbed /\ NextPort(Shared)
  BY <1>2, <1>10 DEF NextPort
<1> QED
  BY <1>1, <1>2, <1>5, <1>6, <1>7, <1>8, <1>9, <1>10, OwnStep

\* To ask one address more is to try its inverter at the rate of the handle.
LEMMA OneMore ==
    ASSUME address \in Addresses, spc \in {"probe", "read"}, NextAddress,
           UNCHANGED <<portIx, rateIx, inverters>>, NEW a \in Addresses
    PROVE  Tried(a)' <=> Tried(a) \/ (a = address /\ inverters[Port][a] = Rate)
<1>1. a \in 1..LastAddress /\ address \in 1..LastAddress /\ LastAddress \in Nat
  BY BusAssumption DEF Addresses
<1>2. CASE address = LastAddress
  <2>1. a < address \/ a = address
    BY <1>1, <1>2
  <2> QED
    BY <1>2, <2>1 DEF NextAddress, Tried, Port, Rate
<1>3. CASE address # LastAddress
  <2>1. a < address + 1 <=> a < address \/ a = address
    BY <1>1
  <2> QED
    BY <1>3, <2>1 DEF NextAddress, Tried, Port, Rate
<1> QED
  BY <1>2, <1>3

\* A scan has found the inverters of its port that it has asked, no more and
\* no fewer.
LEMMA SoFarKept ==
    ASSUME Base, Genuine, Calm, Opening, SoFar, [Next]_vars
    PROVE  SoFar'
<1>0. /\ rateIx \in 1..Len(Rates) /\ Len(Rates) \in Nat /\ address \in Addresses
      /\ disturbed \in DOMAIN Severity
      /\ queue \in [RangeOf(Ports) -> Seq(Replies \cup {Garbage})]
      /\ Port \in RangeOf(Ports)
  BY Lists DEF Base, Typed, TypeOK, ScanTypeOK, LineOK
<1> DEFINE Seen == {Device(Port, a) : a \in {b \in Addresses : Tried(b)}}
           Right == found = IF portOpened THEN Seen ELSE {}
<1>1. SUFFICES ASSUME Undisturbed', spc' # "done" PROVE Right'
  BY DEF SoFar
<1>2. inverters' = inverters /\ attached' = attached
  BY <1>1, OwnStep
<1>3. Undisturbed /\ spc # "done" => Right
  BY DEF SoFar
<1>4. CASE found' = {} /\ ~portOpened'
  BY <1>4
<1>5. ASSUME Right, UNCHANGED <<portIx, found, portOpened>>,
             \A a \in Addresses : Tried(a)' <=> Tried(a)
      PROVE  Right'
  BY <1>2, <1>5 DEF Device, Port
<1>6. CASE /\ Undisturbed
           /\ UNCHANGED <<spc, portIx, rateIx, address, found, portOpened>>
  <2>1. \A a \in Addresses : Tried(a)' <=> Tried(a)
    BY <1>2, <1>6 DEF Tried, Port, Rate
  <2> QED
    BY <1>1, <1>3, <1>5, <1>6, <2>1
<1>7. CASE Undisturbed /\ (Missing \/ Refused)
  <2>1. ~portOpened
    BY <1>7 DEF Missing, Refused, Opening
  <2>2. UNCHANGED <<found, portOpened>> /\ spc = "open"
    BY <1>7 DEF Missing, Refused
  <2>3. found = {}
    BY <1>3, <1>7, <2>1, <2>2
  <2> QED
    BY <1>4, <2>1, <2>2, <2>3
<1>8. CASE Undisturbed /\ Opened(Shared)
  <2>1. UNCHANGED <<portIx, rateIx, found>> /\ portOpened' /\ spc = "open"
        /\ spc' = "probe" /\ address' = 1
    BY <1>8 DEF Opened
  <2>2. \A a \in Addresses : ~(a < 1)
    BY DEF Addresses
  <2>3. \A a \in Addresses : Tried(a)' <=> Tried(a)
    BY <1>2, <2>1, <2>2 DEF Tried, Port, Rate
  <2>4. CASE portOpened
    <3>1. Right
      BY <1>3, <1>8, <2>1
    <3> QED
      BY <1>2, <2>1, <2>3, <2>4, <3>1 DEF Device, Port
  <2>5. CASE ~portOpened
    <3>1. rateIx = 1 /\ found = {}
      BY <1>3, <1>8, <2>1, <2>5 DEF Opening
    <3>2. \A a \in Addresses : ~Tried(a)'
      BY <2>1, <2>2, <3>1 DEF Tried
    <3> QED
      BY <2>1, <3>1, <3>2
  <2> QED
    BY <2>4, <2>5
<1>9. CASE Undisturbed /\ Skip
  <2>1. UNCHANGED <<portIx, rateIx, found, portOpened>> /\ NextAddress /\ Known
        /\ spc = "probe"
    BY <1>9 DEF Skip
  <2>2. portOpened
    BY <1>9, <2>1 DEF Opening
  <2>3. Right
    BY <1>3, <1>9, <2>1
  <2>4. PICK b \in Addresses : Tried(b) /\ Device(Port, b).address = address
    BY <2>1, <2>2, <2>3 DEF Known
  <2>5. Tried(address)
    BY <2>4 DEF Device
  <2>6. \A a \in Addresses : Tried(a)' <=> Tried(a)
    BY <1>0, <1>2, <2>1, <2>5, OneMore
  <2> QED
    BY <1>5, <2>1, <2>3, <2>6
<1>10. CASE Undisturbed /\ Probe
  <2>1. UNCHANGED <<portIx, rateIx, address, found, portOpened>> /\ spc = "probe"
        /\ spc' = "read"
    BY <1>10 DEF Probe
  <2>2. \A a \in Addresses : Tried(a)' <=> Tried(a)
    BY <1>2, <2>1 DEF Tried, Port, Rate
  <2> QED
    BY <1>3, <1>5, <1>10, <2>1, <2>2
<1>11. CASE Undisturbed /\ Answered
  <2>1. UNCHANGED <<portIx, rateIx, portOpened>> /\ NextAddress /\ spc = "read"
        /\ queue[Port] # <<>>
    BY <1>11 DEF Answered, TakeReply
  <2> DEFINE reply == [address |-> address, command |-> "power"]
  <2>2. inverters[Port][address] = Rate /\ queue[Port] = <<reply>>
    BY <1>11, <2>1 DEF Calm, ProbeOnly
  <2>3. reply # Garbage
    BY <1>0, BusAssumption DEF Garbage, Addresses
  <2>4. Head(<<reply>>) = reply
    OBVIOUS
  <2>5. found' = found \cup {Device(Port, address)}
    BY <1>11, <2>2, <2>3, <2>4 DEF Answered, Device
  <2>6. \A a \in Addresses : Tried(a)' <=> Tried(a) \/ a = address
    BY <1>0, <1>2, <2>1, <2>2, OneMore
  <2>7. portOpened /\ Right
    BY <1>3, <1>11, <2>1 DEF Opening
  <2>8. Port' = Port /\ \A a : Device(Port, a)' = Device(Port, a)
    BY <1>2, <2>1 DEF Device, Port
  <2>9. Seen' = Seen \cup {Device(Port, address)}
    BY <1>0, <2>6, <2>8
  <2> QED
    BY <2>1, <2>5, <2>7, <2>9
<1>12. CASE Undisturbed /\ Unanswered(Shared)
  <2>1. UNCHANGED <<portIx, rateIx, found, portOpened>> /\ NextAddress /\ spc = "read"
        /\ queue[Port] = <<>> /\ (flying[Port] # <<>> => Disturb("late"))
    BY <1>12 DEF Unanswered, NothingCame
  <2>2. "late" \in DOMAIN Severity
    BY DEF Severity
  <2>3. flying[Port] = <<>>
    BY <1>0, <1>1, <2>1, <2>2, Worst DEF Undisturbed
  <2>4. inverters[Port][address] # Rate
    BY <1>12, <2>1, <2>3 DEF Calm, ProbeOnly
  <2>5. \A a \in Addresses : Tried(a)' <=> Tried(a)
    BY <1>0, <1>2, <2>1, <2>4, OneMore
  <2> QED
    BY <1>3, <1>5, <1>12, <2>1, <2>5
<1>13. CASE Undisturbed /\ Close
  <2>1. UNCHANGED <<portIx, address, found, portOpened>> /\ spc = "close"
    BY <1>13 DEF Close
  <2>2. \/ spc' = "next port" /\ rateIx' = rateIx
        \/ spc' = "open" /\ rateIx' = rateIx + 1
    BY <1>13 DEF Close
  <2>3. \A a \in Addresses : Tried(a)' <=> Tried(a)
    <3>1. CASE spc' = "next port" /\ rateIx' = rateIx
      BY <1>2, <2>1, <3>1 DEF Tried, Port, Rate
    <3>2. CASE spc' = "open" /\ rateIx' = rateIx + 1
      <4>1. 1..(rateIx' - 1) = 1..(rateIx - 1) \cup {rateIx}
        BY <1>0, <3>2
      <4> QED
        BY <1>2, <2>1, <3>2, <4>1 DEF Tried, Port, Rate
    <3> QED
      BY <2>2, <3>1, <3>2
  <2> QED
    BY <1>3, <1>5, <1>13, <2>1, <2>3
<1>14. CASE Undisturbed /\ NextPort(Shared)
  BY <1>1, <1>4, <1>14 DEF NextPort
<1> HIDE DEF Right
<1> QED
  BY <1>1, <1>4, <1>6, <1>7, <1>8, <1>9, <1>10, <1>11, <1>12, <1>13, <1>14, OwnStep

\* A range of numbers, and its last one.
LEMMA LastOne ==
    ASSUME NEW n \in Nat
    PROVE  /\ \A i : i \in 1..(n + 1) <=> i \in 1..n \/ i = n + 1
           /\ (n + 1) - 1 = n /\ n + 1 \in 1..(n + 1)
           /\ n # 0 => \A i : i \in 1..n <=> i \in 1..(n - 1) \/ i = n
           /\ \A i \in 1..n : i >= n => i = n
OBVIOUS

\* One port more without an inverter: what its attachment makes of the warning.
LEMMA OneSilentMore ==
    ASSUME NEW n \in Nat, NEW w, NEW v, Silent(n, w), n + 1 \in DOMAIN Ports,
           Present(n + 1) = {},
           attached[Ports[n + 1]] \in Attachments,
           DOMAIN Ports = 1..Len(Ports),
           v = IF attached[Ports[n + 1]] = "port" THEN "no answer"
               ELSE IF n + 1 \in Refusing /\ w = "none" THEN attached[Ports[n + 1]]
               ELSE w
    PROVE  Silent(n + 1, v)
<1>1. /\ \A i : i \in 1..(n + 1) <=> i \in 1..n \/ i = n + 1
      /\ (n + 1) - 1 = n /\ n + 1 \in 1..(n + 1)
  BY LastOne
<1>2. \A i \in 1..(n + 1) : Present(i) = {}
  BY <1>1 DEF Silent
<1>3. CASE attached[Ports[n + 1]] = "port"
  BY <1>1, <1>2, <1>3 DEF Silent
<1>4. CASE attached[Ports[n + 1]] # "port" /\ \E i \in 1..n : attached[Ports[i]] = "port"
  <2>1. w = "no answer" /\ v = w
    BY <1>4 DEF Silent
  <2> QED
    BY <1>1, <1>2, <1>4, <2>1 DEF Silent
<1>5. CASE /\ attached[Ports[n + 1]] # "port"
           /\ \A i \in 1..n : attached[Ports[i]] # "port"
  <2>0. \A i \in 1..(n + 1) : attached[Ports[i]] # "port"
    BY <1>1, <1>5
  <2>1. CASE w = "none"
    <3>1. \A i \in 1..n : i \notin Refusing
      BY <1>5, <2>1 DEF Silent, Refusing
    <3>2. CASE n + 1 \in Refusing
      BY <1>1, <1>2, <1>5, <2>0, <2>1, <3>1, <3>2 DEF Silent
    <3>3. CASE n + 1 \notin Refusing
      BY <1>1, <1>2, <1>5, <2>0, <2>1, <3>1, <3>3 DEF Silent
    <3> QED
      BY <3>2, <3>3
  <2>2. CASE w # "none"
    <3>1. \E i \in 1..n : /\ i \in Refusing /\ w = attached[Ports[i]]
                          /\ \A j \in 1..(i - 1) : j \notin Refusing
      BY <1>5, <2>2 DEF Silent
    <3>2. v = w
      BY <1>5, <2>2
    <3> QED
      BY <1>1, <1>2, <2>0, <3>1, <3>2 DEF Silent
  <2> QED
    BY <2>1, <2>2
<1> QED
  BY <1>3, <1>4, <1>5

\* After all its rates the scan has found what is present at its port.
LEMMA PortDone ==
    ASSUME Base, Opening, SoFar, Undisturbed, spc = "next port"
    PROVE  found = Present(portIx)
<1>0. /\ portIx \in DOMAIN Ports /\ Port \in RangeOf(Ports)
      /\ Len(Rates) \in Nat \ {0} /\ DOMAIN Rates = 1..Len(Rates)
      /\ inverters \in [RangeOf(Ports) -> [Addresses -> RangeOf(Rates) \cup {NoRate}]]
  BY Lists DEF Base, Typed, TypeOK, ScanTypeOK, LineOK
<1>1. CASE ~portOpened
  BY <1>1 DEF Opening, SoFar, Present, Port
<1>2. CASE portOpened
  <2>1. attached[Port] = "port" /\ rateIx = Len(Rates)
    BY <1>2 DEF Opening
  <2>2. found = {Device(Port, a) : a \in {b \in Addresses : Tried(b)}}
    BY <1>2 DEF SoFar
  <2>3. ASSUME NEW a \in Addresses
        PROVE  Tried(a) <=> inverters[Port][a] # NoRate
    <3>1. Tried(a) <=> \E j \in 1..Len(Rates) : inverters[Port][a] = Rates[j]
      <4>1. \A j : j \in 1..Len(Rates) <=> j \in 1..(Len(Rates) - 1) \/ j = Len(Rates)
        <5>1. Len(Rates) \in Nat /\ Len(Rates) # 0
          BY <1>0
        <5> QED
          BY <5>1, LastOne
      <4> QED
        BY <2>1, <4>1 DEF Tried, Rate
    <3>2. inverters[Port][a] \in RangeOf(Rates) \cup {NoRate}
      BY <1>0
    <3> QED
      BY <1>0, <3>1, <3>2, PortAssumption DEF RangeOf
  <2>4. {b \in Addresses : Tried(b)} = {b \in Addresses : inverters[Port][b] # NoRate}
    BY <2>3
  <2> QED
    BY <2>1, <2>2, <2>4 DEF Present, Device, Port
<1> QED
  BY <1>1, <1>2

\* The warning when discover() leaves a port.
LEMMA Leaving ==
    ASSUME Base, Opening, SoFar, Behind, Undisturbed, NextPort(Shared), found = {}
    PROVE  Silent(portIx, warning')
<1>0. /\ portIx \in 1..Len(Ports) /\ DOMAIN Ports = 1..Len(Ports)
      /\ Len(Ports) \in Nat /\ Port \in RangeOf(Ports)
      /\ attached \in [RangeOf(Ports) -> Attachments]
  BY Lists DEF Base, Typed, TypeOK, ScanTypeOK, LineOK
<1>1. spc = "next port" /\ warning' = IF portOpened THEN "no answer" ELSE warning
  BY DEF NextPort
<1>2. CASE ~portOpened
  BY <1>1, <1>2 DEF Behind, Passed
<1>3. CASE portOpened
  <2>1. Silent(portIx - 1, warning) /\ attached[Port] = "port"
    BY <1>1, <1>3 DEF Behind, Passed, Opening
  <2>2. Present(portIx) = {}
    BY <1>1, PortDone
  <2>3. portIx - 1 \in Nat /\ (portIx - 1) + 1 = portIx
    BY <1>0
  <2>4. warning' = "no answer"
    BY <1>1, <1>3
  <2>5. "port" \in Attachments
    BY DEF Attachments
  <2> QED
    BY <1>0, <2>1, <2>2, <2>3, <2>4, <2>5, OneSilentMore DEF Port
<1> QED
  BY <1>2, <1>3

\* What the ports behind a scan have been, and what its warning says of them.
LEMMA BehindKept ==
    ASSUME Base, Genuine, Opening, SoFar, Behind, [Next]_vars
    PROVE  Behind'
<1>0. /\ portIx \in 1..Len(Ports) /\ DOMAIN Ports = 1..Len(Ports)
      /\ Len(Ports) \in Nat /\ Port \in RangeOf(Ports)
      /\ attached \in [RangeOf(Ports) -> Attachments]
  BY Lists DEF Base, Typed, TypeOK, ScanTypeOK, LineOK
<1>1. SUFFICES ASSUME Undisturbed', spc' # "done" PROVE Behind'
  BY DEF Behind
<1>2. inverters' = inverters /\ attached' = attached
  BY <1>1, OwnStep
<1>3. SUFFICES Silent(Passed', warning')
  <2>1. \A i : Present(i)' = Present(i)
    BY <1>2 DEF Present
  <2>2. Refusing' = Refusing
    BY <1>2 DEF Refusing
  <2>3. Silent(Passed, warning)' <=> Silent(Passed', warning')
    BY <1>2, <2>1, <2>2 DEF Silent
  <2> QED
    BY <2>3 DEF Behind
<1>4. CASE spc' = "open" /\ portIx' = 1 /\ warning' = "none"
  <2>1. Silent(0, "none") /\ Passed' = 0
    BY <1>4 DEF Silent, Passed
  <2> QED
    BY <1>4, <2>1
<1>5. ASSUME Undisturbed, spc # "done", UNCHANGED warning, Passed' = Passed
      PROVE  Silent(Passed', warning')
  BY <1>5 DEF Behind
<1>6. CASE Undisturbed /\ UNCHANGED <<spc, portIx, portOpened, warning>>
  <2>1. UNCHANGED <<spc, portIx, portOpened, warning>> /\ Undisturbed
    BY <1>6
  <2>2. Passed' = Passed
    BY <2>1 DEF Passed
  <2> QED
    BY <1>1, <1>5, <2>1, <2>2
<1>7. CASE Undisturbed /\ (Missing \/ Refused)
  <2>1. /\ spc = "open" /\ spc' = "next port" /\ attached[Port] # "port"
        /\ UNCHANGED <<portIx, portOpened>>
    BY <1>7 DEF Missing, Refused
  <2>2. ~portOpened /\ Silent(portIx - 1, warning)
    BY <1>7, <2>1 DEF Opening, Behind, Passed, Missing, Refused
  <2>3. Present(portIx) = {}
    BY <2>1 DEF Present, Port
  <2>4. portIx - 1 \in Nat /\ (portIx - 1) + 1 = portIx
    BY <1>0
  <2>5. warning' = IF portIx \in Refusing /\ warning = "none" THEN attached[Port]
                   ELSE warning
    BY <1>0, <1>7 DEF Missing, Refused, Refusing, Port
  <2>6. Silent(portIx, warning')
    BY <1>0, <2>1, <2>2, <2>3, <2>4, <2>5, OneSilentMore DEF Port
  <2>7. Passed' = portIx
    BY <2>1, <2>2 DEF Passed
  <2> QED
    BY <2>6, <2>7
<1>8. CASE Undisturbed /\ Opened(Shared)
  <2>1. /\ UNCHANGED <<portIx, warning>> /\ spc = "open" /\ spc' = "probe"
    BY <1>8 DEF Opened
  <2>2. Passed' = Passed
    BY <2>1 DEF Passed
  <2> QED
    BY <1>5, <1>8, <2>1, <2>2
<1>9. CASE Undisturbed /\ (Skip \/ Probe \/ Answered \/ Unanswered(Shared) \/ Close)
  <2>1. /\ UNCHANGED <<portIx, portOpened, warning>>
        /\ spc \in {"probe", "read", "close"}
    BY <1>9 DEF Skip, Probe, Answered, Unanswered, Close
  <2>2. portOpened
    BY <1>9, <2>1 DEF Opening
  <2>3. Passed' = Passed
    BY <2>1, <2>2 DEF Passed
  <2> QED
    BY <1>5, <1>9, <2>1, <2>3
<1>10. CASE Undisturbed /\ NextPort(Shared)
  <2>1. /\ found = {} /\ spc' = "open" /\ portIx' = portIx + 1
    BY <1>1, <1>10 DEF NextPort
  <2>2. Silent(portIx, warning')
    BY <1>10, <2>1, Leaving
  <2>3. portIx' - 1 = portIx
    BY <1>0, <2>1
  <2>4. Passed' = portIx
    BY <2>1, <2>3 DEF Passed
  <2> QED
    BY <2>2, <2>4
<1> QED
  BY <1>1, <1>4, <1>6, <1>7, <1>8, <1>9, <1>10, OwnStep

\* The first element of a set of indices is the one below all others.
LEMMA FirstIs ==
    ASSUME NEW S \in SUBSET Nat, NEW n \in S, \A j \in S : n <= j
    PROVE  First(S) = n
<1>1. \A i \in S : (\A j \in S : i <= j) => i = n
  OBVIOUS
<1> QED
  BY <1>1 DEF First

\* discover() ends with what a scan should find.
LEMMA RightKept ==
    ASSUME Base, Genuine, Opening, SoFar, Behind, ScanIsRight, [Next]_vars
    PROVE  ScanIsRight'
<1>0. /\ portIx \in 1..Len(Ports) /\ DOMAIN Ports = 1..Len(Ports)
      /\ Len(Ports) \in Nat /\ Port \in RangeOf(Ports)
  BY Lists DEF Base, Typed, TypeOK, ScanTypeOK
<1>1. SUFFICES ASSUME Undisturbed', spc' = "done"
               PROVE  found' = RightDevices' /\ result' = RightResult'
  BY DEF ScanIsRight, Undisturbed, Scanning
<1>2. inverters' = inverters /\ attached' = attached
  BY <1>1, OwnStep
<1>3. RightDevices' = RightDevices /\ RightResult' = RightResult
  BY <1>2 DEF RightDevices, RightResult, Inhabited, Present, Refusing
<1>4. CASE Undisturbed /\ UNCHANGED <<spc, found, result>>
  BY <1>1, <1>3, <1>4 DEF ScanIsRight, Undisturbed
<1>5. CASE Undisturbed /\ NextPort(Shared)
  <2>1. /\ spc = "next port" /\ found' = found
        /\ found # {} \/ portIx >= Len(Ports)
        /\ result' = IF found # {} THEN "devices"
                     ELSE IF warning' # "none" THEN warning' ELSE "no adapter"
    <3>1. /\ spc = "next port" /\ found' = found /\ ~(found = {} /\ portIx < Len(Ports))
          /\ result' = IF found # {} THEN "devices"
                       ELSE IF warning' # "none" THEN warning' ELSE "no adapter"
      BY <1>1, <1>5 DEF NextPort
    <3>2. portIx \in Nat /\ Len(Ports) \in Nat
      BY <1>0
    <3>3. portIx < Len(Ports) \/ portIx >= Len(Ports)
      BY <3>2
    <3> QED
      BY <3>1, <3>3
  <2>2. found = Present(portIx)
    BY <1>5, <2>1, PortDone
  <2>3. CASE found # {}
    <3>1. \A i \in 1..(portIx - 1) : Present(i) = {}
      <4>1. portOpened
        BY <1>5, <2>1, <2>3 DEF SoFar
      <4>2. Silent(portIx - 1, warning)
        BY <1>5, <2>1, <4>1 DEF Behind, Passed
      <4> QED
        BY <4>2 DEF Silent
    <3>2. portIx \in Inhabited /\ Inhabited \subseteq Nat
      BY <1>0, <2>2, <2>3 DEF Inhabited
    <3>3. \A i \in Inhabited : portIx <= i
      BY <1>0, <3>1 DEF Inhabited
    <3>4. First(Inhabited) = portIx
      BY <3>2, <3>3, FirstIs
    <3> QED
      BY <1>3, <2>1, <2>2, <2>3, <3>2, <3>4 DEF RightDevices, RightResult
  <2>4. CASE found = {}
    <3>1. portIx = Len(Ports)
      <4>1. Len(Ports) \in Nat /\ portIx \in 1..Len(Ports) /\ portIx >= Len(Ports)
        BY <1>0, <2>1, <2>4
      <4> QED
        BY <4>1, LastOne
    <3>2. Silent(Len(Ports), warning')
      BY <1>5, <2>4, <3>1, Leaving
    <3>3. Inhabited = {}
      BY <1>0, <3>2 DEF Silent, Inhabited
    <3>4. result' = RightResult
      <4>1. CASE \E i \in DOMAIN Ports : attached[Ports[i]] = "port"
        <5>1. warning' = "no answer"
          BY <1>0, <3>2, <4>1 DEF Silent
        <5> QED
          BY <2>1, <2>4, <3>3, <4>1, <5>1 DEF RightResult
      <4>2. CASE /\ \A i \in DOMAIN Ports : attached[Ports[i]] # "port"
                 /\ Refusing = {}
        <5>1. warning' = "none"
          BY <1>0, <3>2, <4>2 DEF Silent
        <5> QED
          BY <2>1, <2>4, <3>3, <4>2, <5>1 DEF RightResult
      <4>3. CASE /\ \A i \in DOMAIN Ports : attached[Ports[i]] # "port"
                 /\ Refusing # {}
        <5>1. Refusing \subseteq 1..Len(Ports)
          BY <1>0 DEF Refusing
        <5>2. PICK i \in 1..Len(Ports) :
                 /\ i \in Refusing /\ warning' = attached[Ports[i]]
                 /\ \A j \in 1..(i - 1) : j \notin Refusing
          BY <1>0, <3>2, <4>3, <5>1 DEF Silent
        <5>3. \A j \in Refusing : i <= j
          BY <1>0, <5>1, <5>2
        <5>4. First(Refusing) = i
          BY <1>0, <5>1, <5>2, <5>3, FirstIs
        <5>5. warning' # "none"
          BY <5>2 DEF Refusing
        <5> QED
          BY <2>1, <2>4, <3>3, <4>3, <5>2, <5>4, <5>5 DEF RightResult
      <4> QED
        BY <4>1, <4>2, <4>3
    <3> QED
      BY <1>3, <2>1, <2>4, <3>3, <3>4 DEF RightDevices
  <2> QED
    BY <2>3, <2>4
<1>6. Undisturbed =>
        ~(\/ Missing \/ Refused \/ Opened(Shared) \/ Skip \/ Probe \/ Answered
          \/ Unanswered(Shared) \/ Close)
  BY <1>1 DEF Missing, Refused, Opened, Skip, Probe, Answered, Unanswered, NextAddress,
              Close
<1> QED
  BY <1>1, <1>4, <1>5, <1>6, OwnStep

----------------------------------------------------------------------------

\* The inductive invariant.
THEOREM Invariance == Spec => []IInv
<1>1. Init => IInv
  <2> SUFFICES ASSUME Init PROVE IInv
    OBVIOUS
  <2>1. Typed
    <3>0. /\ 1 \in DOMAIN Ports /\ 1 \in DOMAIN Rates /\ Rates[1] \in RangeOf(Rates)
          /\ 1 \in Addresses /\ 1 \in 1..Len(Reads) + 1
      BY PortAssumption, BusAssumption, PollAssumption DEF RangeOf, Addresses
    <3>1. LineOK
      <4>1. /\ flying = [p \in RangeOf(Ports) |-> <<>>]
            /\ queue = [p \in RangeOf(Ports) |-> <<>>]
            /\ rate = [p \in RangeOf(Ports) |-> Rates[1]]
            /\ prompt \in BOOLEAN /\ attached \in [RangeOf(Ports) -> Attachments]
            /\ inverters \in [RangeOf(Ports)
                                -> [Addresses -> RangeOf(Rates) \cup {NoRate}]]
        BY DEF Init, WorldInit
      <4>2. Len(<<>>) <= MaxLate + 1
        BY BusAssumption
      <4>3. /\ flying \in [RangeOf(Ports) -> Seq(Replies)]
            /\ queue \in [RangeOf(Ports) -> Seq(Replies \cup {Garbage})]
            /\ rate \in [RangeOf(Ports) -> RangeOf(Rates)]
        BY <3>0, <4>1
      <4>4. \A p \in RangeOf(Ports) : Len(flying[p]) <= MaxLate + 1
        BY <4>1, <4>2
      <4> QED
        BY <4>1, <4>3, <4>4 DEF LineOK
    <3>2. ScanTypeOK /\ found \subseteq Devices
      BY <3>0 DEF Init, ScanInit, ScanTypeOK, Warnings, Results, Severity
    <3>3. PollTypeOK
      BY <3>0 DEF Init, PollTypeOK
    <3> QED
      BY <3>1, <3>2, <3>3 DEF Init, Typed, TypeOK, PollTypeOK, LineOK, LineTypeOK
  <2>2. Handles /\ Calls /\ Marked
    BY DEF Init, ScanInit, Handles, Calls, Marked, ScanOnPollPort
  <2>3. Genuine /\ Real /\ Mixed /\ OwnReplies /\ AnswersAreOwn
    BY PollAssumption DEF Init, ScanInit, Genuine, Real, Mixed, ScanOnPollPort, OwnReplies,
                          AnswersAreOwn
  <2>4. Calm /\ Opening /\ SoFar /\ Behind /\ ScanIsRight
    BY DEF Init, ScanInit, Calm, Opening, SoFar, Behind, ScanIsRight, Undisturbed,
           Scanning
  <2> QED
    BY <2>1, <2>2, <2>3, <2>4 DEF IInv, Base
<1>2. IInv /\ [Next]_vars => IInv'
  <2> SUFFICES ASSUME IInv, [Next]_vars PROVE IInv'
    OBVIOUS
  <2>1. Base'
    BY TypedKept, HandlesKept, CallsKept, MarkedKept DEF IInv, Base
  <2>2. Genuine' /\ Real' /\ Mixed' /\ OwnReplies' /\ AnswersAreOwn'
    BY GenuineKept, RealKept, MixedKept, OwnRepliesKept, AnswersKept DEF IInv
  <2>3. Calm' /\ Opening' /\ SoFar' /\ Behind' /\ ScanIsRight'
    BY CalmKept, OpeningKept, SoFarKept, BehindKept, RightKept DEF IInv
  <2> QED
    BY <2>1, <2>2, <2>3 DEF IInv
<1> QED
  BY <1>1, <1>2, PTL DEF Spec

\* Indices, settings, replies and results stay in their sets.
THEOREM TypeCorrect == Spec => []TypeOK
<1>1. IInv => TypeOK
  BY DEF IInv, Base, Typed
<1> QED
  BY <1>1, Invariance, PTL

\* A scan that nothing disturbed finds exactly the inverters of the first port
\* that has any, and otherwise warns of the most telling port.
THEOREM UndisturbedScansAreRight == Spec => []ScanIsRight
<1>1. IInv => ScanIsRight
  BY DEF IInv
<1> QED
  BY <1>1, Invariance, PTL

\* Late replies make no scan raise, and put a device at no port or rate without
\* an inverter.
THEOREM LateRepliesDoNoHarm == Spec => []LateRepliesHarmless
<1>1. IInv => LateRepliesHarmless
  BY DEF IInv, Base, Marked, Real, LateRepliesHarmless
<1> QED
  BY <1>1, Invariance, PTL

\* However a scan ends, it has closed its handle.
THEOREM HandlesAreClosed == Spec => []NoHandleLeft
<1>1. IInv => NoHandleLeft
  BY DEF IInv, Base, Handles, NoHandleLeft
<1> QED
  BY <1>1, Invariance, PTL

\* A call takes an answer to another request for its own only where a read has
\* missed its answer, in this call or in an earlier one whose replies were
\* still under way when this one began, or where a scan has used the bus.
THEOREM CallsReadTheirOwn == Spec => []AnswersAreOwn
<1>1. IInv => AnswersAreOwn
  BY DEF IInv
<1> QED
  BY <1>1, Invariance, PTL
====
