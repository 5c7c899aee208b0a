----------------------------- MODULE AuroraBus -----------------------------
(***************************************************************************)
(* One bus, two users: discover() (AuroraDiscover) and, in some worlds, a   *)
(* driver object whose get_data() polls one of the ports                    *)
(* (ionemo_drivers/pv/aurora_rs485.py).  They share the line's settings and *)
(* its input queue and no lock.  The several callers of get_data() and its  *)
(* lock are AuroraRS485's subject; here one call is in progress at a time,  *)
(* and the replies carry whose answers they are.                            *)
(***************************************************************************)
EXTENDS AuroraDiscover

CONSTANTS
    PollPort, PollAddress, PollRate,  \* the driver object's configuration
    Reads     \* the commands of one get_data(), in order

ASSUME PollAssumption ==
    /\ PollPort \in RangeOf(Ports) /\ PollAddress \in Addresses
    /\ PollRate \in RangeOf(Rates)
    /\ Reads \in Seq(RangeOf(Reads)) /\ Reads # <<>>

Required == {"power", "daily", "total"}

VARIABLES
    polled,   \* there is a driver object
    ppc,      \* where its get_data() is; "idle" between two calls, "done" when
              \* it returns
    serial,   \* self._serial: none, open, or dead (its adapter was pulled)
    cmd,      \* the exchange under way, as an index of Reads
    missing,  \* a required value came back None
    gap,      \* history: a value of this call came back None, or one of an
              \* earlier call of which replies were under way at this one's start
    foreign,  \* an answer to another request was taken by this call: "no",
              \* "after gap", i.e. when there was one, or "yes"
    mixed,    \* history: a scan used the port since this call began, or before,
              \* and replies were under way when it began
    value     \* what the call returns

poll == <<ppc, serial, cmd, missing, gap, foreign, mixed, value>>
vars == <<line, scan, polled, poll>>

TypeOK ==
    /\ LineTypeOK /\ ScanTypeOK
    /\ polled \in BOOLEAN /\ ppc \in {"idle", "open", "send", "read", "evaluate", "done"}
    /\ serial \in {"none", "open", "dead"} /\ cmd \in 1..Len(Reads) + 1
    /\ missing \in BOOLEAN /\ gap \in BOOLEAN /\ mixed \in BOOLEAN
    /\ foreign \in {"no", "after gap", "yes"}
    /\ value \in {"none yet", "failed", "right", "wrong"}

\* Without a driver object, any ports and inverters; with one, its own, and the
\* other paths belong to something else.
WorldInit ==
    /\ inverters \in [RangeOf(Ports) -> [Addresses -> RangeOf(Rates) \cup {NoRate}]]
    /\ attached \in [RangeOf(Ports) -> Attachments]
    /\ \A p \in RangeOf(Ports), a \in Addresses :
         attached[p] # "port" => inverters[p][a] = NoRate
    /\ polled => /\ attached[PollPort] = "port"
                 /\ inverters[PollPort][PollAddress] = PollRate
                 /\ \A p \in RangeOf(Ports) \ {PollPort} :
                      attached[p] = "PermissionError"
                 /\ \A p \in RangeOf(Ports), a \in Addresses :
                      <<p, a>> # <<PollPort, PollAddress>>
                        => inverters[p][a] = NoRate

Init ==
    /\ polled \in BOOLEAN /\ WorldInit /\ ScanInit
    /\ prompt = FALSE
    /\ rate = [p \in RangeOf(Ports) |-> Rates[1]]
    /\ queue = [p \in RangeOf(Ports) |-> <<>>]
    /\ flying = [p \in RangeOf(Ports) |-> <<>>]
    /\ ppc = "idle" /\ serial = "none" /\ cmd = 1
    /\ missing = FALSE /\ gap = FALSE /\ foreign = "no"
    /\ mixed = FALSE /\ value = "none yet"

ScanOnPollPort == Port = PollPort /\ handle # "closed"
Contended == ppc = "read" /\ spc = "read" /\ ScanOnPollPort

----------------------------------------------------------------------------
(* get_data(), one caller. *)

\* The scheduler's calls are seconds apart, but a caller that has waited for
\* the lock follows at once: replies to the last call may still be under way.
\* What went wrong earlier matters to this call as long as there are such.
PollCall ==
    /\ polled /\ ppc = "idle"
    /\ ppc' = IF serial = "none" THEN "open" ELSE "send"
    /\ gap' = (gap /\ flying[PollPort] # <<>>)
    /\ mixed' = (ScanOnPollPort \/ (mixed /\ flying[PollPort] # <<>>))
    /\ UNCHANGED <<line, serial, cmd, missing, foreign, value>>

Return(outcome) ==
    /\ ppc' = "done" /\ value' = outcome
    /\ cmd' = 1 /\ missing' = FALSE /\ foreign' = "no"
    /\ UNCHANGED <<gap, mixed>>

PollOpens ==
    /\ ppc = "open" /\ attached[PollPort] = "port"
    /\ serial' = "open" /\ SetRate(PollPort, PollRate) /\ ppc' = "send"
    /\ UNCHANGED <<world, queue, flying, cmd, missing, gap, foreign, mixed,
                   value>>

PollCannotOpen ==
    /\ ppc = "open" /\ attached[PollPort] # "port"
    /\ Return("failed")
    /\ UNCHANGED <<line, serial>>

PollSends ==
    /\ ppc = "send" /\ serial = "open"
    /\ SendRequest(PollPort, PollAddress, Reads[cmd])
    /\ ppc' = "read"
    /\ UNCHANGED <<serial, cmd, missing, gap, foreign, mixed, value>>

\* "except Exception": the port object is dropped.
PollRaises ==
    /\ \/ ppc \in {"send", "read"} /\ serial = "dead"
       \/ Contended
    /\ serial' = "none" /\ Return("failed")
    /\ UNCHANGED line

NextRead(none) ==
    /\ missing' = (missing \/ (none /\ Reads[cmd] \in Required))
    /\ gap' = (gap \/ none)
    /\ cmd' = cmd + 1
    /\ ppc' = IF cmd = Len(Reads) THEN "evaluate" ELSE "send"
    /\ UNCHANGED <<serial, mixed, value>>

Asked == [address |-> PollAddress, command |-> Reads[cmd]]

PollAnswered ==
    /\ ppc = "read" /\ serial = "open" /\ TakeReply(PollPort)
    /\ LET reply == Head(queue[PollPort])
       IN /\ foreign' = IF reply \in {Asked, Garbage} \/ foreign # "no"
                        THEN foreign
                        ELSE IF gap THEN "after gap" ELSE "yes"
          /\ NextRead(reply = Garbage)

PollUnanswered ==
    /\ ppc = "read" /\ serial = "open" /\ NothingCame(PollPort, ScanOnPollPort)
    /\ NextRead(TRUE)
    /\ UNCHANGED foreign

PollReturns ==
    /\ ppc = "evaluate"
    /\ Return(IF missing THEN "failed"
              ELSE IF foreign # "no" THEN "wrong" ELSE "right")
    /\ UNCHANGED <<line, serial>>

PollDone ==
    /\ ppc = "done" /\ ppc' = "idle" /\ value' = "none yet"
    /\ UNCHANGED <<line, serial, cmd, missing, gap, foreign, mixed>>

PollStep ==
    /\ \/ PollOpens \/ PollCannotOpen \/ PollSends \/ PollRaises
       \/ PollAnswered \/ PollUnanswered \/ PollReturns \/ PollDone
    /\ UNCHANGED <<scan, polled>>

----------------------------------------------------------------------------
(* Composition *)

Shared == polled /\ Port = PollPort

Discover ==
    /\ ScanStep(Shared, Contended)
    /\ mixed' = (mixed \/ (Shared /\ handle' # "closed"))
    /\ UNCHANGED <<polled, ppc, serial, cmd, missing, gap, foreign, value>>

StartScan == ScanCall /\ UNCHANGED <<polled, poll>>

StartPoll == PollCall /\ UNCHANGED <<scan, polled>>

HeldOpen(p) == (p = Port /\ handle = "open") \/ (p = PollPort /\ serial = "open")

Arrive ==
    /\ \E p \in RangeOf(Ports) : Deliver(p, HeldOpen(p))
    /\ UNCHANGED <<scan, polled, poll>>

Lost ==
    /\ \E p \in RangeOf(Ports) : Lose(p, Contended)
    /\ ScanLost
    /\ UNCHANGED <<polled, poll>>

Unplug ==
    /\ polled \/ Scanning
    /\ \E p \in RangeOf(Ports) :
      /\ Pull(p) /\ ScanPulled(p)
      /\ serial' = IF serial = "open" /\ p = PollPort THEN "dead" ELSE serial
      /\ UNCHANGED <<polled, ppc, cmd, missing, gap, foreign, mixed, value>>

\* The path is free for an adapter once its dead handles are closed.
Replug ==
    /\ polled /\ "dead" \notin {handle, serial}
    /\ \E p \in RangeOf(Ports) :
         Plug(p) /\ ScanPulled(p) /\ UNCHANGED <<polled, poll>>

Weather == polled /\ Settle /\ UNCHANGED <<scan, polled, poll>>

Next ==
    \/ StartScan \/ Discover \/ StartPoll \/ PollStep
    \/ Arrive \/ Lost \/ Unplug \/ Replug \/ Weather

Spec == Init /\ [][Next]_vars

\* Replies arrive, running calls run, the scheduler keeps polling; nobody has
\* to start a scan.
FairSpec ==
    Spec /\ WF_vars(Arrive) /\ WF_vars(Discover) /\ WF_vars(PollStep)
         /\ WF_vars(StartPoll)

----------------------------------------------------------------------------
(* Properties *)

\* A scan that nothing disturbed reports exactly the inverters of the first
\* port that has any, at the first rate each answers, and otherwise the warning
\* that says most: a silent port before a refused one before none at all.
\* "Each": all rates are tried, as the docstring (lines 247-251) says and the
\* code does; docs/drivers/aurora_rs485.md:129 has the other rates tried only
\* if nothing responds at 19200, and the code does not follow it.
ScanIsRight ==
    spc = "done" /\ disturbed = "nothing" => found = RightDevices /\ result = RightResult

\* Late replies may put a device at the wrong address, never at a port or rate
\* at which no inverter is, and they never raise: discover() raises only when
\* an adapter is pulled or a driver object reads the same port.
LateRepliesHarmless ==
    /\ disturbed \in {"nothing", "late"} => result # "raised"
    /\ disturbed # "shared" =>
         \A d \in found : \E a \in Addresses : inverters[d.port][a] = d.baudrate

\* However a scan ends, it leaves no handle open.
NoHandleLeft == spc \in {"idle", "done"} => handle = "closed"

\* As long as no scan uses the bus, a poll takes an answer to another request
\* for its own only where a read has timed out or was garbled: earlier in the
\* same call, or in an earlier one of which replies were still under way when
\* this one began.  What is late for one call and arrives before the next one
\* is discarded.
AnswersAreOwn == foreign = "yes" => mixed

\* Every scan ends, whatever is late, lost, pulled or polled meanwhile.
ScanEnds == Scanning ~> ~Scanning

\* After disturbances and scans, a bus that is quiet, with an adapter that
\* stays and a line at the driver's rate, gives right polls again and again,
\* provided that again and again all replies are in while no call is in
\* progress, as they are when the scheduler's calls are seconds apart: callers
\* that queue on the lock for ever may pass a displaced answer on for ever.
PollsRecover ==
    (polled /\ <>[](~Scanning /\ prompt /\ attached[PollPort] = "port"
                      /\ (serial = "open" => rate[PollPort] = PollRate))
            /\ []<>(ppc = "idle" /\ flying[PollPort] = <<>>))
      => []<>(value = "right")
=============================================================================
