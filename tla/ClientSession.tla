---------------------------- MODULE ClientSession ----------------------------
(***************************************************************************)
(* The sessions of SMAClassicClient (protocol.py) in one call of the gate: *)
(* connect, initialise, identify the inverters, log on, one operation, log *)
(* off, close; after a failure once more with a new client. The operation  *)
(* queries every inverter, reads their archives or checks the plant clock. *)
(*                                                                         *)
(* All inverters of a network answer over the one RFCOMM connection. The   *)
(* radio between them may lose an answer, delay it past a retry, deliver   *)
(* it twice or after a later one, so the client may at any time receive    *)
(* any answer to any request it has sent in this session. It never         *)
(* receives what nobody sent: asked records the requests. L1 and L2        *)
(* framing and the contents of records are left out.                       *)
(***************************************************************************)
EXTENDS Naturals, Sequences, SequencesExt, FiniteSets

CONSTANTS
    Device,         \* inverters that may be on the air
    Connection,     \* the one whose address is configured
    Classes,        \* number of query classes, Len(QUERIES), or archive periods
    Attempts        \* sessions of a call (the gate's)

ASSUME ClientConstants ==
    /\ IsFiniteSet(Device) /\ Connection \in Device
    /\ Classes \in Nat \ {0}
    /\ Attempts \in Nat \ {0}

VARIABLES
    operation,      \* what the session is for
    attempt,        \* sessions of the call so far
    mode,           \* connection_mode, as it was configured
    stage,          \* what the client waits for
    net_id,         \* self.net_id, 0 for None
    topology,       \* addresses of self.devices before identification
    devices,        \* self.devices as identified, in order of their answers
    asked,          \* requests with an id, in order; the last is the current
    replies,        \* logon replies counted
    active,         \* self._session_active
    position,       \* queries done: class by class, inverter by inverter
    retry,          \* attempt in _query, from 0
    got,            \* per inverter, the classes whose answer was read to the end
    cut,            \* the next bytes received are the rest of a packet
    link_lost,      \* what ended the session was a fault of the transport
    error,          \* how the session ended
    clock,          \* the plant clock, set by SMA's plant-wide command
    heard,          \* clock readings that may still arrive in this session
    in_flight,      \* the command that sets the clock is on the air
    reason          \* SMAClockSyncResult.reason of a session that succeeded

call == <<operation, attempt, mode>>
found == <<net_id, topology, devices>>
reading == <<position, retry, got, cut>>
outcome == <<link_lost, error>>
clockVars == <<clock, heard, in_flight, reason>>
vars == <<call, stage, found, asked, replies, active, reading, outcome, clockVars>>

Operations == {"query", "archive", "clock"}
Stages == {"connect", "announcement", "topology", "identify", "signal",
           "logon", "query", "clock", "setting", "verify", "logoff", "closed"}
Modes == {"auto", "single", "network"}
Reasons == {"none", "within_tolerance", "unsafe_difference", "recently_adjusted",
            "adjusted"}
Errors == {"none", "ok", "transport", "protocol", "auth", "config"}

Request == [kind : {"identify", "logoff", "logon", "set"} \cup Operations,
            class : 0 .. Classes, to : SUBSET Device]

\* How far the clock is off: up to the 5 s of the verification, up to the
\* lower limit, up to the upper limit, or more; and whether it was set within
\* the minimum interval.
Clock == [off : {"right", "near", "wrong", "far"}, recent : BOOLEAN]

Init ==
    /\ operation \in Operations
    /\ attempt = 1
    /\ mode \in Modes
    /\ stage = "connect"
    /\ net_id = 0
    /\ topology = {}
    /\ devices = <<>>
    /\ asked = <<>>
    /\ replies = 0
    /\ active = FALSE
    /\ position = 0
    /\ retry = 0
    /\ got = [d \in Device |-> {}]
    /\ cut = FALSE
    /\ link_lost = FALSE
    /\ error = "none"
    /\ heard = {}
    /\ reason = "none"
    /\ clock \in IF operation = "clock" THEN Clock ELSE {[off |-> "right", recent |-> FALSE]}
    /\ in_flight = FALSE

-----------------------------------------------------------------------------
(* Requests and answers.                                                   *)

\* _l2_payload numbers the requests; the number of the last is request_id.
request_id == Len(asked)

Ask(kind, class, to) ==
    asked' = Append(asked, [kind |-> kind, class |-> class, to |-> to])

\* Packets the client may receive now: an answer of d to request r. After a
\* timeout inside a packet the stream goes on in the middle of it; the rest is
\* taken for a header that it is not, and the query or session ends as Garbled
\* or in a timeout: no answer is read any more.
Answer(d, r) == ~cut /\ d \in asked[r].to

\* Mutant: any answer will do.
FromRequestAny(d, r) == Answer(d, r)

\* The filter on the request id: `(_u16(packet, 27) & 0x7FFF) != request_id`.
FromRequest(d, r) == Answer(d, r) /\ r = request_id

Single == mode = "single" \/ (mode = "auto" /\ net_id = 1)

QueryClass(n) == (n \div Len(devices)) + 1
QueryDevice(n) == devices[(n % Len(devices)) + 1]

\* Mutant: one query too many.
QueriesDoneLate(n) == n > Classes * Len(devices)

QueriesDone(n) == n = Classes * Len(devices)

\* Mutant: a session that never was authenticated is logged off too.
EndWithLogoff(how) ==
    /\ error' = how
    /\ stage' = IF stage = "connect" THEN "closed" ELSE "logoff"

\* The session is over; __aexit__ closes the socket. A session that was
\* authenticated is logged off first.
End(how) ==
    /\ error' = how
    /\ stage' = IF active THEN "logoff" ELSE "closed"

-----------------------------------------------------------------------------
(* Initialisation.                                                         *)

\* __aenter__, and `ver` is sent.
Connect ==
    /\ stage = "connect"
    /\ stage' = "announcement"
    /\ UNCHANGED <<call, found, asked, replies, active, reading, outcome, clockVars>>

\* _initialize: an old firmware is refused, a full network needs NetID 2-F.
Announced ==
    /\ stage = "announcement"
    /\ net_id' \in {1, 2}
    /\ \/ End("protocol")
       \/ /\ mode = "network" /\ net_id' = 1
          /\ End("config")
       \/ /\ ~(mode = "network" /\ net_id' = 1)
          /\ stage' = "topology"
          /\ UNCHANGED error
    /\ UNCHANGED <<call, topology, devices, asked, replies, active, reading, link_lost,
                   clockVars>>

\* _initialize_single takes the connected inverter, _initialize_network what
\* the root reports (an inverter or none, or _build_network's result); then
\* _identify_devices asks.
TopologyKnown ==
    /\ stage = "topology"
    /\ topology' \in IF Single THEN {{Connection}} ELSE SUBSET Device
    /\ IF topology' = {}
       THEN End("protocol") /\ UNCHANGED asked
       ELSE /\ stage' = "identify"
            /\ Ask("identify", 0, Device)
            /\ UNCHANGED error
    /\ UNCHANGED <<call, net_id, devices, replies, active, reading, link_lost, clockVars>>

\* Mutant: an inverter that answers twice is taken twice.
IdentifiedAgain(d, r) ==
    /\ stage = "identify"
    /\ FromRequest(d, r)
    /\ d \in topology
    /\ devices' = Append(devices, d)
    /\ IF Len(devices') = Cardinality(topology)
       THEN stage' = "signal" /\ Ask("logoff", 0, {})
       ELSE UNCHANGED <<stage, asked>>
    /\ UNCHANGED <<call, net_id, topology, replies, active, reading, outcome, clockVars>>

\* _identify_devices: an inverter of the topology that has not answered yet.
\* After the last the anonymous session is logged off.
Identified(d, r) ==
    /\ stage = "identify"
    /\ FromRequest(d, r)
    /\ d \in topology \ ToSet(devices)
    /\ devices' = Append(devices, d)
    /\ IF Len(devices') = Cardinality(topology)
       THEN stage' = "signal" /\ Ask("logoff", 0, {})
       ELSE UNCHANGED <<stage, asked>>
    /\ UNCHANGED <<call, net_id, topology, replies, active, reading, outcome, clockVars>>

\* _signal_strength of every inverter, then the logon is sent to all of them.
SignalsRead ==
    /\ stage = "signal"
    /\ stage' = "logon"
    /\ Ask("logon", 0, Device)
    /\ UNCHANGED <<call, found, replies, active, reading, outcome, clockVars>>

\* The operation begins with its first request; an inverter answers a request
\* for the clock with what it shows by then.
OperationStarts ==
    IF operation = "clock"
    THEN /\ stage' = "clock"
         /\ Ask("clock", 0, Device)
         /\ heard' = {clock}
    ELSE /\ stage' = "query"
         /\ Ask(operation, QueryClass(0), {QueryDevice(0)})
         /\ UNCHANGED heard

\* _logon: a wrong password or another refusal ends it; else replies are
\* counted until there are as many as inverters.
LogonReply(d, r) ==
    /\ stage = "logon"
    /\ FromRequest(d, r)
    /\ \/ /\ \E how \in {"auth", "protocol"} : End(how)
          /\ UNCHANGED <<asked, replies, active, heard>>
       \/ /\ replies' = replies + 1
          /\ IF replies' = Len(devices)
             THEN active' = TRUE /\ OperationStarts
             ELSE UNCHANGED <<stage, active, asked, heard>>
          /\ UNCHANGED error
    /\ UNCHANGED <<call, found, reading, link_lost, clock, in_flight, reason>>

-----------------------------------------------------------------------------
(* Queries and archive reads: one request after the other, to each inverter *)
(* of a class (of a period) before the next.                                *)

\* The request at the current position is through: the next one, or the end.
NextQuery ==
    /\ position' = position + 1
    /\ retry' = 0
    /\ IF QueriesDone(position')
       THEN End("ok") /\ UNCHANGED asked
       ELSE /\ Ask(operation, QueryClass(position'), {QueryDevice(position')})
            /\ UNCHANGED <<stage, error>>

\* _query and _archive_day: the answer's last packet, or for _query status 21
\* of a class the inverter does not have.
QueryAnswered(d, r) ==
    /\ stage = "query"
    /\ d = QueryDevice(position)
    /\ FromRequest(d, r)
    /\ got' = [got EXCEPT ![d] = @ \cup {asked[r].class}]
    /\ NextQuery
    /\ UNCHANGED <<call, found, replies, active, cut, link_lost, clockVars>>

\* Any other status raises in _query; _archive_day looks at none.
QueryError(d, r) ==
    /\ stage = "query" /\ operation = "query"
    /\ d = QueryDevice(position)
    /\ FromRequest(d, r)
    /\ End("protocol")
    /\ UNCHANGED <<call, found, asked, replies, active, reading, link_lost, clockVars>>

\* No bytes for the receive timeout, perhaps within a packet, whose first part
\* is dropped: _query asks again, twice; then the SMATransportError is raised
\* as an SMAProtocolError.
QueryTimeout ==
    /\ stage = "query" /\ operation = "query"
    /\ cut' \in {cut, TRUE}
    /\ link_lost' = (retry = 2)
    /\ IF retry < 2
       THEN /\ retry' = retry + 1
            /\ Ask("query", QueryClass(position), {QueryDevice(position)})
            /\ UNCHANGED <<stage, error>>
       ELSE End("protocol") /\ UNCHANGED <<asked, retry>>
    /\ UNCHANGED <<call, found, replies, active, position, got, clockVars>>

\* The connection breaks while _query receives: raised as an SMAProtocolError.
QueryLinkLost ==
    /\ stage = "query" /\ operation = "query"
    /\ link_lost' = TRUE
    /\ End("protocol")
    /\ UNCHANGED <<call, found, asked, replies, active, reading, clockVars>>

-----------------------------------------------------------------------------
(* The clock. Every inverter may answer a read, no request id is compared,  *)
(* and an answer that was delayed shows a clock that lags.                  *)

Readings ==
    heard \cup {[c EXCEPT !.off = "near"] : c \in {c \in heard : c.off = "right"}}

\* Mutant: a clock that was set lately is set again.
AdjustsHasty(c) == c.off = "wrong"

\* The limits of async_sync_clock_active.
Adjusts(c) == c.off = "wrong" /\ ~c.recent

\* async_sync_clock_active up to the command that sets the clock.
ClockRead ==
    /\ stage = "clock"
    /\ \E c \in Readings :
         IF Adjusts(c)
         THEN /\ stage' = "setting"
              /\ Ask("set", 0, Device)
              /\ in_flight' = TRUE
              /\ UNCHANGED <<error, reason>>
         ELSE /\ End("ok")
              /\ reason' = CASE c.off \in {"right", "near"} -> "within_tolerance"
                             [] c.off = "far"               -> "unsafe_difference"
                             [] OTHER                       -> "recently_adjusted"
              /\ UNCHANGED <<asked, in_flight>>
    /\ UNCHANGED <<call, found, replies, active, reading, link_lost, clock, heard>>

\* The sleep of a second is over: the clock is read again.
ClockReread ==
    /\ stage = "setting"
    /\ stage' = "verify"
    /\ Ask("clock", 0, Device)
    /\ heard' = heard \cup {clock}
    /\ UNCHANGED <<call, found, replies, active, reading, outcome, clock, in_flight, reason>>

\* Mutant: a second reading is enough, whatever it shows.
VerifiedAny(c) == TRUE

Verified(c) == c.off = "right"

ClockVerified ==
    /\ stage = "verify"
    /\ \E c \in Readings :
         IF Verified(c) THEN End("ok") /\ reason' = "adjusted"
                        ELSE End("protocol") /\ UNCHANGED reason
    /\ UNCHANGED <<call, found, asked, replies, active, reading, link_lost, clock, heard,
                   in_flight>>

\* The plant takes the command, before or after it answers, or never gets it.
SetLands ==
    /\ in_flight
    /\ in_flight' = FALSE
    /\ clock' = [off |-> "right", recent |-> TRUE]
    /\ heard' = IF stage = "verify" THEN heard \cup {clock'} ELSE heard
    /\ UNCHANGED <<call, stage, found, asked, replies, active, reading, outcome, reason>>

SetLost ==
    /\ in_flight
    /\ in_flight' = FALSE
    /\ UNCHANGED <<call, stage, found, asked, replies, active, reading, outcome, clock,
                   heard, reason>>

-----------------------------------------------------------------------------
(* Faults elsewhere, and the end.                                          *)

\* Connecting, sending (in _query as well) or receiving fails or times out.
LinkLost ==
    /\ stage \notin {"logoff", "closed"}
    /\ link_lost' = TRUE
    /\ End("transport")
    /\ UNCHANGED <<call, found, asked, replies, active, reading, clockVars>>

\* A packet that is not SMA's: framing, signature or checksum.
Garbled ==
    /\ stage \notin {"connect", "logoff", "closed"}
    /\ End("protocol")
    /\ UNCHANGED <<call, found, asked, replies, active, reading, link_lost, clockVars>>

\* async_stop_session: whether the logoff can be sent or not.
StopSession ==
    /\ stage = "logoff"
    /\ stage' = "closed"
    /\ active' = FALSE
    /\ \/ Ask("logoff", 0, {})
       \/ UNCHANGED asked
    /\ UNCHANGED <<call, found, replies, reading, outcome, clockVars>>

\* The gate tries a failed operation again, after its pause and with a new
\* client; nothing of the last connection is on the air any more.
Again ==
    /\ stage = "closed" /\ error \in {"transport", "protocol"}
    /\ attempt < Attempts /\ ~in_flight
    /\ attempt' = attempt + 1
    /\ stage' = "connect"
    /\ net_id' = 0
    /\ topology' = {}
    /\ devices' = <<>>
    /\ asked' = <<>>
    /\ replies' = 0
    /\ active' = FALSE
    /\ position' = 0
    /\ retry' = 0
    /\ got' = [d \in Device |-> {}]
    /\ cut' = FALSE
    /\ link_lost' = FALSE
    /\ error' = "none"
    /\ heard' = {}
    /\ reason' = "none"
    /\ UNCHANGED <<operation, mode, clock, in_flight>>

Received == \E d \in Device, r \in DOMAIN asked :
    Identified(d, r) \/ LogonReply(d, r) \/ QueryAnswered(d, r) \/ QueryError(d, r)

Next ==
    \/ Connect \/ Announced \/ TopologyKnown \/ SignalsRead \/ Received
    \/ QueryTimeout \/ QueryLinkLost \/ LinkLost \/ Garbled
    \/ ClockRead \/ ClockReread \/ ClockVerified \/ SetLands \/ SetLost
    \/ StopSession \/ Again

Spec == Init /\ [][Next]_vars

-----------------------------------------------------------------------------
(* What must hold.                                                         *)

TypeOK ==
    /\ operation \in Operations
    /\ attempt \in 1 .. Attempts
    /\ mode \in Modes
    /\ stage \in Stages
    /\ net_id \in 0 .. 2
    /\ topology \in SUBSET Device
    /\ devices \in Seq(Device)
    /\ asked \in Seq(Request)
    /\ replies \in 0 .. Len(devices)
    /\ active \in BOOLEAN
    /\ position \in 0 .. Classes * Len(devices)
    /\ retry \in 0 .. 2
    /\ got \in [Device -> SUBSET (1 .. Classes)]
    /\ cut \in BOOLEAN
    /\ link_lost \in BOOLEAN
    /\ error \in Errors
    /\ clock \in Clock
    /\ heard \in SUBSET Clock
    /\ in_flight \in BOOLEAN
    /\ reason \in Reasons

\* Past identification every inverter of the topology is in self.devices, and
\* none is twice, however often and in whatever order they answered.
IdentifiedAll ==
    stage \in {"signal", "logon", "query", "clock", "setting", "verify", "logoff"} =>
        ToSet(devices) = topology /\ IsInjective(devices)

\* A session that reports success read every class (every period) of every
\* inverter to its last packet: no answer to an earlier request, to another
\* inverter's query or to a query that was sent again has stood in for one.
CompleteOnSuccess ==
    error = "ok" /\ operation # "clock" => \A d \in topology : got[d] = 1 .. Classes

\* "adjusted" is said only of a clock that shows the time this call set:
\* neither a reading from before the command that arrives late, nor a command
\* that was lost, nor the other inverters' answers pass for its verification.
AdjustedIsVerified ==
    reason = "adjusted" => clock = [off |-> "right", recent |-> TRUE]

\* The clock is written only while it is off by what is safe to correct and
\* was not set lately: not a second time by the next attempt of a call whose
\* verification failed after the command had landed.
WrittenOnce ==
    [][clock' # clock => clock.off = "wrong" /\ ~clock.recent]_vars

\* "SMATransportError: Closed connection, socket error or timeout" (API.md):
\* a session the transport ended says so.
TransportFaultsReported == link_lost => error = "transport"

\* What the gate sees of its clients.
View == INSTANCE SessionView WITH
            phase  <- CASE stage \in {"query", "clock", "setting", "verify"} -> "operating"
                        [] stage = "logoff" -> "closing"
                        [] stage = "closed" -> "ended"
                        [] OTHER            -> "opening",
            result <- error

\* The gate's model of a session (opening, operating, closing in AdapterGate)
\* is right about the client: a logoff only after authentication, one result
\* fixed when the operation ends, none lost in the logoff.
ImplementsView == View!ViewSpec
=============================================================================
