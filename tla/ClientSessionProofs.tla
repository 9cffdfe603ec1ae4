------------------------- MODULE ClientSessionProofs -------------------------
(***************************************************************************)
(* Proofs about ClientSession for every plant, every number of classes or  *)
(* periods and of attempts, and every way the answers arrive.              *)
(***************************************************************************)
EXTENDS ClientSession, FiniteSetTheorems, TLAPS

USE ClientConstants

Opening == {"connect", "announcement", "topology", "identify", "signal", "logon"}
Operating == {"query", "clock", "setting", "verify"}

\* A session is authenticated from its operation to its logoff, and has a
\* result from the end of the operation on.
Phases ==
    /\ active <=> stage \in Operating \cup {"logoff"}
    /\ error = "none" <=> stage \notin {"logoff", "closed"}

\* self.devices is filled during identification, without repetition, and logon
\* replies are counted up to its length.
Identification ==
    /\ stage \in {"connect", "announcement", "topology"} => devices = <<>>
    /\ stage = "identify" =>
          /\ ToSet(devices) \subseteq topology /\ IsInjective(devices)
          /\ Cardinality(ToSet(devices)) = Len(devices)
    /\ stage \in {"signal", "logon"} \cup Operating => devices # <<>>
    /\ stage \in Opening \ {"logon"} => replies = 0
    /\ stage = "logon" => replies < Len(devices)
    /\ IdentifiedAll

\* Every query before the current position is answered, and the request under
\* way is the one of that position.
Querying ==
    /\ stage \in Opening => position = 0
    /\ stage = "query" =>
          /\ operation # "clock"
          /\ position < Classes * Len(devices)
          /\ asked # <<>> /\ asked[Len(asked)].class = QueryClass(position)
          /\ \A n \in 0 .. position - 1 : QueryClass(n) \in got[QueryDevice(n)]
    /\ stage \in {"clock", "setting", "verify"} => operation = "clock"
    /\ CompleteOnSuccess

JustSet == [off |-> "right", recent |-> TRUE]

\* The command is only on the air for a clock that may be set, and a reading
\* that is right can only be of the clock after the command.
Clocking ==
    /\ in_flight => clock.off = "wrong" /\ ~clock.recent
    /\ stage \in Opening \cup {"clock"} => ~in_flight
    /\ stage = "clock" => heard = {clock}
    /\ stage \in {"setting", "verify"} =>
          /\ clock = JustSet \/ clock.off = "wrong"
          /\ \A c \in heard : c.off = "right" => c = JustSet /\ clock = JustSet
    /\ AdjustedIsVerified

\* The inductive invariant.
ClientInv == TypeOK /\ Phases /\ Identification /\ Querying /\ Clocking

-----------------------------------------------------------------------------
(* The operators.                                                          *)

\* Where a division lands.
LEMMA Division ==
    ASSUME NEW L \in Nat \ {0}, NEW n \in Nat
    PROVE  n \div L \in Nat /\ n % L \in 0 .. L - 1 /\ n = (n \div L) * L + (n % L)
OBVIOUS

\* There is one way to write a number with a quotient and a remainder.
LEMMA OneDivision ==
    ASSUME NEW L \in Nat \ {0}, NEW c \in Nat, NEW d \in Nat,
           NEW i \in 0 .. L - 1, NEW j \in 0 .. L - 1, c * L + i = d * L + j
    PROVE  c = d /\ i = j
<1>1. CASE c < d
  <2>1. (c + 1) * L <= d * L
    BY <1>1
  <2>2. QED
    BY <2>1
<1>2. CASE d < c
  <2>1. (d + 1) * L <= c * L
    BY <1>2
  <2>2. QED
    BY <2>1
<1>3. CASE c = d
  BY <1>3
<1>4. QED
  BY <1>1, <1>2, <1>3

\* The n-th query is for a class that exists and for an inverter that was
\* identified.
LEMMA QueryFacts ==
    ASSUME TypeOK, NEW n \in Nat, n < Classes * Len(devices)
    PROVE  /\ Len(devices) \in Nat \ {0}
           /\ QueryClass(n) \in 1 .. Classes
           /\ QueryDevice(n) \in Device /\ QueryDevice(n) \in ToSet(devices)
<1> DEFINE L == Len(devices)
<1>1. devices \in Seq(Device) /\ L \in Nat
  BY DEF TypeOK
<1>2. L # 0
  BY <1>1
<1> HIDE DEF L
<1>3. /\ n \div L \in Nat /\ n % L \in 0 .. L - 1
      /\ n = (n \div L) * L + (n % L)
  BY <1>1, <1>2, Division
<1>4. n \div L < Classes
  <2>1. SUFFICES ASSUME Classes <= n \div L PROVE FALSE
    BY <1>3
  <2>2. Classes * L <= (n \div L) * L
    BY <1>1, <1>3, <2>1
  <2>3. n < Classes * L
    BY DEF L
  <2>4. QED
    BY <1>1, <1>3, <2>2, <2>3
<1>5. QueryClass(n) \in 1 .. Classes
  BY <1>3, <1>4 DEF QueryClass, L
<1>6. (n % L) + 1 \in DOMAIN devices
  BY <1>1, <1>2, <1>3 DEF L
<1>7. QueryDevice(n) \in Device /\ QueryDevice(n) \in ToSet(devices)
  BY <1>1, <1>6 DEF QueryDevice, ToSet, L
<1>8. QED
  BY <1>1, <1>2, <1>5, <1>7 DEF L

\* The queries up to the last cover every class of every inverter.
LEMMA QueriesCover ==
    ASSUME TypeOK, NEW c \in 1 .. Classes, NEW d \in ToSet(devices)
    PROVE  \E n \in 0 .. Classes * Len(devices) - 1 :
              QueryClass(n) = c /\ QueryDevice(n) = d
<1> DEFINE L == Len(devices)
<1>1. devices \in Seq(Device) /\ L \in Nat
  BY DEF TypeOK
<1>2. PICK i \in 1 .. L : devices[i] = d
  BY <1>1 DEF ToSet
<1>3. L # 0
  BY <1>1, <1>2
<1> DEFINE n == (c - 1) * L + (i - 1)
<1>4. n \in 0 .. Classes * L - 1
  <2>1. (c - 1) * L \in Nat
    BY <1>1
  <2>2. c * L = (c - 1) * L + L
    BY <1>1
  <2>3. c * L <= Classes * L /\ c * L \in Nat /\ Classes * L \in Nat
    BY <1>1
  <2> HIDE DEF L
  <2>4. QED
    BY <1>1, <1>2, <2>1, <2>2, <2>3
<1>5. n \div L = c - 1 /\ n % L = i - 1
  <2> HIDE DEF L
  <2>1. n \in Nat
    BY <1>1, <1>4
  <2> HIDE DEF n
  <2>2. /\ n \div L \in Nat /\ n % L \in 0 .. L - 1
        /\ n = (n \div L) * L + (n % L)
    BY <1>1, <1>3, <2>1, Division
  <2>3. (n \div L) * L + (n % L) = (c - 1) * L + (i - 1)
    BY <2>2 DEF n
  <2>4. c - 1 \in Nat /\ i - 1 \in 0 .. L - 1
    BY <1>1, <1>2
  <2> DEFINE q == n \div L
             r == n % L
             b == c - 1
             j == i - 1
  <2>5. /\ q \in Nat /\ b \in Nat /\ r \in 0 .. L - 1 /\ j \in 0 .. L - 1
        /\ L \in Nat \ {0} /\ q * L + r = b * L + j
    BY <1>1, <1>3, <2>2, <2>3, <2>4
  <2> HIDE DEF q, r, b, j
  <2>6. q = b /\ r = j
    BY <2>5, OneDivision
  <2>7. QED
    BY <2>6 DEF q, r, b, j
<1>6. QueryClass(n) = c /\ QueryDevice(n) = d
  <2>1. (n \div L) + 1 = c /\ (n % L) + 1 = i
    BY <1>1, <1>2, <1>5
  <2>2. QED
    BY <1>2, <2>1 DEF QueryClass, QueryDevice
<1>7. QED
  BY <1>4, <1>6

\* A request is numbered by the length of what was asked.
LEMMA AskEffect ==
    ASSUME TypeOK,
           NEW kind \in {"identify", "logoff", "logon", "set"} \cup Operations,
           NEW class \in 0 .. Classes, NEW to \in SUBSET Device,
           Ask(kind, class, to)
    PROVE  /\ asked' \in Seq(Request) /\ asked' # <<>>
           /\ asked'[Len(asked')].class = class
<1>1. [kind |-> kind, class |-> class, to |-> to] \in Request
  BY DEF Request
<1>2. QED
  BY <1>1 DEF Ask, TypeOK

\* What ends a session that was authenticated is followed by a logoff.
LEMMA EndEffect ==
    ASSUME NEW how, End(how)
    PROVE  /\ error' = how /\ stage' \in {"logoff", "closed"}
           /\ stage' = "logoff" <=> active
BY DEF End

\* One more inverter in a list without repetition.
LEMMA OneMore ==
    ASSUME NEW s \in Seq(Device), IsInjective(s), NEW d \in Device \ ToSet(s),
           Cardinality(ToSet(s)) = Len(s)
    PROVE  /\ Append(s, d) \in Seq(Device) /\ Append(s, d) # <<>>
           /\ ToSet(Append(s, d)) = ToSet(s) \cup {d}
           /\ IsInjective(Append(s, d))
           /\ Cardinality(ToSet(Append(s, d))) = Len(Append(s, d))
<1>1. /\ Append(s, d) \in Seq(Device) /\ Len(Append(s, d)) = Len(s) + 1
      /\ \A i \in 1 .. Len(s) : Append(s, d)[i] = s[i]
      /\ Append(s, d)[Len(s) + 1] = d
      /\ Len(s) \in Nat
  OBVIOUS
<1>2. ToSet(Append(s, d)) = ToSet(s) \cup {d}
  BY <1>1 DEF ToSet
<1>3. IsInjective(Append(s, d))
  BY <1>1 DEF IsInjective, ToSet
<1>4. IsFiniteSet(ToSet(s))
  <2>1. ToSet(s) \in SUBSET Device
    BY DEF ToSet
  <2>2. QED
    BY <2>1, FS_Subset
<1>5. Cardinality(ToSet(Append(s, d))) = Len(s) + 1
  BY <1>2, <1>4, FS_AddElement
<1>6. QED
  BY <1>1, <1>2, <1>3, <1>5

-----------------------------------------------------------------------------
(* The inductive invariant: at the start, and part by part.                *)

\* A call starts with nothing identified, asked or set.
LEMMA ClientInitInv == Init => ClientInv
<1> SUFFICES ASSUME Init PROVE ClientInv
  OBVIOUS
<1>1. devices = <<>> /\ asked = <<>> /\ replies = 0 /\ position = 0 /\ retry = 0
  BY DEF Init
<1>2. TypeOK
  <2>1. devices \in Seq(Device) /\ asked \in Seq(Request)
    BY <1>1
  <2>2. replies \in 0 .. Len(devices) /\ position \in 0 .. Classes * Len(devices)
    BY <1>1
  <2>3. attempt \in 1 .. Attempts /\ retry \in 0 .. 2 /\ net_id \in 0 .. 2
    BY <1>1 DEF Init
  <2>4. clock \in Clock /\ heard \in SUBSET Clock
    <3>1. [off |-> "right", recent |-> FALSE] \in Clock
      BY DEF Clock
    <3>2. QED
      BY <3>1 DEF Init
  <2>5. stage \in Stages /\ error \in Errors /\ reason \in Reasons
    BY DEF Init, Stages, Errors, Reasons
  <2>6. got \in [Device -> SUBSET (1 .. Classes)]
    BY DEF Init
  <2>7. QED
    BY <2>1, <2>2, <2>3, <2>4, <2>5, <2>6 DEF Init, TypeOK
<1>3. Phases
  BY DEF Init, Phases, Operating
<1>4. Identification
  BY DEF Init, Identification, Operating, Opening, IdentifiedAll
<1>5. Querying
  BY DEF Init, Querying, Opening, CompleteOnSuccess
<1>6. Clocking
  BY DEF Init, Clocking, Opening, AdjustedIsVerified
<1>7. QED
  BY <1>2, <1>3, <1>4, <1>5, <1>6 DEF ClientInv

\* The steps of Next, one by one.
LEMMA Steps ==
    ASSUME [Next]_vars
    PROVE  \/ UNCHANGED vars
           \/ Connect \/ Announced \/ TopologyKnown \/ SignalsRead
           \/ \E d \in Device, r \in DOMAIN asked :
                 Identified(d, r) \/ LogonReply(d, r)
                 \/ QueryAnswered(d, r) \/ QueryError(d, r)
           \/ QueryTimeout \/ QueryLinkLost \/ LinkLost \/ Garbled
           \/ ClockRead \/ ClockReread \/ ClockVerified \/ SetLands \/ SetLost
           \/ StopSession \/ Again
BY DEF Next, Received

\* Authentication and result follow the phases of a session.
LEMMA PhasesKept ==
    ASSUME ClientInv, [Next]_vars PROVE Phases'
<1> USE DEF Phases, Operating
<1>0. TypeOK /\ Phases
  BY DEF ClientInv
<1>1. CASE UNCHANGED vars \/ Connect \/ SignalsRead \/ ClockReread \/ SetLands
           \/ SetLost \/ StopSession \/ Again
  BY <1>0, <1>1
  DEF vars, call, found, reading, outcome, clockVars, Connect, SignalsRead,
      ClockReread, SetLands, SetLost, StopSession, Again
<1>2. CASE Announced
  BY <1>0, <1>2 DEF Announced, End, reading, call
<1>3. CASE TopologyKnown
  BY <1>0, <1>3 DEF TopologyKnown, End, reading, call
<1>4. CASE QueryTimeout
  BY <1>0, <1>4 DEF QueryTimeout, End, call, found
<1>5. CASE QueryLinkLost \/ LinkLost \/ Garbled
  BY <1>0, <1>5 DEF QueryLinkLost, LinkLost, Garbled, End, call, found, reading
<1>6. CASE ClockRead
  BY <1>0, <1>6 DEF ClockRead, End, call, found, reading
<1>7. CASE ClockVerified
  BY <1>0, <1>7 DEF ClockVerified, End, call, found, reading
<1>8. ASSUME NEW d \in Device, NEW r \in DOMAIN asked,
             Identified(d, r) \/ LogonReply(d, r)
             \/ QueryAnswered(d, r) \/ QueryError(d, r)
      PROVE  Phases'
  <2>1. CASE Identified(d, r)
    BY <1>0, <2>1 DEF Identified, outcome, call, reading
  <2>2. CASE LogonReply(d, r)
    BY <1>0, <2>2 DEF LogonReply, OperationStarts, End, call, found, reading
  <2>3. CASE QueryAnswered(d, r)
    BY <1>0, <2>3 DEF QueryAnswered, NextQuery, End, call, found
  <2>4. CASE QueryError(d, r)
    BY <1>0, <2>4 DEF QueryError, End, call, found, reading
  <2>5. QED
    BY <1>8, <2>1, <2>2, <2>3, <2>4
<1>9. QED
  BY <1>1, <1>2, <1>3, <1>4, <1>5, <1>6, <1>7, <1>8, Steps

\* What a command and the readings may show.
LEMMA ClockingKept ==
    ASSUME ClientInv, [Next]_vars PROVE Clocking'
<1> USE DEF Clocking, AdjustedIsVerified
<1>0. TypeOK /\ Clocking
  BY DEF ClientInv
<1>1. CASE UNCHANGED vars
  BY <1>0, <1>1 DEF vars, clockVars, Opening
<1>2. CASE Connect \/ SignalsRead
  BY <1>0, <1>2 DEF Connect, SignalsRead, clockVars, Opening
<1>3. CASE Announced
  BY <1>0, <1>3 DEF Announced, End, clockVars, Opening
<1>4. CASE TopologyKnown
  BY <1>0, <1>4 DEF TopologyKnown, End, clockVars, Opening
<1>5. CASE QueryTimeout
  BY <1>0, <1>5 DEF QueryTimeout, End, clockVars, Opening
<1>6. CASE QueryLinkLost \/ LinkLost \/ Garbled
  BY <1>0, <1>6 DEF QueryLinkLost, LinkLost, Garbled, End, clockVars, Opening
<1>7. CASE StopSession \/ Again
  BY <1>0, <1>7 DEF StopSession, Again, clockVars, Opening
<1>8. CASE ClockRead
  <2>1. heard = {clock} /\ ~in_flight
    BY <1>0, <1>8 DEF ClockRead
  <2>2. \A c \in Readings : c.off = "wrong" => c = clock
    BY <1>0, <2>1 DEF Readings, TypeOK, Clock
  <2>3. QED
    BY <1>0, <1>8, <2>1, <2>2 DEF ClockRead, Adjusts, End, Opening, JustSet
<1>9. CASE ClockReread
  BY <1>0, <1>9 DEF ClockReread, Opening, JustSet
<1>10. CASE ClockVerified
  <2>1. \A c \in Readings : c.off = "right" => c \in heard
    BY <1>0 DEF Readings, TypeOK, Clock
  <2>2. QED
    BY <1>0, <1>10, <2>1 DEF ClockVerified, Verified, End, Opening, JustSet
<1>11. CASE SetLands
  BY <1>0, <1>11 DEF SetLands, Opening, JustSet
<1>12. CASE SetLost
  BY <1>0, <1>12 DEF SetLost, Opening
<1>13. ASSUME NEW d \in Device, NEW r \in DOMAIN asked,
              Identified(d, r) \/ LogonReply(d, r)
              \/ QueryAnswered(d, r) \/ QueryError(d, r)
       PROVE  Clocking'
  <2>1. CASE Identified(d, r)
    BY <1>0, <2>1 DEF Identified, clockVars, Opening
  <2>2. CASE LogonReply(d, r)
    BY <1>0, <2>2 DEF LogonReply, OperationStarts, End, Opening
  <2>3. CASE QueryAnswered(d, r)
    BY <1>0, <2>3 DEF QueryAnswered, NextQuery, End, clockVars, Opening
  <2>4. CASE QueryError(d, r)
    BY <1>0, <2>4 DEF QueryError, End, clockVars, Opening
  <2>5. QED
    BY <1>13, <2>1, <2>2, <2>3, <2>4
<1>14. QED
  BY <1>1, <1>2, <1>3, <1>4, <1>5, <1>6, <1>7, <1>8, <1>9, <1>10, <1>11, <1>12,
     <1>13, Steps

\* Identification takes every inverter of the topology, and none twice.
LEMMA IdentificationKept ==
    ASSUME ClientInv, [Next]_vars PROVE Identification'
<1> USE DEF Identification, IdentifiedAll, Opening, Operating
<1>0. TypeOK /\ Phases /\ Identification
  BY DEF ClientInv
<1>1. CASE UNCHANGED vars
  BY <1>0, <1>1 DEF vars, found
<1>2. CASE Connect \/ SignalsRead \/ ClockReread \/ SetLands \/ SetLost
  BY <1>0, <1>2 DEF Connect, SignalsRead, ClockReread, SetLands, SetLost, found, TypeOK
<1>3. CASE StopSession \/ Again
  BY <1>0, <1>3 DEF StopSession, Again, found
<1>4. CASE Announced
  BY <1>0, <1>4 DEF Announced, End, Phases
<1>5. CASE TopologyKnown
  <2>1. devices = <<>> /\ devices' = <<>> /\ replies' = replies /\ replies = 0
    BY <1>0, <1>5 DEF TopologyKnown
  <2>2. stage' \in {"identify", "closed"}
    BY <1>0, <1>5 DEF TopologyKnown, End, Phases
  <2>3. /\ ToSet(devices') = {} /\ IsInjective(devices')
        /\ Cardinality(ToSet(devices')) = Len(devices')
    BY <2>1, FS_EmptySet DEF ToSet, IsInjective
  <2>4. QED
    BY <2>1, <2>2, <2>3
<1>6. CASE QueryTimeout
  BY <1>0, <1>6 DEF QueryTimeout, End, found
<1>7. CASE QueryLinkLost \/ LinkLost \/ Garbled
  BY <1>0, <1>7 DEF QueryLinkLost, LinkLost, Garbled, End, found, Phases
<1>8. CASE ClockRead
  BY <1>0, <1>8 DEF ClockRead, End, found, Phases
<1>9. CASE ClockVerified
  BY <1>0, <1>9 DEF ClockVerified, End, found, Phases
<1>10. ASSUME NEW d \in Device, NEW r \in DOMAIN asked,
              Identified(d, r) \/ LogonReply(d, r)
              \/ QueryAnswered(d, r) \/ QueryError(d, r)
       PROVE  Identification'
  <2>1. CASE Identified(d, r)
    <3>1. /\ devices \in Seq(Device) /\ IsInjective(devices)
          /\ d \in Device \ ToSet(devices)
          /\ Cardinality(ToSet(devices)) = Len(devices)
          /\ devices' = Append(devices, d)
      BY <1>0, <2>1 DEF Identified, TypeOK
    <3>2. /\ devices' # <<>> /\ ToSet(devices') = ToSet(devices) \cup {d}
          /\ IsInjective(devices')
          /\ Cardinality(ToSet(devices')) = Len(devices')
      BY <3>1, OneMore
    <3>3. /\ topology' = topology /\ ToSet(devices') \in SUBSET topology
          /\ replies' = 0
      BY <1>0, <2>1, <3>2 DEF Identified
    <3>4. IsFiniteSet(topology)
      BY <1>0, FS_Subset DEF TypeOK
    <3>5. Len(devices') = Cardinality(topology) => ToSet(devices') = topology
      BY <3>2, <3>3, <3>4, FS_Subset
    <3>6. \/ stage' = "signal" /\ Len(devices') = Cardinality(topology)
          \/ stage' = "identify"
      BY <2>1 DEF Identified
    <3>7. QED
      BY <3>2, <3>3, <3>5, <3>6
  <2>2. CASE LogonReply(d, r)
    <3>1. /\ stage = "logon" /\ UNCHANGED <<devices, topology>>
          /\ \/ stage' \in {"query", "clock", "logoff", "closed"}
             \/ /\ stage' = stage /\ replies' = replies + 1
                /\ replies' # Len(devices)
      BY <2>2 DEF LogonReply, OperationStarts, End, found
    <3>2. replies \in Nat /\ Len(devices) \in Nat /\ replies < Len(devices)
      BY <1>0, <3>1 DEF TypeOK
    <3>3. ToSet(devices) = topology /\ IsInjective(devices) /\ devices # <<>>
      BY <1>0, <3>1
    <3>4. QED
      BY <3>1, <3>2, <3>3
  <2>3. CASE QueryAnswered(d, r)
    BY <1>0, <2>3 DEF QueryAnswered, NextQuery, End, found
  <2>4. CASE QueryError(d, r)
    BY <1>0, <2>4 DEF QueryError, End, found
  <2>5. QED
    BY <1>10, <2>1, <2>2, <2>3, <2>4
<1>11. QED
  BY <1>1, <1>2, <1>3, <1>4, <1>5, <1>6, <1>7, <1>8, <1>9, <1>10, Steps

\* The answer of the current query: what is answered by then, and the request
\* that follows, or the end.
LEMMA AnswerKept ==
    ASSUME ClientInv, NEW d \in Device, NEW r \in DOMAIN asked,
           QueryAnswered(d, r)
    PROVE  /\ got' \in [Device -> SUBSET (1 .. Classes)]
           /\ position' \in 0 .. Classes * Len(devices)
           /\ asked' \in Seq(Request)
           /\ Querying'
<1> DEFINE last == Classes * Len(devices)
           answered == got[d] \cup {QueryClass(position)}
<1>0. TypeOK /\ Phases /\ Identification /\ Querying /\ stage = "query"
  BY DEF ClientInv, QueryAnswered
<1>1. /\ position \in Nat /\ last \in Nat /\ position < last
      /\ operation # "clock"
  BY <1>0 DEF TypeOK, Querying
<1>2. /\ devices' = devices /\ topology' = topology /\ operation' = operation
      /\ position' = position + 1 /\ NextQuery
      /\ d = QueryDevice(position) /\ r = Len(asked)
  BY DEF QueryAnswered, NextQuery, found, call, FromRequest, request_id
<1>3. asked[r].class = QueryClass(position)
  BY <1>0, <1>2 DEF Querying
<1>4. got' = [got EXCEPT ![d] = answered]
  BY <1>3 DEF QueryAnswered
<1>5. QueryClass(position) \in 1 .. Classes
  BY <1>0, <1>1, QueryFacts
<1>6. got' \in [Device -> SUBSET (1 .. Classes)]
  BY <1>0, <1>4, <1>5 DEF TypeOK
<1>7. position' \in 0 .. last /\ position' \in Nat
  BY <1>1, <1>2
<1>8. \A n \in 0 .. position : QueryClass(n) \in got'[QueryDevice(n)]
  <2> SUFFICES ASSUME NEW n \in 0 .. position
               PROVE  QueryClass(n) \in got'[QueryDevice(n)]
    OBVIOUS
  <2>1. n \in Nat /\ n < last
    BY <1>1
  <2>2. QueryDevice(n) \in Device
    BY <1>0, <2>1, QueryFacts
  <2>3. CASE n = position
    BY <1>0, <1>2, <1>4, <2>2, <2>3 DEF TypeOK
  <2>4. CASE n # position
    <3>1. QueryClass(n) \in got[QueryDevice(n)]
      BY <1>0, <1>1, <2>4 DEF Querying
    <3>2. QED
      BY <1>0, <1>4, <2>2, <3>1 DEF TypeOK
  <2>5. QED
    BY <2>3, <2>4
<1>9. CASE position' = last
  <2>1. error' = "ok" /\ stage' = "logoff" /\ asked' = asked
    BY <1>0, <1>2, <1>9 DEF NextQuery, QueriesDone, End, Phases, Operating
  <2>2. \A e \in topology : got'[e] = 1 .. Classes
    <3> SUFFICES ASSUME NEW e \in topology PROVE got'[e] = 1 .. Classes
      OBVIOUS
    <3>1. e \in ToSet(devices) /\ e \in Device
      BY <1>0 DEF Identification, IdentifiedAll, TypeOK
    <3>2. ASSUME NEW c \in 1 .. Classes PROVE c \in got'[e]
      <4>1. PICK n \in 0 .. last - 1 : QueryClass(n) = c /\ QueryDevice(n) = e
        BY <1>0, <3>1, QueriesCover
      <4>2. n \in 0 .. position
        BY <1>1, <1>2, <1>9
      <4>3. QED
        BY <1>8, <4>1, <4>2
    <3>3. got'[e] \subseteq 1 .. Classes
      BY <1>6, <3>1
    <3>4. QED
      BY <3>2, <3>3
  <2>3. Querying'
    BY <1>2, <2>1, <2>2 DEF Querying, Opening, CompleteOnSuccess
  <2>4. QED
    BY <1>0, <1>6, <1>7, <1>2, <2>1, <2>3 DEF TypeOK
<1>10. CASE position' # last
  <2>1. position' < last
    BY <1>7, <1>10
  <2> DEFINE class == QueryClass(position + 1)
             to == {QueryDevice(position + 1)}
  <2>2. Ask(operation, class, to) /\ stage' = stage /\ error' = error
    BY <1>2, <1>10 DEF NextQuery, QueriesDone
  <2>3. class \in 1 .. Classes /\ to \in SUBSET Device
    <3>1. position + 1 \in Nat /\ position + 1 < last
      BY <1>1, <1>2, <2>1
    <3>2. QED
      BY <1>0, <3>1, QueryFacts
  <2>4. /\ asked' \in Seq(Request) /\ asked' # <<>>
        /\ asked'[Len(asked')].class = QueryClass(position)'
    <3>1. QueryClass(position)' = class
      BY <1>2 DEF QueryClass
    <3> HIDE DEF class, to
    <3>2. class \in 0 .. Classes /\ operation \in Operations
      BY <1>0, <2>3 DEF TypeOK
    <3>3. /\ asked' \in Seq(Request) /\ asked' # <<>>
          /\ asked'[Len(asked')].class = class
      BY <1>0, <2>2, <2>3, <3>2, AskEffect
    <3>4. QED
      BY <3>1, <3>3
  <2>5. \A n \in 0 .. position' - 1 : QueryClass(n)' \in got'[QueryDevice(n)']
    <3> SUFFICES ASSUME NEW n \in 0 .. position' - 1
                 PROVE  QueryClass(n)' \in got'[QueryDevice(n)']
      OBVIOUS
    <3>1. n \in 0 .. position
      BY <1>1, <1>2
    <3>2. QueryClass(n)' = QueryClass(n) /\ QueryDevice(n)' = QueryDevice(n)
      BY <1>2 DEF QueryClass, QueryDevice
    <3>3. QED
      BY <1>8, <3>1, <3>2
  <2>6. error = "none"
    BY <1>0 DEF Phases
  <2>7. Querying'
    BY <1>0, <1>1, <1>2, <2>1, <2>2, <2>4, <2>5, <2>6
    DEF Querying, Opening, CompleteOnSuccess
  <2>8. QED
    BY <1>6, <1>7, <2>4, <2>7
<1>11. QED
  BY <1>9, <1>10

\* The queries answered so far, for every step.
LEMMA QueryingKept ==
    ASSUME ClientInv, [Next]_vars PROVE Querying'
<1>0. TypeOK /\ Phases /\ Identification /\ Querying
  BY DEF ClientInv
<1>1. CASE UNCHANGED vars \/ SetLands \/ SetLost
  BY <1>0, <1>1
  DEF vars, call, found, reading, outcome, SetLands, SetLost, Querying, Opening,
      CompleteOnSuccess, QueryClass, QueryDevice
<1>2. CASE Connect \/ SignalsRead \/ StopSession \/ Again
  BY <1>0, <1>2
  DEF Connect, SignalsRead, StopSession, Again, call, found, reading, outcome,
      Querying, Opening, CompleteOnSuccess
<1>3. CASE Announced \/ TopologyKnown
  BY <1>0, <1>3
  DEF Announced, TopologyKnown, End, call, reading, Phases, Querying, Opening,
      CompleteOnSuccess
<1>4. CASE QueryTimeout
  <2>1. CASE retry < 2
    <3>1. /\ Ask("query", QueryClass(position), {QueryDevice(position)})
          /\ UNCHANGED <<stage, error, operation, devices, topology, position, got>>
          /\ stage = "query"
      BY <1>4, <2>1 DEF QueryTimeout, call, found
    <3>2. position \in Nat /\ position < Classes * Len(devices)
      BY <1>0, <3>1 DEF TypeOK, Querying
    <3>3. QueryClass(position) \in 0 .. Classes /\ QueryDevice(position) \in Device
      BY <1>0, <3>2, QueryFacts
    <3>4. asked' # <<>> /\ asked'[Len(asked')].class = QueryClass(position)
      BY <1>0, <3>1, <3>3, AskEffect DEF Operations
    <3>5. QED
      BY <1>0, <3>1, <3>4
      DEF Querying, Opening, CompleteOnSuccess, QueryClass, QueryDevice
  <2>2. CASE ~(retry < 2)
    BY <1>0, <1>4, <2>2
    DEF QueryTimeout, End, call, found, Querying, Opening, CompleteOnSuccess
  <2>3. QED
    BY <2>1, <2>2
<1>5. CASE QueryLinkLost \/ LinkLost \/ Garbled
  BY <1>0, <1>5
  DEF QueryLinkLost, LinkLost, Garbled, End, call, found, reading, Querying,
      Opening, CompleteOnSuccess
<1>6. CASE ClockRead \/ ClockReread \/ ClockVerified
  BY <1>0, <1>6
  DEF ClockRead, ClockReread, ClockVerified, End, call, found, reading, outcome,
      Querying, Opening, CompleteOnSuccess
<1>7. ASSUME NEW d \in Device, NEW r \in DOMAIN asked,
             Identified(d, r) \/ LogonReply(d, r)
             \/ QueryAnswered(d, r) \/ QueryError(d, r)
      PROVE  Querying'
  <2>1. CASE Identified(d, r)
    BY <1>0, <2>1
    DEF Identified, call, reading, outcome, Phases, Querying, Opening,
        CompleteOnSuccess
  <2>2. CASE LogonReply(d, r) /\ stage' = "query"
    <3>1. /\ stage = "logon"
          /\ Ask(operation, QueryClass(0), {QueryDevice(0)})
          /\ operation # "clock"
          /\ UNCHANGED <<operation, topology, devices, position, got, error>>
      BY <2>2 DEF LogonReply, OperationStarts, End, call, found, reading
    <3>2. position = 0 /\ devices \in Seq(Device) /\ devices # <<>>
      BY <1>0, <3>1 DEF Querying, Opening, Identification, TypeOK
    <3>3. Len(devices) \in Nat \ {0}
      BY <3>2
    <3>4. 0 < Classes * Len(devices)
      BY <3>3
    <3>5. QueryClass(0) \in 0 .. Classes /\ QueryDevice(0) \in Device
      BY <1>0, <3>4, QueryFacts
    <3>6. asked' # <<>> /\ asked'[Len(asked')].class = QueryClass(0)
      <4>1. TypeOK /\ operation \in Operations
        BY <1>0 DEF TypeOK
      <4>2. QED
        BY <3>1, <3>5, <4>1, AskEffect
    <3>7. QED
      BY <1>0, <2>2, <3>1, <3>2, <3>4, <3>6
      DEF Querying, Opening, CompleteOnSuccess, QueryClass
  <2>3. CASE LogonReply(d, r) /\ stage' # "query"
    BY <1>0, <2>3
    DEF LogonReply, OperationStarts, End, call, found, reading, Phases,
        Querying, Opening, CompleteOnSuccess
  <2>4. CASE QueryAnswered(d, r)
    BY <2>4, AnswerKept
  <2>5. CASE QueryError(d, r)
    BY <1>0, <2>5
    DEF QueryError, End, call, found, reading, Querying, Opening,
        CompleteOnSuccess
  <2>6. QED
    BY <1>7, <2>1, <2>2, <2>3, <2>4, <2>5
<1>8. QED
  BY <1>1, <1>2, <1>3, <1>4, <1>5, <1>6, <1>7, Steps

\* Types, for every step.
LEMMA TypesKept ==
    ASSUME ClientInv, [Next]_vars PROVE TypeOK'
<1> USE DEF Stages, Errors
<1>0. TypeOK /\ Phases /\ Identification /\ Querying
  BY DEF ClientInv
<1>1. Classes * Len(devices) \in Nat /\ Len(devices) \in Nat
  BY <1>0 DEF TypeOK
<1>2. CASE UNCHANGED vars
  BY <1>0, <1>2 DEF TypeOK, vars, call, found, reading, outcome, clockVars
<1>3. CASE Connect
  BY <1>0, <1>3 DEF TypeOK, Connect, call, found, reading, outcome, clockVars
<1>4. CASE Announced
  BY <1>0, <1>4 DEF TypeOK, Announced, End, call, reading, clockVars
<1>5. CASE TopologyKnown
  <2>1. topology' \in SUBSET Device
    BY <1>5 DEF TopologyKnown
  <2>2. asked' \in Seq(Request)
    <3>1. CASE asked' = asked
      BY <1>0, <3>1 DEF TypeOK
    <3>2. CASE Ask("identify", 0, Device)
      BY <1>0, <3>2, AskEffect
    <3>3. QED
      BY <1>5, <3>1, <3>2 DEF TopologyKnown
  <2>3. QED
    BY <1>0, <1>5, <2>1, <2>2 DEF TypeOK, TopologyKnown, End, call, reading, clockVars
<1>6. CASE SignalsRead
  <2>1. asked' \in Seq(Request)
    <3>1. Ask("logon", 0, Device) /\ 0 \in 0 .. Classes
      BY <1>6 DEF SignalsRead
    <3>2. QED
      BY <1>0, <3>1, AskEffect
  <2>2. QED
    BY <1>0, <1>6, <2>1
    DEF TypeOK, SignalsRead, call, found, reading, outcome, clockVars
<1>7. CASE QueryTimeout
  <2>1. asked' \in Seq(Request)
    <3>1. position \in Nat /\ position < Classes * Len(devices)
      BY <1>0, <1>7 DEF TypeOK, Querying, QueryTimeout
    <3>2. QueryClass(position) \in 0 .. Classes /\ QueryDevice(position) \in Device
      BY <1>0, <3>1, QueryFacts
    <3>3. CASE asked' = asked
      BY <1>0, <3>3 DEF TypeOK
    <3>4. CASE Ask("query", QueryClass(position), {QueryDevice(position)})
      BY <1>0, <3>2, <3>4, AskEffect DEF Operations
    <3>5. QED
      BY <1>7, <3>3, <3>4 DEF QueryTimeout
  <2>2. retry' \in 0 .. 2 /\ cut' \in BOOLEAN /\ link_lost' \in BOOLEAN
    <3>1. retry \in 0 .. 2 /\ cut \in BOOLEAN
      BY <1>0 DEF TypeOK
    <3>2. retry' \in 0 .. 2
      BY <1>7, <3>1 DEF QueryTimeout
    <3>3. cut' \in BOOLEAN /\ link_lost' \in BOOLEAN
      BY <1>7, <3>1 DEF QueryTimeout
    <3>4. QED
      BY <3>2, <3>3
  <2>3. stage' \in Stages /\ error' \in Errors
    BY <1>0, <1>7 DEF TypeOK, QueryTimeout, End
  <2>4. UNCHANGED <<call, found, replies, active, position, got, clockVars>>
    BY <1>7 DEF QueryTimeout
  <2>5. QED
    BY <1>0, <2>1, <2>2, <2>3, <2>4 DEF TypeOK, call, found, clockVars
<1>8. CASE QueryLinkLost \/ LinkLost \/ Garbled
  BY <1>0, <1>8
  DEF TypeOK, QueryLinkLost, LinkLost, Garbled, End, call, found, reading, clockVars
<1>9. CASE ClockRead
  <2>1. asked' \in Seq(Request)
    <3>1. CASE asked' = asked
      BY <1>0, <3>1 DEF TypeOK
    <3>2. CASE Ask("set", 0, Device)
      BY <1>0, <3>2, AskEffect
    <3>3. QED
      BY <1>9, <3>1, <3>2 DEF ClockRead
  <2>2. /\ stage' \in Stages /\ error' \in Errors /\ reason' \in Reasons
        /\ in_flight' \in BOOLEAN
    BY <1>0, <1>9 DEF TypeOK, ClockRead, End, Reasons
  <2>3. UNCHANGED <<call, found, replies, active, reading, link_lost, clock, heard>>
    BY <1>9 DEF ClockRead
  <2>4. QED
    BY <1>0, <2>1, <2>2, <2>3 DEF TypeOK, call, found, reading
<1>10. CASE ClockReread
  <2>1. asked' \in Seq(Request)
    BY <1>0, <1>10, AskEffect DEF ClockReread, Operations
  <2>2. heard' \in SUBSET Clock
    BY <1>0, <1>10 DEF TypeOK, ClockReread
  <2>3. QED
    BY <1>0, <1>10, <2>1, <2>2 DEF TypeOK, ClockReread, call, found, reading, outcome
<1>11. CASE ClockVerified
  BY <1>0, <1>11 DEF TypeOK, ClockVerified, End, Reasons, call, found, reading
<1>12. CASE SetLands
  <2>1. clock' \in Clock
    BY <1>12 DEF SetLands, Clock
  <2>2. heard' \in SUBSET Clock
    BY <1>0, <1>12, <2>1 DEF TypeOK, SetLands
  <2>3. QED
    BY <1>0, <1>12, <2>1, <2>2 DEF TypeOK, SetLands, call, found, reading, outcome
<1>13. CASE SetLost
  BY <1>0, <1>13 DEF TypeOK, SetLost, call, found, reading, outcome
<1>14. CASE StopSession
  <2>1. asked' \in Seq(Request)
    BY <1>0, <1>14, AskEffect DEF StopSession, TypeOK
  <2>2. QED
    BY <1>0, <1>14, <2>1 DEF TypeOK, StopSession, call, found, reading, outcome, clockVars
<1>15. CASE Again
  <2>1. /\ devices' = <<>> /\ asked' = <<>> /\ replies' = 0 /\ position' = 0
        /\ retry' = 0 /\ net_id' = 0 /\ topology' = {} /\ heard' = {}
        /\ attempt' \in 1 .. Attempts
    BY <1>0, <1>15 DEF TypeOK, Again
  <2>2. replies' \in 0 .. Len(devices') /\ position' \in 0 .. Classes * Len(devices')
    BY <2>1
  <2>3. got' \in [Device -> SUBSET (1 .. Classes)]
    BY <1>15 DEF Again
  <2>4. devices' \in Seq(Device) /\ asked' \in Seq(Request)
    BY <2>1
  <2>5. active' \in BOOLEAN /\ cut' \in BOOLEAN /\ link_lost' \in BOOLEAN
    BY <1>15 DEF Again
  <2>6. stage' \in Stages /\ error' \in Errors /\ reason' \in Reasons
    BY <1>15 DEF Again, Reasons
  <2>7. UNCHANGED <<operation, mode, clock, in_flight>>
    BY <1>15 DEF Again
  <2>8. retry' \in 0 .. 2 /\ net_id' \in 0 .. 2 /\ topology' \in SUBSET Device
        /\ heard' \in SUBSET Clock
    BY <2>1
  <2>9. QED
    BY <1>0, <2>1, <2>2, <2>3, <2>4, <2>5, <2>6, <2>7, <2>8 DEF TypeOK
<1>16. ASSUME NEW d \in Device, NEW r \in DOMAIN asked,
              Identified(d, r) \/ LogonReply(d, r)
              \/ QueryAnswered(d, r) \/ QueryError(d, r)
       PROVE  TypeOK'
  <2>1. CASE Identified(d, r)
    <3>1. devices' \in Seq(Device)
      BY <1>0, <2>1 DEF TypeOK, Identified
    <3>2. replies' = 0 /\ position' = 0
      BY <1>0, <2>1 DEF Identified, reading, Identification, Querying, Opening
    <3>3. replies' \in 0 .. Len(devices') /\ position' \in 0 .. Classes * Len(devices')
      BY <3>1, <3>2
    <3>4. asked' \in Seq(Request)
      <4>1. CASE asked' = asked
        BY <1>0, <4>1 DEF TypeOK
      <4>2. CASE Ask("logoff", 0, {})
        BY <1>0, <4>2, AskEffect
      <4>3. QED
        BY <2>1, <4>1, <4>2 DEF Identified
    <3>5. QED
      BY <1>0, <2>1, <3>1, <3>3, <3>4
      DEF TypeOK, Identified, call, reading, outcome, clockVars
  <2>2. CASE LogonReply(d, r)
    <3>1. stage = "logon" /\ devices' = devices /\ position' = position
      BY <2>2 DEF LogonReply, found, reading
    <3>2. replies' \in 0 .. Len(devices)
      BY <1>0, <1>1, <2>2, <3>1 DEF LogonReply, TypeOK, Identification
    <3>3. asked' \in Seq(Request)
      <4>1. CASE asked' = asked
        BY <1>0, <4>1 DEF TypeOK
      <4>2. CASE Ask("clock", 0, Device)
        BY <1>0, <4>2, AskEffect DEF Operations
      <4>3. CASE Ask(operation, QueryClass(0), {QueryDevice(0)})
        <5>1. devices \in Seq(Device) /\ devices # <<>>
          BY <1>0, <3>1 DEF Identification, TypeOK
        <5>2. Len(devices) \in Nat \ {0}
          BY <5>1
        <5>3. 0 < Classes * Len(devices)
          BY <5>2
        <5>4. QueryClass(0) \in 0 .. Classes /\ QueryDevice(0) \in Device
          BY <1>0, <5>3, QueryFacts
        <5>5. operation \in Operations /\ {QueryDevice(0)} \in SUBSET Device
          BY <1>0, <5>4 DEF TypeOK
        <5>6. QED
          BY <1>0, <4>3, <5>4, <5>5, AskEffect
      <4>4. QED
        BY <2>2, <4>1, <4>2, <4>3 DEF LogonReply, OperationStarts
    <3>4. stage' \in Stages /\ error' \in Errors /\ active' \in BOOLEAN
      BY <1>0, <2>2 DEF LogonReply, OperationStarts, End, TypeOK
    <3>5. heard' \in SUBSET Clock
      BY <1>0, <2>2 DEF LogonReply, OperationStarts, TypeOK
    <3>6. UNCHANGED <<call, found, reading, link_lost, clock, in_flight, reason>>
      BY <2>2 DEF LogonReply
    <3>7. QED
      BY <1>0, <3>2, <3>3, <3>4, <3>5, <3>6 DEF TypeOK, call, found, reading
  <2>3. CASE QueryAnswered(d, r)
    <3>1. /\ got' \in [Device -> SUBSET (1 .. Classes)]
          /\ position' \in 0 .. Classes * Len(devices)
          /\ asked' \in Seq(Request)
      BY <2>3, AnswerKept
    <3>2. retry' = 0 /\ stage' \in Stages /\ error' \in Errors
      BY <1>0, <2>3 DEF QueryAnswered, NextQuery, End, TypeOK
    <3>3. UNCHANGED <<call, found, replies, active, cut, link_lost, clockVars>>
      BY <2>3 DEF QueryAnswered
    <3>4. QED
      BY <1>0, <3>1, <3>2, <3>3 DEF TypeOK, call, found, clockVars
  <2>4. CASE QueryError(d, r)
    BY <1>0, <2>4 DEF TypeOK, QueryError, End, call, found, reading, clockVars
  <2>5. QED
    BY <1>16, <2>1, <2>2, <2>3, <2>4
<1>17. QED
  BY <1>2, <1>3, <1>4, <1>5, <1>6, <1>7, <1>8, <1>9, <1>10, <1>11, <1>12, <1>13,
     <1>14, <1>15, <1>16, Steps

\* Every step keeps the invariant.
LEMMA ClientNextInv ==
    ASSUME ClientInv, [Next]_vars PROVE ClientInv'
BY TypesKept, PhasesKept, IdentificationKept, QueryingKept, ClockingKept
DEF ClientInv

-----------------------------------------------------------------------------
(* The theorems.                                                           *)

\* The inductive invariant holds in every call.
THEOREM ClientInvariant == Spec => []ClientInv
<1>1. Init => ClientInv
  BY ClientInitInv
<1>2. ClientInv /\ [Next]_vars => ClientInv'
  BY ClientNextInv
<1>3. QED
  BY <1>1, <1>2, PTL DEF Spec

\* The client's attributes and its requests keep their types.
THEOREM ClientTypeCorrect == Spec => []TypeOK
<1>1. ClientInv => TypeOK
  BY DEF ClientInv
<1>2. QED
  BY <1>1, ClientInvariant, PTL

\* Plants of any size: past identification every inverter of the topology is
\* in self.devices, once.
THEOREM ClientIdentifiedAll == Spec => []IdentifiedAll
<1>1. ClientInv => IdentifiedAll
  BY DEF ClientInv, Identification
<1>2. QED
  BY <1>1, ClientInvariant, PTL

\* Any number of inverters and of classes: a session that reports success has
\* read every class of every inverter to the end.
THEOREM ClientCompleteOnSuccess == Spec => []CompleteOnSuccess
<1>1. ClientInv => CompleteOnSuccess
  BY DEF ClientInv, Querying
<1>2. QED
  BY <1>1, ClientInvariant, PTL

\* "adjusted" is only said of the time this call set.
THEOREM ClientAdjustedIsVerified == Spec => []AdjustedIsVerified
<1>1. ClientInv => AdjustedIsVerified
  BY DEF ClientInv, Clocking
<1>2. QED
  BY <1>1, ClientInvariant, PTL

\* What WrittenOnce asks of one step.
WrittenStep == clock' # clock => clock.off = "wrong" /\ ~clock.recent

\* Only the landing command changes the clock, and it is in flight then.
LEMMA NextWrites ==
    ASSUME ClientInv, [Next]_vars PROVE WrittenStep
<1>1. CASE SetLands
  BY <1>1 DEF SetLands, WrittenStep, ClientInv, Clocking
<1>2. CASE ~SetLands
  <2>1. clock' = clock
    BY <1>2, Steps
    DEF vars, clockVars, Connect, Announced, TopologyKnown, SignalsRead,
        Identified, LogonReply, QueryAnswered, QueryError, QueryTimeout,
        QueryLinkLost, LinkLost, Garbled, ClockRead, ClockReread,
        ClockVerified, SetLost, StopSession, Again
  <2>2. QED
    BY <2>1 DEF WrittenStep
<1>3. QED
  BY <1>1, <1>2

\* The plant clock is written only while it is off by what is safe to correct
\* and was not set lately, over any number of attempts.
THEOREM ClientWrittenOnce == Spec => WrittenOnce
<1>1. ClientInv /\ [Next]_vars => [WrittenStep]_vars
  BY NextWrites
<1>2. QED
  BY <1>1, ClientInvariant, PTL DEF Spec, WrittenOnce, WrittenStep

\* The phase that the refinement maps a stage to.
PhaseOf(s) ==
    IF s \in Operating THEN "operating"
    ELSE IF s = "logoff" THEN "closing"
    ELSE IF s = "closed" THEN "ended"
    ELSE "opening"

ViewPhase ==
    CASE stage \in {"query", "clock", "setting", "verify"} -> "operating"
      [] stage = "logoff" -> "closing"
      [] stage = "closed" -> "ended"
      [] OTHER            -> "opening"

\* Both ways to write the mapping agree.
LEMMA PhaseIs == ViewPhase = PhaseOf(stage)
BY DEF ViewPhase, PhaseOf, Operating

ViewStep ==
    \/ /\ PhaseOf(stage) = "opening" /\ PhaseOf(stage') = "operating"
       /\ error' = error
    \/ /\ PhaseOf(stage) = "opening" /\ PhaseOf(stage') = "ended"
       /\ error' \in {"transport", "protocol", "auth", "config"}
    \/ /\ PhaseOf(stage) = "operating" /\ PhaseOf(stage') = "closing"
       /\ error' \in {"transport", "protocol", "auth", "config", "ok"}
    \/ /\ PhaseOf(stage) = "closing" /\ PhaseOf(stage') = "ended"
       /\ error' = error
    \/ /\ PhaseOf(stage) = "ended" /\ PhaseOf(stage') = "opening"
       /\ error \in {"transport", "protocol"} /\ error' = "none"
    \/ PhaseOf(stage') = PhaseOf(stage) /\ error' = error

\* Every step of a client is a step of the gate's view of it, or none.
LEMMA NextViews ==
    ASSUME ClientInv, [Next]_vars PROVE ViewStep
<1> USE DEF PhaseOf, Operating
<1>0. TypeOK /\ Phases
  BY DEF ClientInv
<1>1. CASE UNCHANGED vars \/ SetLands \/ SetLost
  BY <1>1 DEF vars, outcome, SetLands, SetLost, ViewStep
<1>2. CASE Connect \/ SignalsRead \/ ClockReread
  BY <1>2 DEF Connect, SignalsRead, ClockReread, outcome, ViewStep
<1>3. CASE StopSession \/ Again
  BY <1>3 DEF StopSession, Again, outcome, ViewStep
<1>4. CASE Announced \/ TopologyKnown
  BY <1>0, <1>4 DEF Announced, TopologyKnown, End, Phases, ViewStep
<1>5. CASE QueryTimeout \/ QueryLinkLost
  BY <1>0, <1>5 DEF QueryTimeout, QueryLinkLost, End, Phases, ViewStep
<1>6. CASE LinkLost \/ Garbled
  BY <1>0, <1>6 DEF LinkLost, Garbled, End, Phases, ViewStep, TypeOK, Stages
<1>7. CASE ClockRead
  BY <1>0, <1>7 DEF ClockRead, End, Phases, ViewStep
<1>8. CASE ClockVerified
  BY <1>0, <1>8 DEF ClockVerified, End, Phases, ViewStep
<1>9. ASSUME NEW d \in Device, NEW r \in DOMAIN asked,
             Identified(d, r) \/ LogonReply(d, r)
             \/ QueryAnswered(d, r) \/ QueryError(d, r)
      PROVE  ViewStep
  <2>1. CASE Identified(d, r)
    BY <2>1 DEF Identified, outcome, ViewStep
  <2>2. CASE LogonReply(d, r)
    BY <1>0, <2>2 DEF LogonReply, OperationStarts, End, Phases, ViewStep
  <2>3. CASE QueryAnswered(d, r)
    BY <1>0, <2>3 DEF QueryAnswered, NextQuery, End, Phases, ViewStep
  <2>4. CASE QueryError(d, r)
    BY <1>0, <2>4 DEF QueryError, End, Phases, ViewStep
  <2>5. QED
    BY <1>9, <2>1, <2>2, <2>3, <2>4
<1>10. QED
  BY <1>1, <1>2, <1>3, <1>4, <1>5, <1>6, <1>7, <1>8, <1>9, Steps

\* A client is what the gate takes it for: a logoff only after authentication,
\* one result, fixed before the logoff.
THEOREM ClientImplementsView == Spec => ImplementsView
<1>1. Init => View!ViewInit
  BY DEF Init, View!ViewInit
<1>2. ClientInv /\ [Next]_vars => [View!ViewNext]_View!view
  <2> SUFFICES ASSUME ClientInv, [Next]_vars
               PROVE  [View!ViewNext]_View!view
    OBVIOUS
  <2>1. ViewStep /\ ViewPhase = PhaseOf(stage) /\ ViewPhase' = PhaseOf(stage')
    BY NextViews, PhaseIs DEF ViewPhase, PhaseOf, Operating
  <2>2. QED
    BY <2>1
    DEF ViewStep, ViewPhase, View!ViewNext, View!view, View!Opens,
        View!FailsToOpen, View!Finishes, View!LogsOff, View!Repeats,
        View!Failures
<1>3. QED
  BY <1>1, <1>2, ClientInvariant, PTL DEF Spec, ImplementsView, View!ViewSpec
=============================================================================
