-------------------------- MODULE ConfigTypeProofs --------------------------
(***************************************************************************)
(* The type invariant of ConfigFlow: what an entry, the coordinator built  *)
(* from it, a flow and the session on the radio hold always fits together. *)
(***************************************************************************)
EXTENDS ConfigFlowProofs, FiniteSetTheorems

USE ConfigAssumption

Address == Serial \cup {None}
AnyMode == Mode \cup {"network"}
AnyNet == NetId \cup {None}

\* What a session can find: unless it is refused, some inverter answers.
Result ==
    {p \in [net : NetId, eff : {"refused", "single", "network"}, serials : SUBSET Serial] :
        p.eff # "refused" => p.serials # {}}

\* A coordinator at work was built from an entry that has an address.
EntriesTyped ==
    \A e \in Entry :
        /\ entry[e].addr \in Address /\ entry[e].mode \in AnyMode
        /\ entry[e].net \in AnyNet /\ entry[e].sel \in Address
        /\ entry[e].known \subseteq Serial
        /\ Exists(e) => entry[e].addr # None
CopiesTyped ==
    /\ copy \in [Entry -> [addr : Address, mode : AnyMode, net : AnyNet, sel : Address]]
    /\ \A e \in Entry : state[e] \in {"setup", "loaded", "unpolled"} => copy[e].addr # None

\* What waits for a confirmation is the result of a session to an inverter.
Record ==
    [step : {"none", "discover", "form", "probe", "confirm"},
     kind : {"none", "user", "reconfigure", "reauth"}, of : Entry \cup {None},
     want : [addr : Address, mode : AnyMode], probe : Result \cup {NoProbe}]
FlowsTyped ==
    /\ flow \in [Flow -> Record]
    /\ \A f \in Flow :
        /\ flow[f].step \in {"probe", "confirm"} => flow[f].want.addr # None
        /\ flow[f].step = "confirm" => flow[f].probe \in Result /\ flow[f].probe.eff # "refused"

\* The radio is held by an entry that polls or a flow that probes.
Holder(who) ==
    \/ who \in Entry /\ state[who] \in {"setup", "loaded"}
    \/ who \in Flow /\ flow[who].step = "probe"
RadioTyped ==
    ~Free => /\ radio = <<radio[1], radio[2], radio[3]>>
             /\ radio[2] \in Result /\ Holder(radio[1])
             /\ radio[1] \in Entry => radio[2].eff # "refused"

Registered ==
    /\ netid \in [Serial -> NetId]
    /\ issues \in [Entry -> SUBSET Kind]
    /\ reload \subseteq {e \in Entry : Exists(e)}

TypeInv ==
    /\ Shapes
    /\ EntriesTyped /\ CopiesTyped /\ FlowsTyped /\ RadioTyped /\ Registered

-----------------------------------------------------------------------------
(* Sessions.                                                               *)

LEMMA FoundIsResult ==
    ASSUME netid \in [Serial -> NetId], NEW addr \in Serial, NEW mode \in AnyMode,
           NEW found \in Found(addr, mode)
    PROVE  found \in Result
<1> DEFINE n == netid[addr]
           eff == _effective_mode(mode, n)
<1>1. n \in NetId /\ eff \in {"single", "network"}
  BY DEF _effective_mode
<1>2. CASE mode = "network" /\ n = 1
  BY <1>1, <1>2 DEF Found, Result
<1>3. CASE ~(mode = "network" /\ n = 1)
  <2>1. PICK S \in SUBSET Serial :
          found = [net |-> n, eff |-> eff, serials |-> S] /\ addr \in S
    BY <1>3 DEF Found
  <2>2. QED
    BY <1>1, <2>1 DEF Result
<1>4. QED
  BY <1>2, <1>3

LEMMA OpenedIs ==
    ASSUME NEW who, NEW found, Open(who, found)
    PROVE  /\ radio' = <<radio'[1], radio'[2], radio'[3]>>
           /\ radio'[1] = who /\ radio'[2] = found
BY DEF Open

\* Some inverter of a session that was not refused.
LEMMA OnlyOne ==
    ASSUME NEW p \in Result, p.eff # "refused"
    PROVE  Only(p.serials) \in Serial
BY DEF Result, Only

\* An entry that holds the radio has a coordinator, and no flow holds it too.
LEMMA HoldsFacts ==
    ASSUME TypeInv, NEW who, Holds(who)
    PROVE  /\ Session \in Result
           /\ who \in Entry => Session.eff # "refused" /\ state[who] \in {"setup", "loaded"}
           /\ who \in Flow => flow[who].step = "probe"
BY DEF TypeInv, RadioTyped, Holds, Session, Holder, Flow

LEMMA RefreshedEffect ==
    ASSUME Shapes, NEW e \in Entry, NEW failed \in {"unloaded", "error", "refused", "loaded"},
           Refreshed(e, failed), failed = "refused" => state[e] \in {"setup", "loaded"},
           CopiesTyped
    PROVE  radio' = NoOne /\ CopiesTyped'
<1>1. /\ state' = [state EXCEPT ![e] = IF state[e] = "setup" THEN failed
                                      ELSE IF failed = "refused" THEN "unpolled" ELSE state[e]]
      /\ copy' = [copy EXCEPT ![e] = IF state[e] = "setup" /\ failed # "loaded"
                                      THEN NoTopology ELSE copy[e]]
      /\ radio' = NoOne
  BY DEF Refreshed
<1>2. NoTopology \in [addr : Address, mode : AnyMode, net : AnyNet, sel : Address]
  BY DEF NoTopology, Address, AnyMode, AnyNet
<1>3. state \in [Entry -> State]
  BY DEF Shapes
<1>4. copy' \in [Entry -> [addr : Address, mode : AnyMode, net : AnyNet, sel : Address]]
  BY <1>1, <1>2 DEF CopiesTyped
<1>5. ASSUME NEW d \in Entry, state'[d] \in {"setup", "loaded", "unpolled"}
      PROVE  copy'[d].addr # None
  <2>1. CASE d # e
    BY <1>1, <1>3, <1>5, <2>1 DEF CopiesTyped
  <2>2. CASE d = e
    BY <1>1, <1>3, <1>5, <2>2 DEF CopiesTyped
  <2>3. QED
    BY <2>1, <2>2
<1>6. QED
  BY <1>1, <1>4, <1>5 DEF CopiesTyped

-----------------------------------------------------------------------------
(* Steps of an entry.                                                      *)

LEMMA EntryWritten ==
    ASSUME Shapes, EntriesTyped, NEW e \in Entry, NEW r, IsEntry(r),
           r.addr \in Address, r.mode \in AnyMode, r.net \in AnyNet, r.sel \in Address,
           r.known \subseteq Serial, Exists(e)' => r.addr # None,
           \A d \in Entry \ {e} : Exists(d)' => Exists(d),
           entry' = [entry EXCEPT ![e] = r]
    PROVE  EntriesTyped'
<1>1. entry'[e] = r /\ \A d \in Entry \ {e} : entry'[d] = entry[d]
  BY EntryReplaced
<1>2. ASSUME NEW d \in Entry
      PROVE  /\ entry'[d].addr \in Address /\ entry'[d].mode \in AnyMode
             /\ entry'[d].net \in AnyNet /\ entry'[d].sel \in Address
             /\ entry'[d].known \subseteq Serial
             /\ Exists(d)' => entry'[d].addr # None
  <2>1. CASE d = e
    BY <1>1, <2>1
  <2>2. CASE d # e
    BY <1>1, <2>2 DEF EntriesTyped
  <2>3. QED
    BY <2>1, <2>2
<1>3. QED
  BY <1>2 DEF EntriesTyped, Address, AnyMode, AnyNet

LEMMA EntryStepEntries ==
    ASSUME TypeInv, NEW e \in Entry, EntryStep(e)
    PROVE  EntriesTyped'
<1>0. /\ Shapes /\ EntriesTyped /\ IsEntry(entry[e])
      /\ entry[e].addr \in Address /\ entry[e].mode \in AnyMode
      /\ entry[e].net \in AnyNet /\ entry[e].sel \in Address
      /\ entry[e].known \subseteq Serial
      /\ Exists(e) => entry[e].addr # None
  BY DEF TypeInv, Shapes, EntriesTyped
<1>1. \A d \in Entry : Exists(d)' => Exists(d)
  BY <1>0, EntryStepEffect
<1>2. CASE Migrate(e)
  <2>1. PICK m \in {"network", "auto"}, s \in Address :
          entry' = [entry EXCEPT ![e] = WithMode(entry[e], m, s)]
    <3> DEFINE known == entry[e].known
               m0 == IF Cardinality(known) > 1 THEN "network" ELSE "auto"
               s0 == IF Cardinality(known) = 1 THEN Only(known) ELSE None
    <3>1. entry' = [entry EXCEPT ![e] = WithMode(entry[e], m0, s0)]
      BY <1>0, <1>2 DEF Migrate, Shapes, WithMode
    <3>2. Cardinality(known) = 1 => known # {}
      BY FS_EmptySet
    <3>3. s0 \in Address
      BY <1>0, <3>2 DEF Only, Address
    <3> HIDE DEF s0, known
    <3>4. QED
      BY <3>1, <3>3
  <2>2. m \in AnyMode
    BY DEF AnyMode
  <2> DEFINE r == WithMode(entry[e], m, s)
  <2>3. /\ IsEntry(r) /\ r.addr = entry[e].addr /\ r.mode = m /\ r.net = entry[e].net
        /\ r.sel = s /\ r.known = entry[e].known
    BY <1>0, ModeWritten
  <2> HIDE DEF r
  <2>4. QED
    BY <1>0, <1>1, <2>1, <2>2, <2>3, EntryWritten DEF r
<1>3. CASE SessionAccepted(e)
  <2>1. PICK n \in AnyNet, s \in Address : entry' = [entry EXCEPT ![e] = WithNet(entry[e], n, s)]
    <3> DEFINE n0 == IF copy[e].net = None THEN Session.net ELSE entry[e].net
               s0 == IF copy[e].sel = None /\ Session.eff = "single"
                     THEN Only(Session.serials) ELSE entry[e].sel
    <3>1. entry' = [entry EXCEPT ![e] = WithNet(entry[e], n0, s0)]
      BY <1>0, <1>3 DEF SessionAccepted, Learned, Shapes, WithNet
    <3>2. Session \in Result /\ Session.eff # "refused"
      BY <1>3, HoldsFacts DEF SessionAccepted
    <3>3. n0 \in AnyNet /\ s0 \in Address
      BY <1>0, <3>2, OnlyOne DEF Result, AnyNet, Address
    <3> HIDE DEF n0, s0
    <3>4. QED
      BY <3>1, <3>3
  <2> DEFINE r == WithNet(entry[e], n, s)
  <2>2. /\ IsEntry(r) /\ r.addr = entry[e].addr /\ r.mode = entry[e].mode /\ r.net = n
        /\ r.sel = s /\ r.known = entry[e].known
    BY <1>0, NetWritten
  <2> HIDE DEF r
  <2>3. QED
    BY <1>0, <1>1, <2>1, <2>2, EntryWritten DEF r
<1>4. CASE OperationEnds(e)
  <2>1. PICK k \in SUBSET Serial : entry' = [entry EXCEPT ![e] = WithKnown(entry[e], k)]
    <3>1. Session \in Result
      BY <1>4, HoldsFacts DEF OperationEnds
    <3>2. Session.serials \in SUBSET Serial
      BY <3>1 DEF Result
    <3>3. entry' = [entry EXCEPT ![e] = WithKnown(entry[e], Session.serials)]
      BY <1>0, <1>4 DEF OperationEnds, Shapes, WithKnown
    <3>4. QED
      BY <3>2, <3>3
  <2> DEFINE r == WithKnown(entry[e], k)
  <2>2. /\ IsEntry(r) /\ r.addr = entry[e].addr /\ r.mode = entry[e].mode
        /\ r.net = entry[e].net /\ r.sel = entry[e].sel /\ r.known = k
    BY <1>0, KnownWritten
  <2> HIDE DEF r
  <2>3. QED
    BY <1>0, <1>1, <2>1, <2>2, EntryWritten DEF r
<1>5. CASE Remove(e)
  <2>1. /\ entry' = [entry EXCEPT ![e] = Absent] /\ ~Exists(e)'
        /\ IsEntry(Absent)
    BY <1>0, <1>5 DEF Remove, Exists, Shapes, IsEntry, Absent
  <2>2. /\ Absent.addr \in Address /\ Absent.mode \in AnyMode /\ Absent.net \in AnyNet
        /\ Absent.sel \in Address /\ Absent.known \subseteq Serial
    BY DEF Absent, Address, AnyMode, AnyNet
  <2>3. QED
    BY <1>0, <1>1, <2>1, <2>2, EntryWritten
<1>6. CASE ~(Migrate(e) \/ SessionAccepted(e) \/ OperationEnds(e) \/ Remove(e))
  <2>1. entry' = entry
    BY <1>6
    DEF EntryStep, SetupStarts, SetupAtNight, Reload, PollFails, PollOpens,
        PollRefused, SessionStep, NetIdChangeSeen, OtherInverterSeen,
        OperationFails, UserReloads, PasswordRefused, entryVars
  <2>2. QED
    BY <1>0, <1>1, <2>1 DEF EntriesTyped, Address, AnyMode, AnyNet
<1>7. QED
  BY <1>2, <1>3, <1>4, <1>5, <1>6

\* What a coordinator is built from, and what it learns, has an address.
LEMMA TopologyTyped ==
    ASSUME TypeInv, NEW e \in Entry
    PROVE  /\ Topology(e) \in [addr : Address, mode : AnyMode, net : AnyNet, sel : Address]
           /\ Exists(e) => Topology(e).addr # None
           /\ NoTopology \in [addr : Address, mode : AnyMode, net : AnyNet, sel : Address]
BY DEF TypeInv, EntriesTyped, Topology, NoTopology, None, Address, AnyMode, AnyNet

LEMMA LearnedTyped ==
    ASSUME TypeInv, NEW e \in Entry, Holds(e)
    PROVE  /\ Learned(e, copy[e]) \in [addr : Address, mode : AnyMode, net : AnyNet, sel : Address]
           /\ Learned(e, copy[e]).addr = copy[e].addr
<1>1. Session \in Result /\ Session.eff # "refused"
  BY HoldsFacts
<1>2. Session.net \in AnyNet /\ Only(Session.serials) \in Address
  BY <1>1, OnlyOne DEF Result, AnyNet, Address
<1>3. copy[e] \in [addr : Address, mode : AnyMode, net : AnyNet, sel : Address]
  BY DEF TypeInv, CopiesTyped
<1>4. QED
  BY <1>2, <1>3 DEF Learned

\* A coordinator is replaced, or the entry has none that works.
LEMMA CopyReplaced ==
    ASSUME TypeInv, NEW e \in Entry, NEW s \in State,
           NEW c \in [addr : Address, mode : AnyMode, net : AnyNet, sel : Address],
           s \in {"setup", "loaded", "unpolled"} => c.addr # None,
           state' = [state EXCEPT ![e] = s], copy' = [copy EXCEPT ![e] = c]
    PROVE  CopiesTyped'
<1>1. state \in [Entry -> State] /\ CopiesTyped
  BY DEF TypeInv, Shapes
<1>2. copy' \in [Entry -> [addr : Address, mode : AnyMode, net : AnyNet, sel : Address]]
  BY <1>1 DEF CopiesTyped
<1>3. \A d \in Entry : state'[d] \in {"setup", "loaded", "unpolled"} => copy'[d].addr # None
  BY <1>1 DEF CopiesTyped
<1>4. QED
  BY <1>2, <1>3 DEF CopiesTyped, Address, AnyMode, AnyNet

\* The end of a refresh.
Refreshes(e) ==
    \/ PollFails(e) \/ PollRefused(e) \/ NetIdChangeSeen(e) \/ OtherInverterSeen(e)
    \/ OperationFails(e) \/ OperationEnds(e) \/ \E f \in Flow : PasswordRefused(e, f)

LEMMA RefreshesIs ==
    ASSUME NEW e \in Entry, Refreshes(e)
    PROVE  \E failed \in {"unloaded", "error", "refused", "loaded"} :
              Refreshed(e, failed) /\ (failed = "refused" => state[e] \in {"setup", "loaded"})
BY DEF Refreshes, PollFails, PollRefused, NetIdChangeSeen, OtherInverterSeen,
       OperationFails, OperationEnds, PasswordRefused, Polls

LEMMA EntryStepCopies ==
    ASSUME TypeInv, NEW e \in Entry, EntryStep(e)
    PROVE  CopiesTyped'
<1>0. /\ Shapes /\ CopiesTyped /\ state \in [Entry -> State]
      /\ copy[e] \in [addr : Address, mode : AnyMode, net : AnyNet, sel : Address]
      /\ state[e] \in {"setup", "loaded", "unpolled"} => copy[e].addr # None
      /\ copy = [copy EXCEPT ![e] = copy[e]] /\ state = [state EXCEPT ![e] = state[e]]
      /\ state[e] \in State
  BY DEF TypeInv, Shapes, CopiesTyped
<1>1. CASE Migrate(e)
  BY <1>0, <1>1, CopyReplaced DEF Migrate, State
<1>2. CASE SetupStarts(e)
  BY <1>0, <1>2, CopyReplaced, TopologyTyped DEF SetupStarts, State, Exists
<1>3. CASE SetupAtNight(e)
  BY <1>0, <1>3, CopyReplaced DEF SetupAtNight, State
<1>4. CASE Reload(e)
  BY <1>0, <1>4, CopyReplaced, TopologyTyped DEF Reload, State
<1>5. CASE Remove(e)
  BY <1>0, <1>5, CopyReplaced, TopologyTyped DEF Remove, State
<1>6. CASE Refreshes(e)
  BY <1>0, <1>6, RefreshesIs, RefreshedEffect
<1>7. CASE SessionAccepted(e)
  <2> DEFINE c == Learned(e, copy[e])
  <2>1. copy' = [copy EXCEPT ![e] = c] /\ state' = state /\ Holds(e)
    BY <1>7 DEF SessionAccepted
  <2>2. /\ c \in [addr : Address, mode : AnyMode, net : AnyNet, sel : Address]
        /\ c.addr = copy[e].addr
    BY <2>1, LearnedTyped
  <2> HIDE DEF c
  <2>3. QED
    BY <1>0, <2>1, <2>2, CopyReplaced
<1>8. CASE PollOpens(e) \/ UserReloads(e)
  BY <1>0, <1>8 DEF PollOpens, UserReloads, entryVars, CopiesTyped, Address, AnyMode, AnyNet
<1>9. QED
  BY <1>1, <1>2, <1>3, <1>4, <1>5, <1>6, <1>7, <1>8 DEF EntryStep, SessionStep, Refreshes

\* A flow goes on.
LEMMA FlowReplaced ==
    ASSUME FlowsTyped, NEW f \in Flow, NEW r \in Record,
           r.step \in {"probe", "confirm"} => r.want.addr # None,
           r.step = "confirm" => r.probe \in Result /\ r.probe.eff # "refused",
           flow' = [flow EXCEPT ![f] = r]
    PROVE  FlowsTyped'
<1>1. flow' \in [Flow -> Record]
  BY DEF FlowsTyped
<1>2. \A g \in Flow :
        /\ flow'[g].step \in {"probe", "confirm"} => flow'[g].want.addr # None
        /\ flow'[g].step = "confirm" => flow'[g].probe \in Result /\ flow'[g].probe.eff # "refused"
  BY DEF FlowsTyped
<1>3. QED
  BY <1>1, <1>2 DEF FlowsTyped, Record, Result, Address, AnyMode, Flow

LEMMA StartedTyped ==
    ASSUME NEW kind \in {"user", "reconfigure", "reauth"}, NEW e \in Entry \cup {None},
           NEW step \in {"discover", "form"}
    PROVE  Idle \in Record /\ Started(kind, e, step) \in Record
           /\ Idle.step = "none" /\ Started(kind, e, step).step = step
BY DEF Started, Idle, Record, Nowhere, NoProbe, None, Address, AnyMode

LEMMA EntryStepFlows ==
    ASSUME TypeInv, NEW e \in Entry, EntryStep(e)
    PROVE  FlowsTyped'
<1>0. FlowsTyped
  BY DEF TypeInv
<1>1. ASSUME NEW f \in Flow, PasswordRefused(e, f)
      PROVE  FlowsTyped'
  <2> DEFINE r == Started("reauth", e, "form")
  <2>1. flow' = [flow EXCEPT ![f] = r] \/ flow' = flow
    BY <1>1 DEF PasswordRefused
  <2>2. r \in Record /\ r.step = "form"
    BY StartedTyped
  <2> HIDE DEF r
  <2>3. CASE flow' = [flow EXCEPT ![f] = r]
    BY <1>0, <2>2, <2>3, FlowReplaced
  <2>4. CASE flow' = flow
    BY <1>0, <2>4 DEF FlowsTyped, Record, Result, Address, AnyMode, Flow
  <2>5. QED
    BY <2>1, <2>3, <2>4
<1>2. CASE ~\E f \in Flow : PasswordRefused(e, f)
  <2>1. flow' = flow
    BY <1>2
    DEF EntryStep, Migrate, SetupStarts, SetupAtNight, Reload, PollFails,
        PollOpens, PollRefused, SessionStep, NetIdChangeSeen, OtherInverterSeen,
        SessionAccepted, OperationFails, OperationEnds, UserReloads, Remove
  <2>2. QED
    BY <1>0, <2>1 DEF FlowsTyped, Record, Result, Address, AnyMode, Flow
<1>3. QED
  BY <1>1, <1>2

\* The radio stays with its holder, which goes on to hold it.
LEMMA RadioKept ==
    ASSUME RadioTyped, radio' = radio,
           ~Free => (Holder(radio[1]) => Holder(radio[1])')
    PROVE  RadioTyped'
BY DEF RadioTyped, Free

LEMMA RadioFreed == ASSUME radio' = NoOne PROVE RadioTyped'
BY DEF RadioTyped, Free

LEMMA EntryStepRadio ==
    ASSUME TypeInv, NEW e \in Entry, EntryStep(e)
    PROVE  RadioTyped'
<1>0. /\ RadioTyped /\ state \in [Entry -> State] /\ CopiesTyped
      /\ netid \in [Serial -> NetId]
  BY DEF TypeInv, Shapes, Registered
<1>1. CASE Migrate(e) \/ SetupStarts(e) \/ SetupAtNight(e)
  <2>1. /\ radio' = radio /\ flow' = flow
        /\ \E s \in {"unloaded", "setup", "loaded"} :
              /\ state' = [state EXCEPT ![e] = s]
              /\ state[e] \in {"setup", "loaded"} => s = "loaded"
    BY <1>1 DEF Migrate, SetupStarts, SetupAtNight
  <2>2. QED
    BY <1>0, <2>1, RadioKept DEF Holder
<1>2. CASE Reload(e) \/ Remove(e)
  <2>1. CASE Holds(e)
    BY <1>2, <2>1, RadioFreed DEF Reload, Remove, Cancelled
  <2>2. CASE ~Holds(e)
    <3>1. /\ radio' = radio /\ flow' = flow
          /\ \A d \in Entry \ {e} : state'[d] = state[d]
      BY <1>0, <1>2, <2>2 DEF Reload, Remove, Cancelled
    <3>2. ~Free => radio[1] # e
      BY <2>2 DEF Holds
    <3>3. QED
      BY <1>0, <3>1, <3>2, RadioKept DEF Holder
  <2>3. QED
    BY <2>1, <2>2
<1>3. CASE Refreshes(e)
  BY <1>3, RefreshesIs, RadioFreed DEF Refreshed
<1>4. CASE UserReloads(e)
  BY <1>0, <1>4, RadioKept DEF UserReloads, Holder
<1>5. CASE PollOpens(e)
  <2>1. PICK found \in Found(copy[e].addr, copy[e].mode) : found.eff # "refused" /\ Open(e, found)
    BY <1>5 DEF PollOpens
  <2>2. copy[e].addr \in Serial /\ copy[e].mode \in AnyMode
    BY <1>0, <1>5 DEF PollOpens, Polls, CopiesTyped, Address
  <2>3. found \in Result
    BY <1>0, <2>2, FoundIsResult
  <2>4. state[e] \in {"setup", "loaded"} /\ state' = state
    BY <1>5 DEF PollOpens, Polls, entryVars
  <2>5. Holder(e)'
    BY <2>4 DEF Holder
  <2>6. QED
    BY <2>1, <2>3, <2>5, OpenedIs DEF RadioTyped, Result
<1>6. CASE SessionAccepted(e)
  <2>1. /\ radio' = [radio EXCEPT ![3] = "accepted"]
        /\ Holds(e) /\ state' = state /\ flow' = flow
    BY <1>6 DEF SessionAccepted
  <2>2. /\ radio = <<radio[1], radio[2], radio[3]>> /\ radio[2] \in Result
        /\ Holder(radio[1])
        /\ radio[1] \in Entry => radio[2].eff # "refused"
    BY <1>0, <2>1 DEF RadioTyped, Holds
  <2>3. /\ radio' = <<radio'[1], radio'[2], radio'[3]>>
        /\ radio'[1] = radio[1] /\ radio'[2] = radio[2]
    BY <2>1, <2>2
  <2>4. Holder(radio[1])'
    BY <2>1, <2>2, <2>3 DEF Holder
  <2>5. QED
    BY <2>2, <2>3, <2>4 DEF RadioTyped, Result
<1>7. QED
  BY <1>1, <1>2, <1>3, <1>4, <1>5, <1>6 DEF EntryStep, SessionStep, Refreshes

\* A note about a NetID, in the registry; a reload of an entry that exists.
LEMMA ChangeKindIs ==
    ASSUME NEW e, NEW detected
    PROVE  ChangeKind(e, detected) \in Kind
BY DEF ChangeKind, Kind

LEMMA EntryStepRegistered ==
    ASSUME TypeInv, NEW e \in Entry, EntryStep(e)
    PROVE  Registered'
<1>0. /\ Shapes /\ Registered
      /\ netid \in [Serial -> NetId] /\ issues \in [Entry -> SUBSET Kind]
      /\ reload \subseteq {d \in Entry : Exists(d)} /\ state \in [Entry -> State]
  BY DEF TypeInv, Shapes, Registered
<1>1. netid' = netid
  BY DEF EntryStep, Migrate, SetupStarts, SetupAtNight, Reload, PollFails, PollOpens,
         PollRefused, SessionStep, NetIdChangeSeen, OtherInverterSeen,
         SessionAccepted, OperationFails, OperationEnds, UserReloads, Remove,
         PasswordRefused
<1>2. issues' \in [Entry -> SUBSET Kind]
  <2>1. CASE \/ SessionAccepted(e) \/ OperationEnds(e)
    BY <1>0, <2>1 DEF SessionAccepted, OperationEnds, async_clear_netid_issues
  <2>2. CASE \/ PollRefused(e) \/ NetIdChangeSeen(e)
    <3>1. \E n : async_note_netid_change(e, n)
      BY <2>2 DEF PollRefused, NetIdChangeSeen
    <3>2. \E k \in Kind : issues' = [issues EXCEPT ![e] = issues[e] \cup {k}]
      BY <3>1, ChangeKindIs DEF async_note_netid_change
    <3>3. QED
      BY <1>0, <3>2
  <2>3. CASE ~(SessionAccepted(e) \/ OperationEnds(e) \/ PollRefused(e) \/ NetIdChangeSeen(e))
    <3>1. issues' = issues
      BY <2>3
      DEF EntryStep, Migrate, SetupStarts, SetupAtNight, Reload, PollFails, PollOpens,
          SessionStep, OtherInverterSeen, OperationFails, UserReloads, Remove,
          PasswordRefused, entryVars
    <3>2. QED
      BY <1>0, <3>1
  <2>4. QED
    BY <2>1, <2>2, <2>3
<1>3. reload' \subseteq {d \in Entry : Exists(d)'}
  <2>1. CASE Remove(e)
    <3>1. /\ reload' = reload \ {e} /\ \A d \in Entry \ {e} : state'[d] = state[d]
      BY <1>0, <2>1 DEF Remove
    <3>2. QED
      BY <1>0, <3>1 DEF Exists
  <2>2. CASE ~Remove(e)
    <3>1. \A d \in Entry : Exists(d) => Exists(d)'
      <4>1. CASE Refreshes(e)
        <5>1. PICK failed \in {"unloaded", "error", "refused", "loaded"} :
                 Refreshed(e, failed) /\ (failed = "refused" => state[e] \in {"setup", "loaded"})
          BY <4>1, RefreshesIs
        <5>2. state' = [state EXCEPT ![e] = IF state[e] = "setup" THEN failed
                             ELSE IF failed = "refused" THEN "unpolled" ELSE state[e]]
          BY <5>1 DEF Refreshed
        <5>3. QED
          BY <1>0, <5>1, <5>2 DEF Exists
      <4>2. CASE Migrate(e) \/ SetupStarts(e) \/ SetupAtNight(e) \/ Reload(e)
        <5>1. \E s \in {"unloaded", "setup", "loaded"} : state' = [state EXCEPT ![e] = s]
          BY <4>2 DEF Migrate, SetupStarts, SetupAtNight, Reload
        <5>2. QED
          BY <1>0, <5>1 DEF Exists
      <4>3. CASE PollOpens(e) \/ SessionAccepted(e) \/ UserReloads(e)
        BY <4>3 DEF PollOpens, SessionAccepted, UserReloads, entryVars, Exists
      <4>4. QED
        BY <2>2, <4>1, <4>2, <4>3 DEF EntryStep, SessionStep, Refreshes
    <3>2. reload' \subseteq reload \/ (UserReloads(e) /\ reload' = reload \cup {e})
      BY <2>2
      DEF EntryStep, Migrate, SetupStarts, SetupAtNight, Reload, PollFails, PollOpens,
          PollRefused, SessionStep, NetIdChangeSeen, OtherInverterSeen,
          SessionAccepted, OperationFails, OperationEnds, UserReloads,
          PasswordRefused, entryVars
    <3>3. UserReloads(e) => Exists(e)
      BY DEF UserReloads, Settled, Exists
    <3>4. QED
      BY <1>0, <3>1, <3>2, <3>3
  <2>3. QED
    BY <2>1, <2>2
<1>4. QED
  BY <1>0, <1>1, <1>2, <1>3 DEF Registered

-----------------------------------------------------------------------------
(* Steps of a flow.                                                        *)

\* The result of a flow, when it is about to be confirmed.
LEMMA PendingTyped ==
    ASSUME TypeInv, NEW f \in Flow, flow[f].step = "confirm"
    PROVE  /\ Pending(f).addr \in Serial /\ Pending(f).mode \in AnyMode
           /\ Pending(f).net \in AnyNet /\ Pending(f).sel \in Address
           /\ Pending(f).known \subseteq Serial
<1>1. /\ flow[f] \in Record /\ flow[f].want.addr # None
      /\ flow[f].probe \in Result /\ flow[f].probe.eff # "refused"
  BY DEF TypeInv, FlowsTyped
<1>2. Only(flow[f].probe.serials) \in Serial
  BY <1>1, OnlyOne
<1>3. /\ flow[f].want.addr \in Serial /\ flow[f].want.mode \in AnyMode
      /\ flow[f].probe.net \in NetId /\ flow[f].probe.serials \subseteq Serial
  BY <1>1 DEF Record, Result, Address
<1>4. QED
  BY <1>2, <1>3 DEF Pending, AnyNet, Address

Confirms(f, e) == Confirm(f, e) \/ ConfirmReconfigure(f, e)

LEMMA OtherFlowSteps ==
    ASSUME NEW f \in Flow, FlowStep(f), ~\E e \in Entry : Confirms(f, e)
    PROVE  UNCHANGED <<netid, entry, state, copy, issues>>
BY DEF Confirms, FlowStep, Begin, StartFlow, Discovering, Discovered, Submit,
       ProbeOpens, ProbeFails, Validated, FlowAborts, Reauthenticated, entryVars

LEMMA FlowStepEntries ==
    ASSUME TypeInv, NEW f \in Flow, FlowStep(f)
    PROVE  EntriesTyped' /\ CopiesTyped' /\ Registered'
<1>0. /\ Shapes /\ EntriesTyped /\ CopiesTyped /\ Registered /\ state \in [Entry -> State]
  BY DEF TypeInv, Shapes
<1>1. ASSUME NEW e \in Entry, Confirms(f, e)
      PROVE  EntriesTyped' /\ CopiesTyped' /\ Registered'
  <2>1. /\ flow[f].step = "confirm" /\ entry' = [entry EXCEPT ![e] = Pending(f)]
        /\ UNCHANGED <<netid, copy, issues>>
    BY <1>1 DEF Confirms, Confirm, ConfirmReconfigure
  <2>2. \/ state' = state /\ reload' = reload \cup {e} /\ Exists(e)
        \/ /\ state' = [state EXCEPT ![e] = "unloaded"] /\ reload' = reload
           /\ state[e] = "absent"
    BY <1>1 DEF Confirms, Confirm, ConfirmReconfigure
  <2>3. \A d \in Entry : /\ d # e => (Exists(d)' <=> Exists(d))
                         /\ Exists(d) => Exists(d)'
                         /\ state'[d] \in {"setup", "loaded", "unpolled"} => state'[d] = state[d]
    BY <1>0, <2>2 DEF Exists
  <2>4. EntriesTyped'
    <3> DEFINE r == Pending(f)
    <3>1. /\ IsEntry(r) /\ r.addr \in Address /\ r.addr # None /\ r.mode \in AnyMode
          /\ r.net \in AnyNet /\ r.sel \in Address /\ r.known \subseteq Serial
      BY <2>1, PendingIsEntry, PendingTyped DEF Address, None
    <3> HIDE DEF r
    <3>2. QED
      BY <1>0, <2>1, <2>3, <3>1, EntryWritten DEF r
  <2>5. CopiesTyped'
    BY <1>0, <2>1, <2>3 DEF CopiesTyped, Address, AnyMode, AnyNet
  <2>6. Registered'
    BY <1>0, <2>1, <2>2, <2>3 DEF Registered, Kind
  <2>7. QED
    BY <2>4, <2>5, <2>6
<1>2. CASE ~\E e \in Entry : Confirms(f, e)
  <2>1. UNCHANGED <<netid, entry, state, copy, issues>>
    BY <1>2, OtherFlowSteps
  <2>2. reload' = reload \/ \E e \in Entry : Exists(e) /\ reload' = reload \cup {e}
    BY <1>2
    DEF Confirms, FlowStep, Begin, StartFlow, Discovering, Discovered, Submit,
        ProbeOpens, ProbeFails, Validated, FlowAborts, Reauthenticated, entryVars
  <2>3. EntriesTyped' /\ CopiesTyped'
    BY <1>0, <2>1 DEF EntriesTyped, CopiesTyped, Exists, Address, AnyMode, AnyNet
  <2>4. Registered'
    BY <1>0, <2>1, <2>2 DEF Registered, Kind, Exists
  <2>5. QED
    BY <2>3, <2>4
<1>3. QED
  BY <1>1, <1>2

\* A flow that holds the radio, and no entry does.
LEMMA FlowHolds ==
    ASSUME TypeInv, NEW f \in Flow, Holds(f)
    PROVE  flow[f].step = "probe" /\ Session \in Result
BY HoldsFacts

LEMMA FlowStepFlows ==
    ASSUME TypeInv, NEW f \in Flow, FlowStep(f)
    PROVE  FlowsTyped'
<1>0. /\ FlowsTyped /\ flow[f] \in Record /\ Idle \in Record /\ Idle.step = "none"
      /\ Nowhere \in [addr : Address, mode : AnyMode]
  BY StartedTyped DEF TypeInv, FlowsTyped, Nowhere, Address, AnyMode, None
<1>1. CASE Begin(f)
  <2>1. PICK kind \in {"user", "reconfigure"}, e \in Entry \cup {None} : StartFlow(f, kind, e)
    BY <1>1 DEF Begin
  <2> DEFINE r == Started(kind, e, "discover")
  <2>2. flow' = [flow EXCEPT ![f] = r]
    BY <2>1 DEF StartFlow
  <2>3. r \in Record /\ r.step = "discover"
    BY StartedTyped
  <2> HIDE DEF r
  <2>4. QED
    BY <1>0, <2>2, <2>3, FlowReplaced
<1>2. CASE Discovered(f)
  <2> DEFINE r == [flow[f] EXCEPT !.step = "form"]
  <2>1. flow' = [flow EXCEPT ![f] = r]
    BY <1>2 DEF Discovered
  <2>2. r \in Record /\ r.step = "form"
    BY <1>0 DEF Record
  <2> HIDE DEF r
  <2>3. QED
    BY <1>0, <2>1, <2>2, FlowReplaced
<1>3. CASE Submit(f)
  <2>1. PICK want \in [addr : Serial, mode : AnyMode] :
          flow' = [flow EXCEPT ![f].want = want, ![f].step = "probe"]
    <3>1. PICK want :
            /\ flow' = [flow EXCEPT ![f].want = want, ![f].step = "probe"]
            /\ \/ want \in [addr : Serial, mode : Mode]
               \/ \E e \in Entry : Exists(e) /\ want = [addr |-> entry[e].addr, mode |-> entry[e].mode]
      BY <1>3 DEF Submit
    <3>2. want \in [addr : Serial, mode : AnyMode]
      BY <3>1 DEF TypeInv, EntriesTyped, Address, AnyMode
    <3>3. QED
      BY <3>1, <3>2
  <2> DEFINE r == [flow[f] EXCEPT !.want = want, !.step = "probe"]
  <2>2. flow' = [flow EXCEPT ![f] = r]
    BY <1>0, <2>1 DEF FlowsTyped
  <2>3. r \in Record /\ r.step = "probe" /\ r.want.addr # None
    BY <1>0 DEF Record, Address, None
  <2> HIDE DEF r
  <2>4. QED
    BY <1>0, <2>2, <2>3, FlowReplaced
<1>4. CASE ProbeFails(f)
  <2> DEFINE r == [flow[f] EXCEPT !.want = Nowhere, !.step = "form"]
  <2>1. flow' = [flow EXCEPT ![f] = r]
    BY <1>0, <1>4 DEF ProbeFails, FlowsTyped
  <2>2. r \in Record /\ r.step = "form"
    BY <1>0 DEF Record
  <2> HIDE DEF r
  <2>3. QED
    BY <1>0, <2>1, <2>2, FlowReplaced
<1>5. CASE Validated(f)
  <2>1. /\ Session \in Result /\ Session.eff # "refused"
        /\ flow[f].want.addr # None
    BY <1>0, <1>5, FlowHolds DEF Validated, FlowsTyped
  <2>2. CASE Overlap(Session.serials, flow[f].of)
    <3> DEFINE r == [flow[f] EXCEPT !.want = Nowhere, !.step = "form"]
    <3>1. flow' = [flow EXCEPT ![f] = r]
      BY <1>5, <2>2 DEF Validated
    <3>2. r \in Record /\ r.step = "form"
      BY <1>0 DEF Record
    <3> HIDE DEF r
    <3>3. QED
      BY <1>0, <3>1, <3>2, FlowReplaced
  <2>3. CASE ~Overlap(Session.serials, flow[f].of)
    <3> DEFINE found == Session
               r == [flow[f] EXCEPT !.probe = found, !.step = "confirm"]
    <3>1. flow' = [flow EXCEPT ![f] = r]
      BY <1>5, <2>3 DEF Validated
    <3> HIDE DEF found
    <3>2. found \in Result /\ found.eff # "refused"
      BY <2>1 DEF found
    <3>3. r \in Record /\ r.step = "confirm" /\ r.want = flow[f].want /\ r.probe = found
      BY <1>0, <3>2 DEF Record
    <3> HIDE DEF r
    <3>4. QED
      BY <1>0, <2>1, <3>1, <3>2, <3>3, FlowReplaced
  <2>4. QED
    BY <2>2, <2>3
<1>6. CASE FlowAborts(f) \/ \E e \in Entry : Reauthenticated(f, e) \/ Confirms(f, e)
  <2>1. flow' = [flow EXCEPT ![f] = Idle]
    BY <1>6 DEF FlowAborts, Reauthenticated, Confirms, Confirm, ConfirmReconfigure, Ends
  <2>2. QED
    BY <1>0, <2>1, FlowReplaced
<1>7. CASE Discovering(f) \/ ProbeOpens(f)
  BY <1>0, <1>7 DEF Discovering, ProbeOpens, FlowsTyped, Record, Result, Address, AnyMode, Flow
<1>8. QED
  BY <1>1, <1>2, <1>3, <1>4, <1>5, <1>6, <1>7 DEF FlowStep, Confirms

LEMMA FlowStepRadio ==
    ASSUME TypeInv, NEW f \in Flow, FlowStep(f)
    PROVE  RadioTyped'
<1>0. /\ RadioTyped /\ FlowsTyped /\ Shapes /\ Registered /\ state \in [Entry -> State]
      /\ Entry \cap Flow = {} /\ flow \in [Flow -> Record]
  BY DEF TypeInv, Shapes, Flow, FlowsTyped
<1>1. CASE \/ ProbeFails(f) \/ Validated(f) \/ \E e \in Entry : Reauthenticated(f, e)
  BY <1>1, RadioFreed DEF ProbeFails, Validated, Reauthenticated
<1>2. CASE ProbeOpens(f)
  <2>1. PICK found \in Found(flow[f].want.addr, flow[f].want.mode) : Open(f, found)
    BY <1>2 DEF ProbeOpens
  <2>2. flow[f].step = "probe" /\ flow' = flow
    BY <1>2 DEF ProbeOpens
  <2>3. flow[f].want.addr \in Serial /\ flow[f].want.mode \in AnyMode
    BY <1>0, <2>2 DEF FlowsTyped, Record, Address
  <2>4. found \in Result
    BY <1>0, <2>3, FoundIsResult DEF Registered
  <2>5. Holder(f)' /\ f \notin Entry
    BY <1>0, <2>2 DEF Holder
  <2>6. QED
    BY <2>1, <2>4, <2>5, OpenedIs DEF RadioTyped, Result
<1>3. CASE \E e \in Entry : Confirms(f, e)
  <2>1. /\ radio' = radio /\ flow[f].step = "confirm"
        /\ \A g \in Flow \ {f} : flow'[g] = flow[g]
    BY <1>0, <1>3 DEF Confirms, Confirm, ConfirmReconfigure, Ends
  <2>2. \A d \in Entry : state[d] \in {"setup", "loaded"} => state'[d] = state[d]
    BY <1>0, <1>3 DEF Confirms, Confirm, ConfirmReconfigure
  <2>3. QED
    BY <1>0, <2>1, <2>2, RadioKept DEF Holder
<1>4. CASE Begin(f) \/ Discovering(f) \/ Discovered(f) \/ Submit(f) \/ FlowAborts(f)
  <2>1. radio' = radio /\ state' = state
    BY <1>4 DEF Begin, StartFlow, Discovering, Discovered, Submit, FlowAborts, entryVars
  <2>2. \A g \in Flow \ {f} : flow'[g] = flow[g]
    BY <1>0, <1>4 DEF Begin, StartFlow, Discovering, Discovered, Submit, FlowAborts, Ends
  <2>3. flow[f].step # "probe" \/ flow' = flow
    BY <1>4 DEF Begin, StartFlow, Discovering, Discovered, Submit, FlowAborts
  <2>4. QED
    BY <1>0, <2>1, <2>2, <2>3, RadioKept DEF Holder
<1>5. QED
  BY <1>1, <1>2, <1>3, <1>4 DEF FlowStep, Confirms

-----------------------------------------------------------------------------
(* The specification.                                                      *)

LEMMA TypeInit == ASSUME Init PROVE TypeInv
<1>1. Shapes
  BY ConfigInitInv DEF ConfigInv
<1>2. EntriesTyped
  <2>1. \A e \in Entry : entry[e] \in IF e \in Legacy THEN Old(e) ELSE {Absent}
    BY DEF Init
  <2>2. \A e \in Entry : Exists(e) => e \in Legacy
    BY DEF Init, Exists
  <2>3. ASSUME NEW e \in Entry, NEW r \in Old(e)
        PROVE  /\ r.addr \in Serial /\ r.mode = "auto" /\ r.net = None /\ r.sel = None
               /\ r.known \subseteq Serial
    BY <2>3 DEF Old
  <2>4. /\ Absent.addr = None /\ Absent.mode = "auto" /\ Absent.net = None
        /\ Absent.sel = None /\ Absent.known = {}
    BY DEF Absent
  <2>5. QED
    BY <2>1, <2>2, <2>3, <2>4 DEF EntriesTyped, Address, AnyMode, AnyNet, None
<1>3. CopiesTyped
  BY DEF Init, CopiesTyped, NoTopology, Address, AnyMode, AnyNet, None
<1>4. FlowsTyped
  BY DEF Init, FlowsTyped, Record, Idle, Nowhere, NoProbe, Address, AnyMode, None
<1>5. RadioTyped
  BY DEF Init, RadioTyped, Free
<1>6. Registered
  BY DEF Init, Registered
<1>7. QED
  BY <1>1, <1>2, <1>3, <1>4, <1>5, <1>6 DEF TypeInv

LEMMA TypeNext == ASSUME TypeInv, ConfigInv, [Next]_vars PROVE TypeInv'
<1>1. Shapes'
  BY ConfigNextInv DEF ConfigInv
<1>2. ASSUME NEW e \in Entry, EntryStep(e) PROVE TypeInv'
  BY <1>1, <1>2, EntryStepEntries, EntryStepCopies, EntryStepFlows, EntryStepRadio,
     EntryStepRegistered DEF TypeInv
<1>3. ASSUME NEW f \in Flow, FlowStep(f) PROVE TypeInv'
  BY <1>1, <1>3, FlowStepEntries, FlowStepFlows, FlowStepRadio DEF TypeInv
<1>4. CASE UNCHANGED vars \/ \E s \in Serial : TurnWheel(s)
  <2>0. EntriesTyped /\ CopiesTyped /\ FlowsTyped /\ RadioTyped /\ Registered
    BY DEF TypeInv
  <2>1. UNCHANGED <<entry, state, copy, issues, reload, flow, radio>>
    BY <1>4 DEF vars, entryVars, TurnWheel
  <2>2. netid' \in [Serial -> NetId]
    BY <1>4, <2>0 DEF vars, TurnWheel, Registered
  <2>3. EntriesTyped' /\ CopiesTyped'
    BY <2>0, <2>1 DEF EntriesTyped, CopiesTyped, Exists, Address, AnyMode, AnyNet
  <2>4. FlowsTyped'
    BY <2>0, <2>1 DEF FlowsTyped, Record, Result, Address, AnyMode, Flow
  <2>5. RadioTyped'
    BY <2>0, <2>1, RadioKept DEF Holder
  <2>6. Registered'
    BY <2>0, <2>1, <2>2 DEF Registered, Kind, Exists
  <2>7. QED
    BY <1>1, <2>3, <2>4, <2>5, <2>6 DEF TypeInv
<1>5. QED
  BY <1>2, <1>3, <1>4 DEF Next

\* Type correctness: an entry that exists has an address, one that polls has a
\* coordinator built from it, and the radio is held by an entry that polls or
\* a flow that probes, never by one that was unloaded, removed or aborted.
THEOREM ConfigTypeOK == Spec => []TypeOK
<1>1. TypeInv => TypeOK
  BY DEF TypeInv, Shapes, EntriesTyped, CopiesTyped, FlowsTyped, RadioTyped, Registered,
         Holder, Record, Address, AnyMode, AnyNet, TypeOK
<1>2. Spec => []TypeInv
  BY TypeInit, TypeNext, ConfigInvariant, PTL DEF Spec
<1>3. QED
  BY <1>1, <1>2, PTL
=============================================================================
