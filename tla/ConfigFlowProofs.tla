-------------------------- MODULE ConfigFlowProofs --------------------------
(***************************************************************************)
(* Proofs about ConfigFlow and Discovery for every set of inverters,       *)
(* entries, flows and adapters, and any number of changes.                 *)
(***************************************************************************)
EXTENDS ConfigFlow, TLAPS

USE ConfigAssumption

\* The fields of an entry; its unique id may be of any form.
IsEntry(r) ==
    r = [addr |-> r.addr, mode |-> r.mode, net |-> r.net, sel |-> r.sel,
         uid |-> r.uid, known |-> r.known]

Shapes ==
    /\ entry = [e \in Entry |-> entry[e]]
    /\ \A e \in Entry : IsEntry(entry[e])
    /\ state \in [Entry -> State]
    /\ flow = [f \in Flow |-> flow[f]]

Call == [phase : {"starting", "waiting", "stopping", "giving up"} \cup Over,
         listed : SUBSET Adapter]

DiscoveryType ==
    /\ discovery \in [Caller -> Call]
    /\ inquiring \in [Caller -> SUBSET Adapter]

\* The inductive invariant.
ConfigInv ==
    /\ Shapes /\ UniqueIdsDistinct
    /\ DiscoveryType /\ NoInquiryLeftBehind

-----------------------------------------------------------------------------
(* Discovery.                                                              *)

\* A call that goes on to another phase.
LEMMA PhaseEffect ==
    ASSUME DiscoveryType, NEW f \in Caller,
           NEW p \in {"starting", "waiting", "stopping", "giving up"} \cup Over,
           Phase(f, p)
    PROVE  /\ discovery' \in [Caller -> Call]
           /\ discovery'[f].phase = p
           /\ \A g \in Caller \ {f} : discovery'[g] = discovery[g]
<1>1. discovery[f] \in Call
  BY DEF DiscoveryType
<1>2. [discovery[f] EXCEPT !.phase = p] \in Call
      /\ [discovery[f] EXCEPT !.phase = p].phase = p
  BY <1>1 DEF Call
<1>3. discovery' = [discovery EXCEPT ![f] = [discovery[f] EXCEPT !.phase = p]]
  BY DEF Phase
<1>4. QED
  BY <1>2, <1>3 DEF DiscoveryType

\* A new discovery begins where nothing is left of the last one.
LEMMA DiscoverKeeps ==
    ASSUME DiscoveryType, NoInquiryLeftBehind, NEW f \in Caller, Discover(f)
    PROVE  DiscoveryType' /\ NoInquiryLeftBehind'
<1>1. PICK p \in {"starting", "failed"} :
        /\ discovery' = [discovery EXCEPT ![f] = [phase |-> p, listed |-> {}]]
        /\ inquiring' = inquiring /\ discovery[f].phase \in Over
  BY DEF Discover
<1>2. DiscoveryType'
  BY <1>1 DEF DiscoveryType, Call, Over
<1>3. NoInquiryLeftBehind'
  BY <1>1 DEF DiscoveryType, Call, NoInquiryLeftBehind, Over
<1>4. QED
  BY <1>2, <1>3

\* Whatever fails or is cancelled on the way, the connection is closed before
\* the call returns.
LEMMA DiscoveryStepKeeps ==
    ASSUME DiscoveryType, NoInquiryLeftBehind, NEW f \in Caller, DiscoveryStep(f)
    PROVE  DiscoveryType' /\ NoInquiryLeftBehind'
<1>1. ASSUME NEW a \in Adapter, StartDiscovery(f, a)
      PROVE  DiscoveryType' /\ NoInquiryLeftBehind'
  <2>1. DiscoveryType'
    BY <1>1 DEF DiscoveryType, Call, StartDiscovery, Over
  <2>2. NoInquiryLeftBehind'
    BY <1>1 DEF DiscoveryType, Call, NoInquiryLeftBehind, StartDiscovery, Over
  <2>3. QED
    BY <2>1, <2>2
<1>2. ASSUME NEW a \in Adapter, StartFails(f, a)
      PROVE  DiscoveryType' /\ NoInquiryLeftBehind'
  <2>1. /\ discovery' \in [Caller -> Call] /\ discovery'[f].phase = "giving up"
        /\ \A g \in Caller \ {f} : discovery'[g] = discovery[g]
    BY <1>2, PhaseEffect DEF StartFails
  <2>2. /\ inquiring' \in [Caller -> SUBSET Adapter]
        /\ \A g \in Caller \ {f} : inquiring'[g] = inquiring[g]
    BY <1>2 DEF StartFails, DiscoveryType
  <2>3. QED
    BY <2>1, <2>2 DEF DiscoveryType, NoInquiryLeftBehind, Over
<1>3. CASE Waited(f)
  <2>1. PICK p \in {"stopping", "giving up"} : Phase(f, p) /\ inquiring' = inquiring
    BY <1>3 DEF Waited
  <2>2. /\ discovery' \in [Caller -> Call] /\ discovery'[f].phase = p
        /\ \A g \in Caller \ {f} : discovery'[g] = discovery[g]
    BY <2>1, PhaseEffect
  <2>3. QED
    BY <2>1, <2>2 DEF DiscoveryType, NoInquiryLeftBehind, Over
<1>4. ASSUME NEW a \in Adapter, StopDiscovery(f, a)
      PROVE  DiscoveryType' /\ NoInquiryLeftBehind'
  <2>1. discovery[f] \in Call
    BY DEF DiscoveryType
  <2> DEFINE next == [discovery[f] EXCEPT !.listed = discovery[f].listed \ {a}]
  <2>2. next \in Call /\ next.phase = discovery[f].phase /\ next.phase \notin Over
    BY <1>4, <2>1 DEF Call, StopDiscovery, Stopping, Over
  <2>3. discovery' = [discovery EXCEPT ![f] = next]
    BY <1>4 DEF StopDiscovery
  <2> HIDE DEF next
  <2>4. /\ discovery' \in [Caller -> Call] /\ discovery'[f].phase \notin Over
        /\ \A g \in Caller \ {f} : discovery'[g] = discovery[g]
    BY <2>2, <2>3 DEF DiscoveryType
  <2>5. /\ inquiring' \in [Caller -> SUBSET Adapter]
        /\ \A g \in Caller \ {f} : inquiring'[g] = inquiring[g]
    BY <1>4 DEF StopDiscovery, DiscoveryType
  <2>6. QED
    BY <2>4, <2>5 DEF DiscoveryType, NoInquiryLeftBehind
<1>5. CASE StopCancelled(f)
  <2>1. DiscoveryType'
    BY <1>5 DEF DiscoveryType, Call, StopCancelled, Over
  <2>2. NoInquiryLeftBehind'
    BY <1>5 DEF DiscoveryType, Call, NoInquiryLeftBehind, StopCancelled, Over
  <2>3. QED
    BY <2>1, <2>2
<1>6. CASE Disconnect(f)
  <2>1. PICK p \in Over : Phase(f, p) /\ inquiring' = [inquiring EXCEPT ![f] = {}]
    BY <1>6 DEF Disconnect, Over
  <2>2. /\ discovery' \in [Caller -> Call]
        /\ \A g \in Caller \ {f} : discovery'[g] = discovery[g]
    BY <2>1, PhaseEffect
  <2>3. QED
    BY <2>1, <2>2 DEF DiscoveryType, NoInquiryLeftBehind
<1>7. QED
  BY <1>1, <1>2, <1>3, <1>4, <1>5, <1>6 DEF DiscoveryStep

\* The steps of Next, those that change no discovery first.
OtherFlowStep(f) ==
    \/ Submit(f) \/ ProbeOpens(f) \/ ProbeFails(f) \/ Validated(f) \/ FlowAborts(f)
    \/ \E e \in Entry : Reauthenticated(f, e) \/ Confirm(f, e) \/ ConfirmReconfigure(f, e)

\* The steps of Next but those of a discovery leave every discovery alone.
LEMMA OthersLeaveDiscovery ==
    ASSUME \/ UNCHANGED vars
           \/ \E e \in Entry : EntryStep(e)
           \/ \E f \in Flow : OtherFlowStep(f)
           \/ \E s \in Serial : TurnWheel(s)
    PROVE  UNCHANGED <<discovery, inquiring>>
<1>1. CASE UNCHANGED vars \/ \E s \in Serial : TurnWheel(s)
  BY <1>1 DEF vars, discoveryVars, TurnWheel
<1>2. ASSUME NEW e \in Entry, EntryStep(e)
      PROVE  UNCHANGED <<discovery, inquiring>>
  BY <1>2
  DEF EntryStep, discoveryVars, Migrate, SetupStarts, SetupAtNight, Reload,
      PollFails, PollOpens, PollRefused, SessionStep, NetIdChangeSeen,
      OtherInverterSeen, SessionAccepted, OperationFails, OperationEnds,
      UserReloads, Remove, PasswordRefused
<1>3. ASSUME NEW f \in Flow, OtherFlowStep(f)
      PROVE  UNCHANGED <<discovery, inquiring>>
  BY <1>3
  DEF OtherFlowStep, discoveryVars, Submit, ProbeOpens, ProbeFails, Validated,
      FlowAborts, Reauthenticated, Confirm, ConfirmReconfigure
<1>4. QED
  BY <1>1, <1>2, <1>3

\* Every step keeps what is known of the discoveries.
LEMMA DiscoveryKept ==
    ASSUME ConfigInv, [Next]_vars
    PROVE  DiscoveryType' /\ NoInquiryLeftBehind'
<1>0. DiscoveryType /\ NoInquiryLeftBehind
  BY DEF ConfigInv
<1>1. CASE UNCHANGED <<discovery, inquiring>>
  BY <1>0, <1>1 DEF DiscoveryType, NoInquiryLeftBehind
<1>2. ASSUME NEW f \in Flow, Begin(f) \/ Discovering(f) \/ Discovered(f)
      PROVE  DiscoveryType' /\ NoInquiryLeftBehind'
  <2>0. f \in Caller
    BY DEF Flow
  <2>1. CASE Begin(f)
    BY <1>0, <2>0, <2>1, DiscoverKeeps DEF Begin, StartFlow
  <2>2. CASE Discovering(f)
    BY <1>0, <2>0, <2>2, DiscoveryStepKeeps DEF Discovering
  <2>3. CASE Discovered(f)
    <3>1. DiscoveryType'
      BY <1>0, <2>3 DEF Discovered, DiscoveryType, Call, NoDiscovery, Over
    <3>2. NoInquiryLeftBehind'
      BY <1>0, <2>0, <2>3
      DEF Discovered, DiscoveryType, Call, NoInquiryLeftBehind, NoDiscovery, Over
    <3>3. QED
      BY <3>1, <3>2
  <2>4. QED
    BY <1>2, <2>1, <2>2, <2>3
<1>3. QED
  BY <1>1, <1>2, OthersLeaveDiscovery DEF Next, FlowStep, OtherFlowStep

-----------------------------------------------------------------------------
(* Entries.                                                                *)

\* Replacing one entry.
LEMMA EntryReplaced ==
    ASSUME Shapes, NEW e \in Entry, NEW r, IsEntry(r), entry' = [entry EXCEPT ![e] = r]
    PROVE  /\ entry' = [d \in Entry |-> entry'[d]]
           /\ entry'[e] = r /\ \A d \in Entry \ {e} : entry'[d] = entry[d]
           /\ \A d \in Entry : IsEntry(entry'[d])
BY DEF Shapes

\* Writing fields other than the unique id keeps the rest.
WithMode(r, m, s) == [r EXCEPT !.mode = m, !.sel = s]
WithNet(r, n, s) == [r EXCEPT !.net = n, !.sel = s]
WithKnown(r, k) == [r EXCEPT !.known = k]

LEMMA ModeWritten ==
    ASSUME NEW r, IsEntry(r), NEW m, NEW s
    PROVE  /\ IsEntry(WithMode(r, m, s))
           /\ WithMode(r, m, s) = [addr |-> r.addr, mode |-> m, net |-> r.net, sel |-> s,
                                   uid |-> r.uid, known |-> r.known]
           /\ WithMode(r, m, s).uid = r.uid /\ WithMode(r, m, s).net = r.net
<1> DEFINE new(mode, sel) == [addr |-> r.addr, mode |-> mode, net |-> r.net, sel |-> sel,
                              uid |-> r.uid, known |-> r.known]
<1>1. r = new(r.mode, r.sel)
  BY DEF IsEntry
<1>2. [new(r.mode, r.sel) EXCEPT !.mode = m] = new(m, r.sel)
  OBVIOUS
<1>3. [r EXCEPT !.mode = m, !.sel = s] = new(m, s)
  <2>1. [new(m, r.sel) EXCEPT !.sel = s] = new(m, s)
    OBVIOUS
  <2>2. [r EXCEPT !.mode = m, !.sel = s] = [[r EXCEPT !.mode = m] EXCEPT !.sel = s]
    BY Zenon
  <2>3. [r EXCEPT !.mode = m] = new(m, r.sel)
    BY <1>1, <1>2, Zenon
  <2>4. QED
    BY <2>1, <2>2, <2>3, Zenon
<1>4. IsEntry(new(m, s)) /\ new(m, s).uid = r.uid /\ new(m, s).net = r.net
  BY DEF IsEntry
<1>5. QED
  BY <1>3, <1>4 DEF WithMode

LEMMA NetWritten ==
    ASSUME NEW r, IsEntry(r), NEW n, NEW s
    PROVE  /\ IsEntry(WithNet(r, n, s))
           /\ WithNet(r, n, s) = [addr |-> r.addr, mode |-> r.mode, net |-> n, sel |-> s,
                                  uid |-> r.uid, known |-> r.known]
           /\ WithNet(r, n, s).uid = r.uid /\ WithNet(r, n, s).net = n
<1> DEFINE new(net, sel) == [addr |-> r.addr, mode |-> r.mode, net |-> net, sel |-> sel,
                             uid |-> r.uid, known |-> r.known]
<1>1. r = new(r.net, r.sel)
  BY DEF IsEntry
<1>2. [new(r.net, r.sel) EXCEPT !.net = n] = new(n, r.sel)
  OBVIOUS
<1>3. [r EXCEPT !.net = n, !.sel = s] = new(n, s)
  <2>1. [new(n, r.sel) EXCEPT !.sel = s] = new(n, s)
    OBVIOUS
  <2>2. [r EXCEPT !.net = n, !.sel = s] = [[r EXCEPT !.net = n] EXCEPT !.sel = s]
    BY Zenon
  <2>3. [r EXCEPT !.net = n] = new(n, r.sel)
    BY <1>1, <1>2, Zenon
  <2>4. QED
    BY <2>1, <2>2, <2>3, Zenon
<1>4. IsEntry(new(n, s)) /\ new(n, s).uid = r.uid /\ new(n, s).net = n
  BY DEF IsEntry
<1>5. QED
  BY <1>3, <1>4 DEF WithNet

LEMMA KnownWritten ==
    ASSUME NEW r, IsEntry(r), NEW k
    PROVE  /\ IsEntry(WithKnown(r, k))
           /\ WithKnown(r, k) = [addr |-> r.addr, mode |-> r.mode, net |-> r.net,
                                 sel |-> r.sel, uid |-> r.uid, known |-> k]
           /\ WithKnown(r, k).uid = r.uid /\ WithKnown(r, k).net = r.net
<1> DEFINE new(known) == [addr |-> r.addr, mode |-> r.mode, net |-> r.net, sel |-> r.sel,
                          uid |-> r.uid, known |-> known]
<1>1. r = new(r.known)
  BY DEF IsEntry
<1>2. [new(r.known) EXCEPT !.known = k] = new(k)
  OBVIOUS
<1>3. [r EXCEPT !.known = k] = new(k)
  BY <1>1, <1>2, Zenon
<1>4. IsEntry(new(k)) /\ new(k).uid = r.uid /\ new(k).net = r.net
  BY DEF IsEntry
<1>5. QED
  BY <1>3, <1>4 DEF WithKnown

\* As long as no entry appears and none changes its id, they stay distinct.
LEMMA SameIds ==
    ASSUME UniqueIdsDistinct,
           \A e \in Entry : Exists(e)' => Exists(e) /\ entry'[e].uid = entry[e].uid
    PROVE  UniqueIdsDistinct'
BY DEF UniqueIdsDistinct

\* The end of a refresh neither creates nor removes an entry.
LEMMA RefreshedStates ==
    ASSUME Shapes, NEW e \in Entry, NEW failed \in {"unloaded", "error", "refused", "loaded"},
           Refreshed(e, failed), failed = "refused" => state[e] \in {"setup", "loaded"}
    PROVE  /\ state' \in [Entry -> State]
           /\ \A d \in Entry : Exists(d)' => Exists(d)
<1>1. state' = [state EXCEPT ![e] = IF state[e] = "setup" THEN failed
                                   ELSE IF failed = "refused" THEN "unpolled" ELSE state[e]]
  BY DEF Refreshed
<1>2. state \in [Entry -> State]
  BY DEF Shapes
<1>3. state' \in [Entry -> State]
  BY <1>1, <1>2 DEF State
<1>4. ASSUME NEW d \in Entry, state[d] \in {"absent", "removed"}
      PROVE  state'[d] = state[d]
  BY <1>1, <1>2, <1>4
<1>5. QED
  BY <1>3, <1>4 DEF Exists

\* A step of an entry keeps the shape of what is stored; it creates no entry
\* and changes no unique id.
LEMMA EntryStepEffect ==
    ASSUME Shapes, NEW e \in Entry, EntryStep(e)
    PROVE  /\ entry' = [d \in Entry |-> entry'[d]]
           /\ \A d \in Entry : IsEntry(entry'[d])
           /\ state' \in [Entry -> State]
           /\ flow' = [f \in Flow |-> flow'[f]]
           /\ \A d \in Entry : Exists(d)' => Exists(d) /\ entry'[d].uid = entry[d].uid
<1>0. state \in [Entry -> State] /\ IsEntry(entry[e])
  BY DEF Shapes
<1>2. flow' = [f \in Flow |-> flow'[f]]
  BY DEF Shapes, EntryStep, Migrate, SetupStarts, SetupAtNight, Reload, PollFails,
         PollOpens, PollRefused, SessionStep, NetIdChangeSeen, OtherInverterSeen,
         SessionAccepted, OperationFails, OperationEnds, UserReloads, Remove,
         PasswordRefused
<1>3. CASE Migrate(e)
  <2>1. PICK m, s : entry' = [entry EXCEPT ![e] = WithMode(entry[e], m, s)]
    BY <1>3 DEF Migrate, Shapes, WithMode
  <2>2. IsEntry(WithMode(entry[e], m, s)) /\ WithMode(entry[e], m, s).uid = entry[e].uid
    BY <1>0, ModeWritten
  <2>3. state[e] = "old" /\ state' = [state EXCEPT ![e] = "unloaded"]
    BY <1>3 DEF Migrate
  <2>4. state' \in [Entry -> State] /\ \A d \in Entry : Exists(d)' => Exists(d)
    BY <1>0, <2>3 DEF Exists, State
  <2>5. QED
    BY <1>2, <2>1, <2>2, <2>4, EntryReplaced
<1>4. CASE SessionAccepted(e)
  <2>1. PICK n, s : entry' = [entry EXCEPT ![e] = WithNet(entry[e], n, s)]
    BY <1>4 DEF SessionAccepted, Learned, Shapes, WithNet
  <2>2. IsEntry(WithNet(entry[e], n, s)) /\ WithNet(entry[e], n, s).uid = entry[e].uid
    BY <1>0, NetWritten
  <2>3. state' = state
    BY <1>4 DEF SessionAccepted
  <2>4. QED
    BY <1>0, <1>2, <2>1, <2>2, <2>3, EntryReplaced DEF Exists
<1>5. CASE OperationEnds(e)
  <2>1. PICK k : entry' = [entry EXCEPT ![e] = WithKnown(entry[e], k)]
    BY <1>5 DEF OperationEnds, Shapes, WithKnown
  <2>2. /\ IsEntry(WithKnown(entry[e], k))
        /\ WithKnown(entry[e], k).uid = entry[e].uid
    BY <1>0, KnownWritten
  <2>3. state' \in [Entry -> State] /\ \A d \in Entry : Exists(d)' => Exists(d)
    BY <1>5, RefreshedStates DEF OperationEnds
  <2>4. QED
    BY <1>2, <2>1, <2>2, <2>3, EntryReplaced
<1>6. CASE Remove(e)
  <2>1. entry' = [entry EXCEPT ![e] = Absent] /\ state' = [state EXCEPT ![e] = "removed"]
    BY <1>6 DEF Remove
  <2>2. IsEntry(Absent)
    BY DEF IsEntry, Absent
  <2>3. /\ state' \in [Entry -> State] /\ ~Exists(e)'
        /\ \A d \in Entry : Exists(d)' => Exists(d)
    BY <1>0, <2>1 DEF Exists, State
  <2>4. QED
    BY <1>2, <2>1, <2>2, <2>3, EntryReplaced
<1>7. CASE entry' = entry
  <2>1. CASE state' = state
    BY <1>0, <1>2, <1>7, <2>1 DEF Shapes, Exists
  <2>2. CASE \E failed \in {"unloaded", "error", "refused", "loaded"} :
                Refreshed(e, failed) /\ (failed = "refused" => state[e] \in {"setup", "loaded"})
    BY <1>2, <1>7, <2>2, RefreshedStates DEF Shapes
  <2>3. CASE state[e] \in {"unloaded", "setup", "loaded", "unpolled", "error", "refused"}
             /\ \E new \in {"setup", "loaded", "unloaded"} : state' = [state EXCEPT ![e] = new]
    <3>1. state' \in [Entry -> State] /\ \A d \in Entry : Exists(d)' => Exists(d)
      BY <1>0, <2>3 DEF Exists, State
    <3>2. QED
      BY <1>2, <1>7, <3>1 DEF Shapes
  <2>4. CASE Migrate(e) \/ SessionAccepted(e) \/ OperationEnds(e) \/ Remove(e)
    BY <1>3, <1>4, <1>5, <1>6, <2>4
  <2>5. CASE SetupStarts(e) \/ SetupAtNight(e) \/ Reload(e)
    BY <2>3, <2>5 DEF SetupStarts, SetupAtNight, Reload, Settled
  <2>6. CASE PollFails(e) \/ PollRefused(e) \/ NetIdChangeSeen(e) \/ OtherInverterSeen(e)
    BY <2>2, <2>6 DEF PollFails, PollRefused, NetIdChangeSeen, OtherInverterSeen
  <2>7. CASE OperationFails(e) \/ \E f \in Flow : PasswordRefused(e, f)
    BY <2>2, <2>7 DEF OperationFails, PasswordRefused, Polls
  <2>8. CASE PollOpens(e) \/ UserReloads(e)
    BY <2>1, <2>8 DEF PollOpens, UserReloads, entryVars
  <2>9. QED
    BY <2>4, <2>5, <2>6, <2>7, <2>8 DEF EntryStep, SessionStep
<1>8. CASE ~(Migrate(e) \/ SessionAccepted(e) \/ OperationEnds(e) \/ Remove(e))
  <2>1. entry' = entry
    BY <1>8
    DEF EntryStep, SetupStarts, SetupAtNight, Reload, PollFails, PollOpens,
        PollRefused, SessionStep, NetIdChangeSeen, OtherInverterSeen,
        OperationFails, UserReloads, PasswordRefused, entryVars
  <2>2. QED
    BY <1>7, <2>1
<1>9. QED
  BY <1>3, <1>4, <1>5, <1>6, <1>8

LEMMA EntryStepKeeps ==
    ASSUME Shapes, UniqueIdsDistinct, NEW e \in Entry, EntryStep(e)
    PROVE  Shapes' /\ UniqueIdsDistinct'
BY EntryStepEffect, SameIds DEF Shapes

-----------------------------------------------------------------------------
(* Flows.                                                                  *)

\* A flow has all fields of an entry.
LEMMA PendingIsEntry ==
    ASSUME NEW f \in Flow
    PROVE  IsEntry(Pending(f)) /\ Pending(f).uid = UniqueId(flow[f].probe)
BY DEF Pending, IsEntry

\* A confirmation gives the entry a unique id no other entry has.
LEMMA ConfirmKeeps ==
    ASSUME Shapes, UniqueIdsDistinct, NEW f \in Flow, NEW e \in Entry,
           Confirm(f, e) \/ ConfirmReconfigure(f, e)
    PROVE  Shapes' /\ UniqueIdsDistinct'
<1> DEFINE id == UniqueId(flow[f].probe)
<1>1. /\ entry' = [d \in Entry |-> entry'[d]]
      /\ entry'[e] = Pending(f) /\ \A d \in Entry \ {e} : entry'[d] = entry[d]
      /\ \A d \in Entry : IsEntry(entry'[d])
  BY PendingIsEntry, EntryReplaced DEF Confirm, ConfirmReconfigure
<1>2. flow' = [g \in Flow |-> flow'[g]]
  BY DEF Confirm, ConfirmReconfigure, Ends, Shapes
<1>3. /\ state' \in [Entry -> State]
      /\ \A d \in Entry \ {e} : Exists(d)' => Exists(d)
  BY DEF Confirm, ConfirmReconfigure, Shapes, State, Exists
<1>4. \A d \in Entry \ {e} : Exists(d) => entry[d].uid # id
  BY DEF Confirm, ConfirmReconfigure, Configured, None
<1>5. entry'[e].uid = id
  BY <1>1, PendingIsEntry
<1> HIDE DEF id
<1>6. UniqueIdsDistinct'
  BY <1>1, <1>3, <1>4, <1>5 DEF UniqueIdsDistinct
<1>7. QED
  BY <1>1, <1>2, <1>3, <1>6 DEF Shapes

\* The other steps of a flow leave entries and their states alone.
LEMMA FlowStepKeeps ==
    ASSUME Shapes, UniqueIdsDistinct, NEW f \in Flow, FlowStep(f)
    PROVE  Shapes' /\ UniqueIdsDistinct'
<1>1. CASE \E e \in Entry : Confirm(f, e) \/ ConfirmReconfigure(f, e)
  BY <1>1, ConfirmKeeps
<1>2. CASE ~\E e \in Entry : Confirm(f, e) \/ ConfirmReconfigure(f, e)
  <2>1. entry' = entry /\ state' = state
    BY <1>2
    DEF FlowStep, Begin, StartFlow, Discovering, Discovered, Submit, ProbeOpens,
        ProbeFails, Validated, FlowAborts, Reauthenticated, entryVars
  <2>2. flow' = [g \in Flow |-> flow'[g]]
    BY <1>2
    DEF FlowStep, Begin, StartFlow, Discovering, Discovered, Submit, ProbeOpens,
        ProbeFails, Validated, FlowAborts, Reauthenticated, Ends, Shapes
  <2>3. Shapes'
    BY <2>1, <2>2 DEF Shapes
  <2>4. QED
    BY <2>1, <2>3, SameIds DEF Exists
<1>3. QED
  BY <1>1, <1>2

-----------------------------------------------------------------------------
(* The specification.                                                      *)

LEMMA ConfigInitInv == ASSUME Init PROVE ConfigInv
<1>1. /\ entry \in [Entry -> {Absent} \cup UNION {Old(e) : e \in Legacy}]
      /\ \A e \in Entry : entry[e] \in IF e \in Legacy THEN Old(e) ELSE {Absent}
  BY DEF Init
<1>2. IsEntry(Absent)
  BY DEF Absent, IsEntry
<1>3. ASSUME NEW e \in Entry, NEW r \in Old(e)
      PROVE  IsEntry(r) /\ r.uid = <<"legacy", e>>
  <2>1. r.uid = <<"legacy", e>>
    BY DEF Old
  <2>2. IsEntry(r)
    BY DEF Old, IsEntry
  <2>3. QED
    BY <2>1, <2>2
<1>4. Shapes
  <2>1. \A e \in Entry : IsEntry(entry[e])
    BY <1>1, <1>2, <1>3
  <2>2. entry = [e \in Entry |-> entry[e]]
    BY <1>1
  <2>3. state \in [Entry -> State] /\ flow = [f \in Flow |-> flow[f]]
    BY DEF Init, State
  <2>4. QED
    BY <2>1, <2>2, <2>3 DEF Shapes
<1>5. UniqueIdsDistinct
  <2>1. ASSUME NEW e \in Entry, Exists(e)
        PROVE  entry[e].uid = <<"legacy", e>>
    <3>1. e \in Legacy
      BY <2>1 DEF Init, Exists
    <3>2. QED
      BY <1>1, <1>3, <3>1
  <2>2. QED
    BY <2>1 DEF UniqueIdsDistinct
<1>6. DiscoveryType /\ NoInquiryLeftBehind
  BY DEF Init, DiscoveryInit, NoDiscovery, DiscoveryType, Call, NoInquiryLeftBehind, Over, Flow
<1>7. QED
  BY <1>4, <1>5, <1>6 DEF ConfigInv

LEMMA ConfigNextInv == ASSUME ConfigInv, [Next]_vars PROVE ConfigInv'
<1>1. Shapes /\ UniqueIdsDistinct
  BY DEF ConfigInv
<1>2. Shapes' /\ UniqueIdsDistinct'
  <2>1. CASE UNCHANGED <<entry, state, flow>>
    BY <1>1, <2>1 DEF Shapes, UniqueIdsDistinct, Exists
  <2>2. ASSUME NEW e \in Entry, EntryStep(e) PROVE Shapes' /\ UniqueIdsDistinct'
    BY <1>1, <2>2, EntryStepKeeps
  <2>3. ASSUME NEW f \in Flow, FlowStep(f) PROVE Shapes' /\ UniqueIdsDistinct'
    BY <1>1, <2>3, FlowStepKeeps
  <2>4. QED
    BY <2>1, <2>2, <2>3 DEF Next, vars, entryVars, TurnWheel
<1>3. QED
  BY <1>2, DiscoveryKept DEF ConfigInv

\* The inductive invariant of the specification.
THEOREM ConfigInvariant == Spec => []ConfigInv
<1>1. QED
  BY ConfigInitInv, ConfigNextInv, PTL DEF Spec

\* No two entries have one unique id, however reconfigurations, removals and
\* sessions are interleaved (config_flow.py, already_configured).
THEOREM ConfigUniqueIdsDistinct == Spec => []UniqueIdsDistinct
<1>1. ConfigInv => UniqueIdsDistinct
  BY DEF ConfigInv
<1>2. QED
  BY <1>1, ConfigInvariant, PTL

\* Whatever fails in a discovery, no adapter is left inquiring once the call
\* is over (discovery.py).
THEOREM ConfigNoInquiryLeftBehind == Spec => []NoInquiryLeftBehind
<1>1. ConfigInv => NoInquiryLeftBehind
  BY DEF ConfigInv
<1>2. QED
  BY <1>1, ConfigInvariant, PTL

\* A step that changes the NetID of an entry that knows one.
LEMMA NetWriters ==
    ASSUME Shapes, NEW e \in Entry, Next, entry'[e].net # entry[e].net,
           entry[e].net # None
    PROVE  \/ ~Exists(e)' \/ copy[e].net = None
           \/ \E f \in Flow : flow[f].step = "confirm" /\ flow'[f].step = "none"
<1>0. IsEntry(entry[e])
  BY DEF Shapes
<1>1. ASSUME NEW d \in Entry, EntryStep(d)
      PROVE  ~Exists(e)' \/ copy[e].net = None
  <2>0. IsEntry(entry[d])
    BY DEF Shapes
  <2>1. CASE Migrate(d)
    <3>1. PICK m, s : entry' = [entry EXCEPT ![d] = WithMode(entry[d], m, s)]
      BY <2>1 DEF Migrate, Shapes, WithMode
    <3>2. IsEntry(WithMode(entry[d], m, s)) /\ WithMode(entry[d], m, s).net = entry[d].net
      BY <2>0, ModeWritten
    <3>3. QED
      BY <3>1, <3>2, EntryReplaced
  <2>2. CASE SessionAccepted(d)
    <3>1. PICK n, s : /\ entry' = [entry EXCEPT ![d] = WithNet(entry[d], n, s)]
                      /\ copy[d].net # None => n = entry[d].net
      BY <2>2 DEF SessionAccepted, Learned, Shapes, WithNet
    <3>2. IsEntry(WithNet(entry[d], n, s)) /\ WithNet(entry[d], n, s).net = n
      BY <2>0, NetWritten
    <3>3. QED
      BY <3>1, <3>2, EntryReplaced
  <2>3. CASE OperationEnds(d)
    <3>1. PICK k : entry' = [entry EXCEPT ![d] = WithKnown(entry[d], k)]
      BY <2>3 DEF OperationEnds, Shapes, WithKnown
    <3>2. /\ IsEntry(WithKnown(entry[d], k))
          /\ WithKnown(entry[d], k).net = entry[d].net
      BY <2>0, KnownWritten
    <3>3. QED
      BY <3>1, <3>2, EntryReplaced
  <2>4. CASE Remove(d)
    <3>1. /\ entry' = [entry EXCEPT ![d] = Absent]
          /\ state' = [state EXCEPT ![d] = "removed"] /\ state \in [Entry -> State]
      BY <2>4 DEF Remove, Shapes
    <3>2. QED
      BY <3>1 DEF Exists
  <2>5. CASE ~(Migrate(d) \/ SessionAccepted(d) \/ OperationEnds(d) \/ Remove(d))
    <3>1. entry' = entry
      BY <1>1, <2>5
      DEF EntryStep, SetupStarts, SetupAtNight, Reload, PollFails, PollOpens,
          PollRefused, SessionStep, NetIdChangeSeen, OtherInverterSeen,
          OperationFails, UserReloads, PasswordRefused, entryVars
    <3>2. QED
      BY <3>1
  <2>6. QED
    BY <2>1, <2>2, <2>3, <2>4, <2>5
<1>2. ASSUME NEW f \in Flow, FlowStep(f)
      PROVE  flow[f].step = "confirm" /\ flow'[f].step = "none"
  <2>1. entry' # entry
    OBVIOUS
  <2>2. \E d \in Entry : Confirm(f, d) \/ ConfirmReconfigure(f, d)
    BY <1>2, <2>1
    DEF FlowStep, Begin, StartFlow, Discovering, Discovered, Submit, ProbeOpens,
        ProbeFails, Validated, FlowAborts, Reauthenticated, entryVars
  <2>3. QED
    BY <2>2 DEF Confirm, ConfirmReconfigure, Ends, Idle, Shapes
<1>3. QED
  BY <1>1, <1>2 DEF Next, TurnWheel, entryVars

\* A NetID the entry knows is replaced by a confirmation, or learned by a
\* coordinator that was built before there was one (coordinator.py).
THEOREM ConfigConfirmedTopologyKept == Spec => ConfirmedTopologyKept
<1> DEFINE Kept ==
        \A e \in Entry :
           entry[e].net # None /\ entry'[e].net # entry[e].net =>
              \/ ~Exists(e)' \/ copy[e].net = None
              \/ \E f \in Flow : flow[f].step = "confirm" /\ flow'[f].step = "none"
<1>1. ConfigInv /\ [Next]_vars => [Kept]_vars
  <2>1. SUFFICES ASSUME ConfigInv, Next PROVE Kept
    OBVIOUS
  <2>2. QED
    BY <2>1, NetWriters DEF ConfigInv
<1>2. QED
  BY <1>1, ConfigInvariant, PTL DEF Spec, ConfirmedTopologyKept
=============================================================================
