----------------------------- MODULE ConfigFlow -----------------------------
(***************************************************************************
  The topology an entry stores, and everything that compares it with the
  plant: the config flows (config_flow.py), the session checks of a
  coordinator (_apply_session_metadata), the NetID repairs (ownership.py) and
  the life of an entry from migration to removal (__init__.py).

  Each inverter has a NetID wheel.  NetID 1 is a direct connection, inverters
  with an equal NetID from 2 on form a network.  An inverter is addressed by
  its serial here.  A coordinator works with the copies it took of the entry's
  data when it was built; a flow changes the data and asks for a reload, which
  Home Assistant runs once no set-up of the entry is in progress.
 ***************************************************************************)
EXTENDS Integers, FiniteSetsExt, Discovery

CONSTANTS
    Serial,       \* inverters, natural numbers: the unique id names the least
    Entry,
    Legacy,       \* entries of schema version 1 from before
    NetId,        \* positions of the wheel
    Plant,        \* positions of the wheels to begin with: [Serial -> NetId]
    Mode,         \* the connection modes offered, of auto, single and network
    MaxChanges,   \* bound: wheels turned, entries reloaded or removed by the user
    MaxFlows      \* bound: flows started

ASSUME ConfigAssumption ==
    /\ Serial \subseteq Nat \ {0} /\ NetId \subseteq Nat \ {0} /\ 1 \in NetId
    /\ Mode \subseteq {"auto", "single", "network"} /\ "auto" \in Mode
    /\ 0 \notin Entry /\ Entry \cap Caller = {}
    /\ Legacy \subseteq Entry /\ Plant \subseteq [Serial -> NetId]
    /\ MaxChanges \in Nat /\ MaxFlows \in Nat

Flow == Caller
None == 0
Kind == {"network_to_single", "single_to_network", "netid_changed"}
NoOne == <<"no one">>

VARIABLES
    netid,        \* the plant: [Serial -> NetId]
    entry,        \* [Entry -> stored data and options]
    state,        \* [Entry -> the entry's state in Home Assistant]
    copy,         \* [Entry -> the topology its coordinator works with]
    issues,       \* [Entry -> Kind]: NetID issues in the registry
    reload,       \* entries with a reload to come
    flow,         \* [Flow -> state of a config flow]
    radio,        \* the session on the adapter: its task and what it found
    changes, flows  \* counters of the bounds

entryVars == <<entry, state, copy, issues, reload>>
bounds == <<changes, flows>>
vars == <<netid, entryVars, flow, radio, bounds, discoveryVars>>

NoProbe == [net |-> None, eff |-> "none", serials |-> {}]
Nowhere == [addr |-> None, mode |-> "auto"]
Idle == [step |-> "none", kind |-> "none", of |-> None, want |-> Nowhere, probe |-> NoProbe]
Started(kind, e, step) == [Idle EXCEPT !.kind = kind, !.of = e, !.step = step]

Absent == [addr |-> None, mode |-> "auto", net |-> None, sel |-> None,
           uid |-> <<"none", None>>, known |-> {}]
Exists(e) == state[e] \notin {"absent", "removed"}

\* States: "absent" (not yet created), "old" (schema version 1), "unloaded" (to
\* be set up, also after a failed attempt), "setup" (first refresh), "loaded",
\* "removed" (ids are not used again), "error" and "refused": a set-up ended by
\* ConfigEntryError or ConfigEntryAuthFailed, not repeated, and "unpolled":
\* loaded, but the password was refused and no refresh is to come.
State == {"absent", "old", "unloaded", "setup", "loaded", "unpolled",
          "error", "refused", "removed"}

NoTopology == [addr |-> None, mode |-> "auto", net |-> None, sel |-> None]
Settled == {"unloaded", "loaded", "unpolled", "error", "refused"}

Topology(e) == [addr |-> entry[e].addr, mode |-> entry[e].mode,
                net |-> entry[e].net, sel |-> entry[e].sel]

_effective_mode(mode, net) ==
    IF mode = "single" \/ (mode = "auto" /\ net = 1) THEN "single" ELSE "network"

----------------------------------------------------------------------------
(* Sessions *)

\* What a session finds when it connects to an address in a mode: inverters
\* of the network may not answer.  Network mode on NetID 1 is an error.
Found(addr, mode) ==
    LET n   == netid[addr]
        eff == _effective_mode(mode, n)
    IN  IF mode = "network" /\ n = 1
        THEN {[net |-> n, eff |-> "refused", serials |-> {}]}
        ELSE {[net |-> n, eff |-> eff, serials |-> S] :
                S \in IF eff = "single" THEN {{addr}}
                      ELSE {T \in SUBSET {t \in Serial : netid[t] = n} : addr \in T}}

Free == radio = NoOne
Open(who, found) == radio' = <<who, found, "checking">>
Holds(who) == ~Free /\ radio[1] = who
Session == radio[2]

\* async_note_netid_change compares with the entry's data, not with the
\* coordinator's copy; issues of other kinds stay.
ChangeKind(e, detected) ==
    LET old == IF entry[e].net # None THEN _effective_mode(entry[e].mode, entry[e].net)
               ELSE IF entry[e].mode = "network" THEN "network" ELSE "single"
    IN  IF old = "network" /\ detected = 1 THEN "network_to_single"
        ELSE IF old = "single" /\ _effective_mode(entry[e].mode, detected) = "network"
        THEN "single_to_network" ELSE "netid_changed"

async_note_netid_change(e, detected) ==
    issues' = [issues EXCEPT ![e] = @ \cup {ChangeKind(e, detected)}]

\* Mutant: only the issue of the kind that would be raised now is deleted.
async_clear_netid_issuesOne(e) ==
    issues' = [issues EXCEPT ![e] = @ \ {ChangeKind(e, entry[e].net)}]

async_clear_netid_issues(e) == issues' = [issues EXCEPT ![e] = {}]

\* How a refresh ends: a first one that fails is tried again, a first one that
\* ends in ConfigEntryError is not; later ones leave the entry loaded, without a
\* next refresh when the password was refused.  A failed set-up discards the
\* coordinator.
Refreshed(e, failed) ==
    /\ radio' = NoOne
    /\ state' = [state EXCEPT ![e] = IF @ = "setup" THEN failed
                                     ELSE IF failed = "refused" THEN "unpolled" ELSE @]
    /\ copy' = [copy EXCEPT ![e] = IF state[e] = "setup" /\ failed # "loaded" THEN NoTopology ELSE @]

\* async_setup_entry builds the coordinator.
SetupStarts(e) ==
    /\ state[e] = "unloaded"
    /\ state' = [state EXCEPT ![e] = "setup"]
    /\ copy' = [copy EXCEPT ![e] = Topology(e)]
    /\ UNCHANGED <<netid, entry, issues, reload, flow, radio, bounds, discoveryVars>>

\* At night the first refresh ends without a session.
SetupAtNight(e) ==
    /\ state[e] = "setup" /\ ~Holds(e)
    /\ state' = [state EXCEPT ![e] = "loaded"]
    /\ UNCHANGED <<netid, entry, copy, issues, reload, flow, radio, bounds, discoveryVars>>

Polls(e) == state[e] \in {"setup", "loaded"} /\ Free

PollFails(e) ==
    /\ Polls(e)
    /\ Refreshed(e, "unloaded")
    /\ UNCHANGED <<netid, entry, issues, reload, flow, bounds, discoveryVars>>

PollOpens(e) ==
    /\ Polls(e)
    /\ \E found \in Found(copy[e].addr, copy[e].mode) :
         /\ found.eff # "refused"
         /\ Open(e, found)
    /\ UNCHANGED <<netid, entryVars, flow, bounds, discoveryVars>>

\* Mutant: the mode error is handled like any other configuration error.
PollRefusedSilent(e) ==
    /\ Polls(e)
    /\ \E found \in Found(copy[e].addr, copy[e].mode) : found.eff = "refused"
    /\ Refreshed(e, "error")
    /\ UNCHANGED <<netid, entry, issues, reload, flow, bounds, discoveryVars>>

\* SMANetworkModeError: the session ends while it is set up, and the change is
\* noted by the poll itself.
PollRefused(e) ==
    /\ Polls(e)
    /\ \E found \in Found(copy[e].addr, copy[e].mode) :
         found.eff = "refused" /\ async_note_netid_change(e, found.net)
    /\ Refreshed(e, "error")
    /\ UNCHANGED <<netid, entry, reload, flow, bounds, discoveryVars>>

NetIdChanged(e) == copy[e].net \notin {None, Session.net}
OtherInverter(e) ==
    copy[e].sel # None /\ Session.eff = "single" /\ Session.serials # {copy[e].sel}

\* _apply_session_metadata raises SMANetIDChangedError.
NetIdChangeSeen(e) ==
    /\ Holds(e) /\ NetIdChanged(e)
    /\ async_note_netid_change(e, Session.net)
    /\ Refreshed(e, "error")
    /\ UNCHANGED <<netid, entry, reload, flow, bounds, discoveryVars>>

\* ... or SMAProtocolError: another inverter answers.
OtherInverterSeen(e) ==
    /\ Holds(e) /\ ~NetIdChanged(e) /\ OtherInverter(e)
    /\ Refreshed(e, "unloaded")
    /\ UNCHANGED <<netid, entry, issues, reload, flow, bounds, discoveryVars>>

Only(S) == CHOOSE s \in S : TRUE

\* Mutant: the NetID of a session replaces the confirmed one.
LearnedAlways(e, t) ==
    [t EXCEPT !.net = Session.net,
              !.sel = IF @ = None /\ Session.eff = "single" THEN Only(Session.serials) ELSE @]

\* What the coordinator learns where its copies hold nothing yet.
Learned(e, t) ==
    [t EXCEPT !.net = IF copy[e].net = None THEN Session.net ELSE @,
              !.sel = IF copy[e].sel = None /\ Session.eff = "single"
                      THEN Only(Session.serials) ELSE @]

\* _apply_session_metadata accepts the session, before the operation.
SessionAccepted(e) ==
    /\ Holds(e) /\ radio[3] = "checking"
    /\ ~NetIdChanged(e) /\ ~OtherInverter(e)
    /\ entry' = [entry EXCEPT ![e] = Learned(e, @)]
    /\ copy' = [copy EXCEPT ![e] = Learned(e, @)]
    /\ async_clear_netid_issues(e)
    /\ radio' = [radio EXCEPT ![3] = "accepted"]
    /\ UNCHANGED <<netid, state, reload, flow, bounds, discoveryVars>>

Reauthenticates(f, e) == flow[f].kind = "reauth" /\ flow[f].of = e

\* The inverters refuse the password: a reauth flow is started, unless one is
\* open for the entry, and the entry is not polled any more.
PasswordRefused(e, f) ==
    /\ Polls(e)
    /\ \/ /\ \E g \in Flow : Reauthenticates(g, e)
          /\ UNCHANGED <<flow, flows>>
       \/ /\ \A g \in Flow : ~Reauthenticates(g, e)
          /\ flows < MaxFlows /\ flow[f].step = "none"
          /\ flow' = [flow EXCEPT ![f] = Started("reauth", e, "form")]
          /\ flows' = flows + 1
    /\ Refreshed(e, "refused")
    /\ UNCHANGED <<netid, entry, issues, reload, changes, discoveryVars>>

\* The operation fails, or ends: the session is checked again with the same
\* outcome, and the serials are remembered.
OperationFails(e) ==
    /\ Holds(e) /\ radio[3] = "accepted"
    /\ Refreshed(e, "unloaded")
    /\ UNCHANGED <<netid, entry, issues, reload, flow, bounds, discoveryVars>>

OperationEnds(e) ==
    /\ Holds(e) /\ radio[3] = "accepted"
    /\ async_clear_netid_issues(e)
    /\ entry' = [entry EXCEPT ![e].known = Session.serials]
    /\ Refreshed(e, "loaded")
    /\ UNCHANGED <<netid, reload, flow, bounds, discoveryVars>>

----------------------------------------------------------------------------
(* Entries *)

\* A session of the entry is cancelled with its coordinator.
Cancelled(e) == radio' = IF Holds(e) THEN NoOne ELSE radio

\* async_migrate_entry: a version-1 entry has an address and perhaps a cache
\* of serials; the mode and the selected serial are derived from the cache.
Migrate(e) ==
    /\ state[e] = "old"
    /\ LET known == entry[e].known
       IN  entry' = [entry EXCEPT
             ![e].mode = IF Cardinality(known) > 1 THEN "network" ELSE "auto",
             ![e].sel  = IF Cardinality(known) = 1 THEN Only(known) ELSE None]
    /\ state' = [state EXCEPT ![e] = "unloaded"]
    /\ UNCHANGED <<netid, copy, issues, reload, flow, radio, bounds, discoveryVars>>

\* A reload: unload cancels the poll, set-up follows.  It waits for a set-up
\* in progress.
Reload(e) ==
    /\ e \in reload /\ state[e] \in Settled
    /\ reload' = reload \ {e}
    /\ state' = [state EXCEPT ![e] = "unloaded"]
    /\ copy' = [copy EXCEPT ![e] = NoTopology]
    /\ Cancelled(e)
    /\ UNCHANGED <<netid, entry, issues, flow, bounds, discoveryVars>>

Change == changes < MaxChanges /\ changes' = changes + 1 /\ UNCHANGED flows

UserReloads(e) ==
    /\ Change
    /\ state[e] \in Settled /\ e \notin reload
    /\ reload' = reload \cup {e}
    /\ UNCHANGED <<netid, entry, state, copy, issues, flow, radio, discoveryVars>>

\* Mutant: the session of a removed entry goes on.
RemoveRunning(e) ==
    /\ Change
    /\ state[e] \in Settled
    /\ state' = [state EXCEPT ![e] = "removed"]
    /\ entry' = [entry EXCEPT ![e] = Absent]
    /\ copy' = [copy EXCEPT ![e] = NoTopology]
    /\ reload' = reload \ {e}
    /\ UNCHANGED <<netid, issues, flow, radio, discoveryVars>>

\* Removal, and async_remove_entry: overlap issues are refreshed, issues about
\* the NetID stay.  A flow that is about the entry can only be aborted.
Remove(e) ==
    /\ Change
    /\ state[e] \in Settled
    /\ state' = [state EXCEPT ![e] = "removed"]
    /\ entry' = [entry EXCEPT ![e] = Absent]
    /\ copy' = [copy EXCEPT ![e] = NoTopology]
    /\ reload' = reload \ {e}
    /\ Cancelled(e)
    /\ UNCHANGED <<netid, issues, flow, discoveryVars>>

\* The user turns the wheel of an inverter.
TurnWheel(s) ==
    /\ Change
    /\ \E n \in NetId \ {netid[s]} : netid' = [netid EXCEPT ![s] = n]
    /\ UNCHANGED <<entryVars, flow, radio, discoveryVars>>

----------------------------------------------------------------------------
(* Config flows *)

Ends(f) == flow' = [flow EXCEPT ![f] = Idle]

\* async_step_user and async_step_reconfigure look for inverters first.
StartFlow(f, kind, e) ==
    /\ flows < MaxFlows /\ flow[f].step = "none"
    /\ flows' = flows + 1
    /\ Discover(f)
    /\ flow' = [flow EXCEPT ![f] = Started(kind, e, "discover")]
    /\ UNCHANGED <<netid, entryVars, radio, changes>>

Begin(f) == \/ StartFlow(f, "user", None)
            \/ \E e \in Entry : Exists(e) /\ StartFlow(f, "reconfigure", e)

Discovering(f) ==
    /\ DiscoveryStep(f)
    /\ UNCHANGED <<netid, entryVars, flow, radio, bounds>>

\* The form, whether or not anything was found.
Discovered(f) ==
    /\ flow[f].step = "discover" /\ discovery[f].phase \in Over
    /\ flow' = [flow EXCEPT ![f].step = "form"]
    /\ discovery' = [discovery EXCEPT ![f] = NoDiscovery]
    /\ UNCHANGED <<netid, entryVars, radio, bounds, inquiring>>

\* The form is submitted: an address and a mode, or the entry's for a reauth.
Submit(f) ==
    /\ flow[f].step = "form"
    /\ \E want \in IF flow[f].kind = "reauth"
                   THEN {[addr |-> entry[e].addr, mode |-> entry[e].mode] :
                           e \in {e \in Entry : e = flow[f].of /\ Exists(e)}}
                   ELSE [addr : Serial, mode : Mode] :
         flow' = [flow EXCEPT ![f].want = want, ![f].step = "probe"]
    /\ UNCHANGED <<netid, entryVars, radio, bounds, discoveryVars>>

\* _async_probe: a session of the gate ...
ProbeOpens(f) ==
    /\ flow[f].step = "probe" /\ Free
    /\ \E found \in Found(flow[f].want.addr, flow[f].want.mode) : Open(f, found)
    /\ UNCHANGED <<netid, entryVars, flow, bounds, discoveryVars>>

\* ... that fails, or cannot be opened: back to the form with an error.
ProbeFails(f) ==
    /\ flow[f].step = "probe" /\ (Free \/ Holds(f))
    /\ flow' = [flow EXCEPT ![f].want = Nowhere, ![f].step = "form"]
    /\ radio' = NoOne
    /\ UNCHANGED <<netid, entryVars, bounds, discoveryVars>>

Overlap(serials, e) ==
    \E d \in Entry \ {e} : Exists(d) /\ entry[d].known \cap serials # {}

UniqueId(probe) == <<probe.eff, Min(probe.serials)>>

\* _async_validate of a user or a reconfigure flow: without an overlap the
\* result waits for confirmation.
Validated(f) ==
    /\ flow[f].kind # "reauth" /\ Holds(f) /\ Session.eff # "refused"
    /\ radio' = NoOne
    /\ flow' = [flow EXCEPT ![f] =
          IF Overlap(Session.serials, @.of)
          THEN [@ EXCEPT !.want = Nowhere, !.step = "form"]
          ELSE [@ EXCEPT !.probe = Session, !.step = "confirm"]]
    /\ UNCHANGED <<netid, entryVars, bounds, discoveryVars>>

\* async_step_reauth_confirm: another plant or NetID ends the flow, else the
\* password is stored and the entry reloaded.
Reauthenticated(f, e) ==
    /\ flow[f].kind = "reauth" /\ flow[f].of = e /\ Exists(e)
    /\ Holds(f) /\ Session.eff # "refused"
    /\ reload' = IF UniqueId(Session) = entry[e].uid /\ entry[e].net \in {None, Session.net}
                 THEN reload \cup {e} ELSE reload
    /\ radio' = NoOne
    /\ Ends(f)
    /\ UNCHANGED <<netid, entry, state, copy, issues, bounds, discoveryVars>>

\* _pending_entry_values
Pending(f) ==
    LET p == flow[f].probe
    IN  [addr |-> flow[f].want.addr, mode |-> flow[f].want.mode, net |-> p.net,
         sel  |-> IF p.eff = "single" THEN Only(p.serials) ELSE None,
         uid  |-> UniqueId(p), known |-> p.serials]

Configured(uid, e) == \E d \in Entry \ {e} : Exists(d) /\ entry[d].uid = uid

\* async_step_confirm creates the entry.
Confirm(f, e) ==
    /\ flow[f].kind = "user" /\ flow[f].step = "confirm" /\ state[e] = "absent"
    /\ ~Configured(UniqueId(flow[f].probe), None)
    /\ ~Overlap(flow[f].probe.serials, None)
    /\ entry' = [entry EXCEPT ![e] = Pending(f)]
    /\ state' = [state EXCEPT ![e] = "unloaded"]
    /\ Ends(f)
    /\ UNCHANGED <<netid, copy, issues, reload, radio, bounds, discoveryVars>>

\* Mutant: the unique id of another entry is taken.
ConfirmReconfigureUnchecked(f, e) ==
    /\ flow[f].kind = "reconfigure" /\ flow[f].of = e /\ flow[f].step = "confirm" /\ Exists(e)
    /\ ~Overlap(flow[f].probe.serials, e)
    /\ entry' = [entry EXCEPT ![e] = Pending(f)]
    /\ reload' = reload \cup {e}
    /\ Ends(f)
    /\ UNCHANGED <<netid, state, copy, issues, radio, bounds, discoveryVars>>

\* async_step_reconfigure_confirm replaces the entry's data and has it
\* reloaded; a coordinator that runs keeps its copies until then.
ConfirmReconfigure(f, e) ==
    /\ flow[f].kind = "reconfigure" /\ flow[f].of = e /\ flow[f].step = "confirm" /\ Exists(e)
    /\ ~Overlap(flow[f].probe.serials, e)
    /\ ~Configured(UniqueId(flow[f].probe), e)
    /\ entry' = [entry EXCEPT ![e] = Pending(f)]
    /\ reload' = reload \cup {e}
    /\ Ends(f)
    /\ UNCHANGED <<netid, state, copy, issues, radio, bounds, discoveryVars>>

\* already_configured, an entry that is gone, or the user closes the dialog.
FlowAborts(f) ==
    /\ flow[f].step \in {"form", "confirm"}
    /\ Ends(f)
    /\ UNCHANGED <<netid, entryVars, radio, bounds, discoveryVars>>

----------------------------------------------------------------------------

\* An entry of version 1 has an address, the serials it last saw, perhaps none,
\* and a unique id of another form.
Old(e) == [addr : Serial, mode : {"auto"}, net : {None}, sel : {None},
           uid : {<<"legacy", e>>}, known : SUBSET Serial]

Init ==
    /\ netid \in Plant
    /\ state = [e \in Entry |-> IF e \in Legacy THEN "old" ELSE "absent"]
    /\ entry \in {f \in [Entry -> {Absent} \cup UNION {Old(e) : e \in Legacy}] :
                  \A e \in Entry : f[e] \in IF e \in Legacy THEN Old(e) ELSE {Absent}}
    /\ copy = [e \in Entry |-> NoTopology]
    /\ issues = [e \in Entry |-> {}]
    /\ reload = {}
    /\ flow = [f \in Flow |-> Idle]
    /\ radio = NoOne
    /\ changes = 0 /\ flows = 0
    /\ DiscoveryInit

SessionStep(e) ==
    \/ NetIdChangeSeen(e) \/ OtherInverterSeen(e) \/ SessionAccepted(e)
    \/ OperationFails(e) \/ OperationEnds(e)

EntryStep(e) ==
    \/ Migrate(e) \/ SetupStarts(e) \/ SetupAtNight(e) \/ Reload(e)
    \/ PollFails(e) \/ PollOpens(e) \/ PollRefused(e) \/ SessionStep(e)
    \/ UserReloads(e) \/ Remove(e)
    \/ \E f \in Flow : PasswordRefused(e, f)

FlowStep(f) ==
    \/ Begin(f) \/ Discovering(f) \/ Discovered(f) \/ Submit(f)
    \/ ProbeOpens(f) \/ ProbeFails(f) \/ Validated(f) \/ FlowAborts(f)
    \/ \E e \in Entry : Reauthenticated(f, e) \/ Confirm(f, e) \/ ConfirmReconfigure(f, e)

Next ==
    \/ \E e \in Entry : EntryStep(e)
    \/ \E f \in Flow : FlowStep(f)
    \/ \E s \in Serial : TurnWheel(s)

Spec == Init /\ [][Next]_vars

\* Home Assistant sets entries up and reloads them; a session ends (the gate's
\* deadline), and the gate serves its callers in turn, so an entry that polls
\* again and again gets a session again and again. That is an entry with a
\* refresh to come: nothing is promised of one that waits for a password.
Fairness ==
    /\ \A e \in Entry :
        /\ WF_vars(Migrate(e)) /\ WF_vars(SetupStarts(e)) /\ WF_vars(Reload(e))
        /\ WF_vars(SessionStep(e))
        /\ SF_vars(PollOpens(e)) /\ SF_vars(PollRefused(e))
    /\ \A f \in Flow : WF_vars(ProbeFails(f) \/ Validated(f) \/ \E e \in Entry : Reauthenticated(f, e))

FairSpec == Spec /\ Fairness

----------------------------------------------------------------------------
(* What must hold *)

TypeOK ==
    /\ netid \in [Serial -> NetId]
    /\ \A e \in Entry :
        /\ state[e] \in State
        /\ entry[e].addr \in Serial \cup {None} /\ entry[e].mode \in Mode \cup {"network"}
        /\ entry[e].net \in NetId \cup {None} /\ entry[e].sel \in Serial \cup {None}
        /\ entry[e].known \subseteq Serial
        /\ Exists(e) => entry[e].addr # None
        /\ state[e] \in {"setup", "loaded", "unpolled"} => copy[e].addr # None
        /\ issues[e] \subseteq Kind
    /\ reload \subseteq {e \in Entry : Exists(e)}
    /\ \A f \in Flow : flow[f].step \in {"none", "discover", "form", "probe", "confirm"}
    /\ ~Free => \/ radio[1] \in Entry /\ state[radio[1]] \in {"setup", "loaded"}
                \/ radio[1] \in Flow /\ flow[radio[1]].step = "probe"

\* No two entries have one unique id, although the serials an entry knows
\* drift away from the ones it was named for: the overlap of serials alone
\* would let a reconfiguration take the id of another entry
\* (config_flow.py:392-398).
UniqueIdsDistinct ==
    \A d, e \in Entry : Exists(d) /\ Exists(e) /\ entry[d].uid = entry[e].uid => d = e

\* A NetID the entry knows is replaced by a confirmation, or by a coordinator
\* that was built before the entry had one; never by what a session found.
ConfirmedTopologyKept ==
    [][\A e \in Entry :
        entry[e].net # None /\ entry'[e].net # entry[e].net =>
            \/ ~Exists(e)' \/ copy[e].net = None
            \/ \E f \in Flow : flow[f].step = "confirm" /\ flow'[f].step = "none"]_vars

\* "The new connection and detected topology must be tested and explicitly
\* confirmed before the settings are saved" (README.md:205-206): the connection
\* an entry has once a flow has confirmed it changes only by the next one.
OnlyConfirmedChanges ==
    [][\A e \in Entry :
        entry[e].net # None /\ Exists(e)' =>
            \/ <<entry'[e].net, entry'[e].sel>> = <<entry[e].net, entry[e].sel>>
            \/ entry[e].sel = None /\ entry'[e].net = entry[e].net
            \/ \E f \in Flow : flow[f].step = "confirm" /\ flow'[f].step = "none"]_vars

Refused(e) == entry[e].mode = "network" /\ netid[entry[e].addr] = 1
Differs(e) == entry[e].net \notin {None, netid[entry[e].addr]}
Effective(e) == _effective_mode(entry[e].mode, netid[entry[e].addr])
Fits(e) == /\ ~Refused(e) /\ ~Differs(e)
           /\ Effective(e) = "single" => entry[e].sel \in {None, entry[e].addr}

\* No refresh or set-up is to come until the user has given a password.
AwaitsPassword(e) == state[e] \in {"refused", "unpolled"}

\* Once plant and user are quiet, an entry whose NetID is not the plant's has
\* an issue that says so, whatever polls, reloads, flows and refused passwords
\* did before; one whose password is still refused does not see the plant.
MismatchReported ==
    <>[](\A e \in Entry :
            Exists(e) /\ ~AwaitsPassword(e) /\ (Refused(e) \/ Differs(e)) => issues[e] # {})

\* ... and one whose connection is the plant's has none, of any kind: all of
\* them are cleared, the ones of earlier changes as well. A set-up that ended
\* in an error is not repeated by itself and keeps its issue, like an entry
\* that waits for a password.
MatchClears ==
    <>[](\A e \in Entry :
            Exists(e) /\ ~AwaitsPassword(e) /\ state[e] # "error" /\ Fits(e) => issues[e] = {})
=============================================================================
