------------------------------ MODULE Ownership ------------------------------
(***************************************************************************)
(* Which config entry owns which inverter (ownership.py), with the callers *)
(* that change it: setup and polls (coordinator.py, __init__.py), the      *)
(* confirmation of config flows (config_flow.py), removal of an entry and  *)
(* of a device (__init__.py), and the entities the platforms add.          *)
(*                                                                         *)
(* An entry claims the serials of its last identity snapshot (known). Two  *)
(* plants can share an inverter, for instance while a direct connection is *)
(* turned into a network, so claims overlap; a poll then decides who owns  *)
(* the serial from the registry rows, a repair issue tells the user, and   *)
(* rows move once a single claimant is left.                               *)
(***************************************************************************)
EXTENDS Naturals, FiniteSets

CONSTANTS
    Serial,
    Entry,          \* entry ids, natural numbers: min() compares them
    Created,        \* created_at of each entry, another order than the ids
    SamePlant,      \* pairs of entries with equal plant name and password
    MaxChanges      \* bound: changes by the user or in the plant

ASSUME OwnershipConstants ==
    /\ Entry \subseteq Nat
    /\ Created \in [Entry -> Nat]
    /\ SamePlant \in SUBSET (Entry \X Entry)
    /\ MaxChanges \in Nat

VARIABLES
    entries,    \* hass.config_entries of the domain
    used,       \* entry ids given out so far: ids are never reused
    known,      \* known_inverters of each entry: the serials it claims
    loaded,     \* entries with a coordinator
    failing,    \* entries no set-up or poll succeeds for until something changes
    data,       \* the serials of coordinator.data
    owned,      \* coordinator.owned_serials
    rows,       \* per serial, the entries with entity or device rows of it
    overlap,    \* serials with a serial_overlap issue in the registry
    pending,    \* probed serials of config flows not yet confirmed
    visible,    \* the plant: serials that answer each entry's session
    changes

vars == <<entries, used, known, loaded, failing, data, owned, rows, overlap,
          pending, visible, changes>>

Snapshot == SUBSET Serial \ {{}}

TypeOK ==
    /\ entries \subseteq used
    /\ used \subseteq Entry
    /\ known \in [Entry -> SUBSET Serial]
    /\ loaded \subseteq entries
    /\ failing \subseteq entries
    /\ data \in [Entry -> SUBSET Serial]
    /\ owned \in [Entry -> SUBSET Serial]
    /\ rows \in [Serial -> SUBSET Entry]
    /\ overlap \subseteq Serial
    /\ pending \subseteq Snapshot
    /\ visible \in [Entry -> Snapshot]
    /\ changes \in 0 .. MaxChanges

Init ==
    /\ entries = {}
    /\ used = {}
    /\ known = [e \in Entry |-> {}]
    /\ loaded = {}
    /\ failing = {}
    /\ data = [e \in Entry |-> {}]
    /\ owned = [e \in Entry |-> {}]
    /\ rows = [s \in Serial |-> {}]
    /\ overlap = {}
    /\ pending = {}
    /\ visible \in [Entry -> Snapshot]
    /\ changes = 0

-----------------------------------------------------------------------------
(* ownership.py *)

\* entries_claiming_serials, for one serial.
Claimants(s, E, K) == {e \in E : s \in K[e]}

Overlapped(E, K) ==
    {s \in Serial : \E d, e \in E : d # e /\ s \in K[d] /\ s \in K[e]}

Oldest(E) == CHOOSE e \in E : \A d \in E \ {e} :
                Created[e] < Created[d] \/ (Created[e] = Created[d] /\ e < d)

LowestId(E) == CHOOSE e \in E : \A d \in E : e <= d

\* The owner async_reconcile_ownership picks for a serial that e has seen.
OwnerOf(e, s, K) ==
    LET valid == {o \in rows[s] \cap entries : s \in K[o]}
    IN  IF valid # {} THEN LowestId(valid)
        ELSE Oldest(Claimants(s, entries, K) \cup {e})

\* _move_serial_registries: the rows a serial has become the new owner's.
MoveRows(R, S, o) ==
    [s \in Serial |-> IF s \in S /\ R[s] # {} THEN {o} ELSE R[s]]

\* Mutant: issues are created, never deleted.
SyncOverlapIssuesAddOnly(E, K) == overlap' = overlap \cup Overlapped(E, K)

\* _sync_overlap_issues.
SyncOverlapIssues(E, K) == overlap' = Overlapped(E, K)

\* Mutant: rows follow the owner although another entry still claims them.
ReconcileEager(e, S, K) ==
    LET mine == {s \in S : OwnerOf(e, s, K) = e}
    IN  /\ owned' = [owned EXCEPT ![e] = mine]
        /\ rows' = MoveRows(rows, mine, e)
        /\ SyncOverlapIssues(entries, K)

\* Mutant: without rows, every claimant takes the serial for itself.
ReconcileGreedy(e, S, K) ==
    LET mine == {s \in S : rows[s] \subseteq {e} \/ OwnerOf(e, s, K) = e}
        sole == {s \in mine : Claimants(s, entries, K) \subseteq {e}}
    IN  /\ owned' = [owned EXCEPT ![e] = mine]
        /\ rows' = MoveRows(rows, sole, e)
        /\ SyncOverlapIssues(entries, K)

\* Mutant: ownership is decided from the serials the entry knew before.
ReconcileStale(e, S, K) ==
    LET mine == {s \in S \cup known[e] : OwnerOf(e, s, K) = e}
        sole == {s \in mine : Claimants(s, entries, K) \subseteq {e}}
    IN  /\ owned' = [owned EXCEPT ![e] = mine]
        /\ rows' = MoveRows(rows, sole, e)
        /\ SyncOverlapIssues(entries, K)

\* async_reconcile_ownership of entry e with the serials S of its data; K is
\* what every entry claims by then.
Reconcile(e, S, K) ==
    LET mine == {s \in S : OwnerOf(e, s, K) = e}
        sole == {s \in mine : Claimants(s, entries, K) \subseteq {e}}
    IN  /\ owned' = [owned EXCEPT ![e] = mine]
        /\ rows' = MoveRows(rows, sole, e)
        /\ SyncOverlapIssues(entries, K)

-----------------------------------------------------------------------------
(* The integration's own steps.                                            *)

\* A successful poll: _remember_inverters, then ownership, with no await in
\* between. A night poll leaves the snapshot as it is.
Poll(e) ==
    /\ e \in loaded \ failing
    /\ known' = [known EXCEPT ![e] = visible[e]]
    /\ data' = [data EXCEPT ![e] = visible[e]]
    /\ Reconcile(e, visible[e], known')
    /\ UNCHANGED <<entries, used, loaded, failing, pending, visible, changes>>

\* async_setup_entry: a first refresh by day reads the plant, at night it
\* returns the snapshot; both reconcile before the platforms are set up.
SetupEntry(e) ==
    /\ e \in entries \ (loaded \cup failing)
    /\ loaded' = loaded \cup {e}
    /\ \E S \in {visible[e], known[e]} :
          /\ known' = [known EXCEPT ![e] = S]
          /\ data' = [data EXCEPT ![e] = S]
          /\ Reconcile(e, S, known')
    /\ UNCHANGED <<entries, used, failing, pending, visible, changes>>

\* No refresh succeeds from now on: the plant is out of reach or on another
\* NetID, the password is refused, or the set-up has ended in an error or is
\* disabled and is not tried again. Snapshot, rows and, with a coordinator,
\* owned_serials stay. A failure that the next attempt overcomes changes
\* nothing here.
Fails(e) ==
    /\ e \in entries \ failing
    /\ failing' = failing \cup {e}
    /\ UNCHANGED <<entries, used, known, loaded, data, owned, rows, overlap,
                   pending, visible, changes>>

\* add_new_entities of the sensor and event platforms, run by Home Assistant
\* after the update: rows for a serial the entry owns, the first ones or those
\* of a measurement key not seen before.
AddEntities(e) ==
    /\ e \in loaded
    /\ \E s \in owned[e] :
          /\ e \notin rows[s]
          /\ rows' = [rows EXCEPT ![s] = @ \cup {e}]
    /\ UNCHANGED <<entries, used, known, loaded, failing, data, owned, overlap,
                   pending, visible, changes>>

-----------------------------------------------------------------------------
(* What the user and the plant do, a bounded number of times.              *)

Change ==
    /\ changes < MaxChanges
    /\ changes' = changes + 1

Unclaimed(S, E) == \A s \in S : Claimants(s, E, known) = {}

\* async_step_user / async_step_reconfigure: the probe found serials no other
\* entry claims, and the form waits for confirmation. A reconfigure flow
\* leaves its own entry out of the check, which adds the last disjunct.
Validate ==
    /\ \E S \in Snapshot \ pending :
          /\ \/ Unclaimed(S, entries)
             \/ \E e \in entries : Unclaimed(S, entries \ {e})
          /\ pending' = pending \cup {S}
    /\ UNCHANGED <<entries, used, known, loaded, failing, data, owned, rows,
                   overlap, visible, changes>>

\* Mutant: the claims are not checked again when the form is confirmed.
ConfirmUnchecked(e) ==
    /\ e \notin used
    /\ \E S \in pending :
          /\ pending' = pending \ {S}
          /\ known' = [known EXCEPT ![e] = S]
    /\ entries' = entries \cup {e}
    /\ used' = used \cup {e}
    /\ UNCHANGED <<loaded, failing, data, owned, rows, overlap, visible,
                   changes>>

\* async_step_confirm: claims are checked again, the entry is created and its
\* setup is left to Home Assistant.
Confirm(e) ==
    /\ e \notin used
    /\ \E S \in pending :
          /\ Unclaimed(S, entries)
          /\ pending' = pending \ {S}
          /\ known' = [known EXCEPT ![e] = S]
    /\ entries' = entries \cup {e}
    /\ used' = used \cup {e}
    /\ UNCHANGED <<loaded, failing, data, owned, rows, overlap, visible,
                   changes>>

\* async_step_reconfigure_confirm: the entry takes the probed serials and is
\* reloaded; issues are left to the setup that follows. The unload is part of
\* this step: a refresh that ends between the two is seen in ConfigFlow only.
ConfirmReconfigure(e) ==
    /\ Change
    /\ e \in entries
    /\ \E S \in pending :
          /\ Unclaimed(S, entries \ {e})
          /\ pending' = pending \ {S}
          /\ known' = [known EXCEPT ![e] = S]
    /\ loaded' = loaded \ {e}
    /\ failing' = failing \ {e}
    /\ data' = [data EXCEPT ![e] = {}]
    /\ owned' = [owned EXCEPT ![e] = {}]
    /\ UNCHANGED <<entries, used, rows, overlap, visible>>

\* What kept an entry from being set up or polled is over: the user has given
\* a password, turned the wheel, enabled or reloaded it, or the plant is back.
Recovers(e) ==
    /\ Change
    /\ e \in failing
    /\ failing' = failing \ {e}
    /\ UNCHANGED <<entries, used, known, loaded, data, owned, rows, overlap,
                   pending, visible>>

\* An entry is reloaded, or disabled: then Fails follows.
Unload(e) ==
    /\ Change
    /\ e \in loaded
    /\ loaded' = loaded \ {e}
    /\ failing' = failing \ {e}
    /\ data' = [data EXCEPT ![e] = {}]
    /\ owned' = [owned EXCEPT ![e] = {}]
    /\ UNCHANGED <<entries, used, known, rows, overlap, pending, visible>>

\* The entries async_transfer_departing_entry may find: same plant name and
\* password; whether both last saw the same network NetID is left open.
Successors(d) == SUBSET {o \in entries \ {d} : <<d, o>> \in SamePlant}

\* Mutant: the coordinator of a removed entry is left running.
RemoveLoaded(d) ==
    /\ Change
    /\ d \in entries
    /\ entries' = entries \ {d}
    /\ known' = [known EXCEPT ![d] = {}]
    /\ rows' = [s \in Serial |-> rows[s] \ {d}]
    /\ SyncOverlapIssues(entries', known')
    /\ failing' = failing \ {d}
    /\ UNCHANGED <<used, loaded, data, owned, pending, visible>>

\* An entry is removed. Home Assistant has dropped it from the entries when
\* async_remove_entry runs, and drops its registry rows afterwards.
Remove(d) ==
    /\ Change
    /\ d \in entries
    /\ entries' = entries \ {d}
    /\ loaded' = loaded \ {d}
    /\ failing' = failing \ {d}
    /\ data' = [data EXCEPT ![d] = {}]
    /\ owned' = [owned EXCEPT ![d] = {}]
    /\ \E C \in Successors(d) :
          \/ /\ Cardinality(C) # 1
             /\ known' = [known EXCEPT ![d] = {}]
             /\ rows' = [s \in Serial |-> rows[s] \ {d}]
          \/ \E o \in C :
                /\ C = {o}
                /\ known' = [known EXCEPT ![o] = @ \cup known[d], ![d] = {}]
                /\ LET moved == MoveRows(rows, known[d], o)
                   IN  rows' = [s \in Serial |-> moved[s] \ {d}]
    /\ SyncOverlapIssues(entries', known')
    /\ UNCHANGED <<used, pending, visible>>

\* async_remove_config_entry_device: only an inverter missing from the data.
\* The snapshot is written anew, without serials a removed entry passed on;
\* issues are left to the next poll.
RemoveDevice(e, s) ==
    /\ Change
    /\ e \in loaded
    /\ s \notin data[e]
    /\ e \in rows[s]
    /\ known' = [known EXCEPT ![e] = data[e]]
    /\ owned' = [owned EXCEPT ![e] = @ \ {s}]
    /\ rows' = [rows EXCEPT ![s] = @ \ {e}]
    /\ UNCHANGED <<entries, used, loaded, failing, data, overlap, pending,
                   visible>>

\* Inverters appear, disappear, or join another network.
PlantChanges(e) ==
    /\ Change
    /\ \E S \in Snapshot \ {visible[e]} : visible' = [visible EXCEPT ![e] = S]
    /\ UNCHANGED <<entries, used, known, loaded, failing, data, owned, rows,
                   overlap, pending>>

Next ==
    \/ Validate
    \/ \E e \in Entry :
        \/ Poll(e) \/ SetupEntry(e) \/ Fails(e) \/ AddEntities(e)
        \/ Confirm(e) \/ ConfirmReconfigure(e)
        \/ Recovers(e) \/ Unload(e) \/ Remove(e) \/ PlantChanges(e)
        \/ \E s \in Serial : RemoveDevice(e, s)

Spec == Init /\ [][Next]_vars

\* Home Assistant sets entries up, tries again what failed for a while, and
\* polls those it has set up. Nothing is promised of an entry that fails for
\* good: a set-up ended by ConfigEntryError or ConfigEntryAuthFailed is not
\* repeated, and no one polls without a password.
Fairness == \A e \in Entry : WF_vars(SetupEntry(e)) /\ WF_vars(Poll(e))

FairSpec == Spec /\ Fairness

-----------------------------------------------------------------------------
(* What must hold.                                                         *)

\* No overlap is hidden from the user: a serial two entries claim has its
\* repair issue in the very state the second claim appears, after polls,
\* concurrent config flows, reconfigurations and guided removals.
NoHiddenOverlap == Overlapped(entries, known) \subseteq overlap

\* An entry owns nothing it does not claim: entities never come from a
\* snapshot that a later poll or removal has changed.
OwnedIsClaimed == \A e \in loaded : owned[e] \subseteq known[e]

\* Rows leave an entry that stays only for the one entry that claims the
\* serial: a poll never takes the history of an inverter away from an entry
\* that still claims it.
RowsFollowSoleClaimant ==
    [][\A s \in Serial, e \in entries :
          (entries' = entries /\ changes' = changes
             /\ e \in rows[s] /\ e \notin rows'[s])
          => \E o \in entries : /\ rows'[s] = {o}
                                /\ Claimants(s, entries, known') = {o}]_vars

\* "Entity IDs and Recorder history are transferred only after exactly one
\* entry claims the serial" (strings.json:127), for every way rows move.
TransferredToSoleClaimant ==
    [][\A s \in Serial, o \in entries' :
          (rows[s] # {} /\ o \notin rows[s] /\ rows'[s] = {o})
          => Claimants(s, entries', known') = {o}]_vars

\* An issue whose overlap is resolved goes away, without a restart, unless no
\* entry is left that can be set up and polled.
ResolvedIssueCleared ==
    \A s \in Serial :
        (s \in overlap /\ s \notin Overlapped(entries, known))
            ~> (s \notin overlap \/ s \in Overlapped(entries, known)
                \/ entries \subseteq failing)

Working == loaded \ failing
Owners(s) == {e \in Working : s \in owned[e]}

\* A failing entry that still claims a serial may stay its owner; the issue of
\* the overlap names it.
HeldByFailing(s) ==
    /\ Owners(s) = {} /\ s \in overlap
    /\ \E d \in failing : s \in known[d]

\* Entries agree: once plant and user are quiet, every serial that some working
\* entry polls is owned by exactly one of them, although each decided alone,
\* or by none while the owner is an entry that cannot be polled.
OneOwnerInTheEnd ==
    <>[](\A s \in Serial :
            Claimants(s, Working, visible) # {} =>
                Cardinality(Owners(s)) = 1 \/ HeldByFailing(s))
=============================================================================
