--------------------------- MODULE OwnershipProofs ---------------------------
(***************************************************************************)
(* Proofs about Ownership for every set of serials and entries, every age  *)
(* and kinship of the entries, and every number of changes.                *)
(***************************************************************************)
EXTENDS Ownership, TLAPS

USE OwnershipConstants

\* What a coordinator holds comes from the snapshot of its entry: the missing
\* link between the serials an entry owns and those it claims, because the
\* removal of a device writes the snapshot anew from the data.
DataClaimed ==
    \A e \in loaded : owned[e] \subseteq data[e] /\ data[e] \subseteq known[e]

\* The inductive invariant.
OwnershipInv == TypeOK /\ DataClaimed /\ NoHiddenOverlap

-----------------------------------------------------------------------------
(* The operators of ownership.py.                                          *)

\* Moving the rows of some serials leaves a registry.
LEMMA MoveRowsType ==
    ASSUME NEW R \in [Serial -> SUBSET Entry], NEW S, NEW o \in Entry
    PROVE  MoveRows(R, S, o) \in [Serial -> SUBSET Entry]
BY DEF MoveRows

\* What a reconciliation may do: the entry owns only serials it has seen, no
\* other entry's owned serials change, rows move only to a sole claimant, and
\* the issues are those of the overlaps.
LEMMA ReconcileEffect ==
    ASSUME TypeOK, NEW e \in entries, NEW S \in SUBSET Serial, NEW K,
           Reconcile(e, S, K)
    PROVE  /\ owned' \in [Entry -> SUBSET Serial]
           /\ owned'[e] \subseteq S
           /\ \A d \in Entry \ {e} : owned'[d] = owned[d]
           /\ rows' \in [Serial -> SUBSET Entry]
           /\ \A s \in Serial :
                 \/ rows'[s] = rows[s]
                 \/ /\ rows'[s] = {e} /\ s \in S
                    /\ Claimants(s, entries, K) \subseteq {e}
           /\ overlap' = Overlapped(entries, K)
<1> DEFINE mine == {s \in S : OwnerOf(e, s, K) = e}
           sole == {s \in mine : Claimants(s, entries, K) \subseteq {e}}
<1>1. e \in Entry /\ mine \subseteq S
  BY DEF TypeOK
<1>2. /\ owned' = [owned EXCEPT ![e] = mine]
      /\ rows' = MoveRows(rows, sole, e)
      /\ overlap' = Overlapped(entries, K)
  BY DEF Reconcile, SyncOverlapIssues
<1>3. \A s \in sole : s \in S /\ Claimants(s, entries, K) \subseteq {e}
  OBVIOUS
<1> HIDE DEF mine, sole
<1>4. /\ owned' \in [Entry -> SUBSET Serial]
      /\ owned'[e] \subseteq S
      /\ \A d \in Entry \ {e} : owned'[d] = owned[d]
  BY <1>1, <1>2 DEF TypeOK
<1>5. rows' \in [Serial -> SUBSET Entry]
  BY <1>1, <1>2, MoveRowsType DEF TypeOK
<1>6. \A s \in Serial : rows'[s] = rows[s] \/ (rows'[s] = {e} /\ s \in sole)
  BY <1>2 DEF MoveRows
<1>7. QED
  BY <1>2, <1>3, <1>4, <1>5, <1>6

\* Serials nobody else claims add no overlap when an entry takes them: the
\* second check of a flow is what keeps the issues complete.
LEMMA UnclaimedAddsNone ==
    ASSUME TypeOK, NEW e \in Entry, NEW S \in SUBSET Serial,
           Unclaimed(S, entries \ {e})
    PROVE  Overlapped(entries \cup {e}, [known EXCEPT ![e] = S])
              \subseteq Overlapped(entries, known)
<1> DEFINE K == [known EXCEPT ![e] = S]
<1>1. \A d \in Entry : K[d] = IF d = e THEN S ELSE known[d]
  BY DEF TypeOK
<1>2. \A d \in entries \ {e} : \A s \in S : s \notin known[d]
  BY DEF Unclaimed, Claimants
<1>3. entries \subseteq Entry
  BY DEF TypeOK
<1> HIDE DEF K
<1>4. SUFFICES ASSUME NEW s \in Serial, NEW c \in entries \cup {e},
                      NEW d \in entries \cup {e},
                      c # d, s \in K[c], s \in K[d]
               PROVE  s \in Overlapped(entries, known)
  BY DEF Overlapped, K
<1>5. c # e /\ d # e
  BY <1>1, <1>2, <1>3, <1>4
<1>6. QED
  BY <1>1, <1>3, <1>4, <1>5 DEF Overlapped

-----------------------------------------------------------------------------
(* The inductive invariant, action by action.                              *)

\* There is nothing to claim before the first flow is confirmed.
LEMMA OwnershipInitInv == Init => OwnershipInv
<1> SUFFICES ASSUME Init PROVE OwnershipInv
  OBVIOUS
<1>1. TypeOK
  BY DEF Init, TypeOK, Snapshot
<1>2. DataClaimed /\ NoHiddenOverlap
  BY DEF Init, DataClaimed, NoHiddenOverlap, Overlapped
<1>3. QED
  BY <1>1, <1>2 DEF OwnershipInv

\* A poll and a setup take a new snapshot and reconcile with it.
LEMMA SnapshotKeepsInv ==
    ASSUME OwnershipInv, NEW e \in entries, NEW S \in SUBSET Serial,
           known' = [known EXCEPT ![e] = S],
           data' = [data EXCEPT ![e] = S],
           Reconcile(e, S, known'),
           entries' = entries, used' = used, pending' = pending,
           visible' = visible, changes' = changes,
           loaded' = loaded \cup {e}, failing' = failing
    PROVE  OwnershipInv'
<1>0. TypeOK /\ e \in Entry
  BY DEF OwnershipInv, TypeOK
<1>1. /\ owned' \in [Entry -> SUBSET Serial]
      /\ owned'[e] \subseteq S
      /\ \A d \in Entry \ {e} : owned'[d] = owned[d]
      /\ rows' \in [Serial -> SUBSET Entry]
      /\ overlap' = Overlapped(entries, known')
  BY <1>0, ReconcileEffect
<1>2. known' \in [Entry -> SUBSET Serial] /\ data' \in [Entry -> SUBSET Serial]
  BY <1>0 DEF TypeOK
<1>3. overlap' \subseteq Serial
  BY <1>1 DEF Overlapped
<1>4. TypeOK'
  BY <1>0, <1>1, <1>2, <1>3 DEF TypeOK, Snapshot
<1>5. DataClaimed'
  <2> SUFFICES ASSUME NEW d \in loaded'
               PROVE  owned'[d] \subseteq data'[d] /\ data'[d] \subseteq known'[d]
    BY DEF DataClaimed
  <2>1. CASE d = e
    BY <1>0, <1>1, <2>1 DEF TypeOK
  <2>2. CASE d # e
    <3>1. d \in loaded /\ d \in Entry
      BY <1>0, <2>2 DEF TypeOK
    <3>2. owned[d] \subseteq data[d] /\ data[d] \subseteq known[d]
      BY <3>1 DEF OwnershipInv, DataClaimed
    <3>3. data'[d] = data[d] /\ known'[d] = known[d] /\ owned'[d] = owned[d]
      BY <1>0, <1>1, <2>2, <3>1 DEF TypeOK
    <3>4. QED
      BY <3>2, <3>3
  <2>3. QED
    BY <2>1, <2>2
<1>6. NoHiddenOverlap'
  BY <1>1 DEF NoHiddenOverlap
<1>7. QED
  BY <1>4, <1>5, <1>6 DEF OwnershipInv

\* A poll keeps the invariant.
LEMMA PollInv ==
    ASSUME OwnershipInv, NEW e \in Entry, Poll(e)
    PROVE  OwnershipInv'
<1>1. e \in entries /\ loaded = loaded \cup {e}
  BY DEF OwnershipInv, TypeOK, Poll
<1>2. visible[e] \in SUBSET Serial
  BY DEF OwnershipInv, TypeOK, Snapshot
<1>3. QED
  BY <1>1, <1>2, SnapshotKeepsInv DEF Poll

\* A setup keeps it, with the plant's answer and with the old snapshot.
LEMMA SetupEntryInv ==
    ASSUME OwnershipInv, NEW e \in Entry, SetupEntry(e)
    PROVE  OwnershipInv'
<1>1. e \in entries
  BY DEF SetupEntry
<1>2. PICK S \in {visible[e], known[e]} :
        /\ known' = [known EXCEPT ![e] = S]
        /\ data' = [data EXCEPT ![e] = S]
        /\ Reconcile(e, S, known')
  BY DEF SetupEntry
<1>3. S \in SUBSET Serial
  BY DEF OwnershipInv, TypeOK, Snapshot
<1>4. QED
  BY <1>1, <1>2, <1>3, SnapshotKeepsInv DEF SetupEntry

\* A new entry adds no overlap: its serials were checked when it was
\* confirmed, in the same step.
LEMMA ConfirmInv ==
    ASSUME OwnershipInv, NEW e \in Entry, Confirm(e)
    PROVE  OwnershipInv'
<1>0. TypeOK /\ e \notin entries /\ e \notin loaded
  BY DEF OwnershipInv, TypeOK, Confirm
<1>1. PICK S \in pending :
        /\ Unclaimed(S, entries)
        /\ pending' = pending \ {S}
        /\ known' = [known EXCEPT ![e] = S]
  BY DEF Confirm
<1>2. S \in SUBSET Serial
  BY <1>0 DEF TypeOK, Snapshot
<1>3. TypeOK'
  BY <1>0, <1>1, <1>2 DEF TypeOK, Confirm, Snapshot
<1>4. DataClaimed'
  BY <1>0, <1>1 DEF OwnershipInv, DataClaimed, TypeOK, Confirm
<1>5. NoHiddenOverlap'
  <2>1. Unclaimed(S, entries \ {e})
    BY <1>0, <1>1, entries \ {e} = entries
  <2>2. Overlapped(entries', known') \subseteq Overlapped(entries, known)
    BY <1>0, <1>1, <1>2, <2>1, UnclaimedAddsNone DEF Confirm
  <2>3. QED
    BY <2>2 DEF OwnershipInv, NoHiddenOverlap, Confirm
<1>6. QED
  BY <1>3, <1>4, <1>5 DEF OwnershipInv

\* A reconfigured entry takes serials no other entry claims and is unloaded.
LEMMA ConfirmReconfigureInv ==
    ASSUME OwnershipInv, NEW e \in Entry, ConfirmReconfigure(e)
    PROVE  OwnershipInv'
<1>0. TypeOK /\ e \in entries
  BY DEF OwnershipInv, ConfirmReconfigure
<1>1. PICK S \in pending :
        /\ Unclaimed(S, entries \ {e})
        /\ pending' = pending \ {S}
        /\ known' = [known EXCEPT ![e] = S]
  BY DEF ConfirmReconfigure
<1>2. S \in SUBSET Serial
  BY <1>0 DEF TypeOK, Snapshot
<1>3. TypeOK'
  BY <1>0, <1>1, <1>2 DEF TypeOK, ConfirmReconfigure, Change, Snapshot
<1>4. DataClaimed'
  BY <1>0, <1>1 DEF OwnershipInv, DataClaimed, TypeOK, ConfirmReconfigure
<1>5. NoHiddenOverlap'
  <2>1. entries' = entries \cup {e} /\ overlap' = overlap
    BY <1>0 DEF ConfirmReconfigure
  <2>2. Overlapped(entries', known') \subseteq Overlapped(entries, known)
    BY <1>0, <1>1, <1>2, <2>1, UnclaimedAddsNone
  <2>3. QED
    BY <2>1, <2>2 DEF OwnershipInv, NoHiddenOverlap
<1>6. QED
  BY <1>3, <1>4, <1>5 DEF OwnershipInv

\* Removing an entry takes its claims away or hands them to one other entry,
\* which then claims more, and the issues are computed anew.
LEMMA RemoveInv ==
    ASSUME OwnershipInv, NEW d \in Entry, Remove(d)
    PROVE  OwnershipInv'
<1>0. TypeOK /\ d \in entries
  BY DEF OwnershipInv, Remove
<1>1. /\ known' \in [Entry -> SUBSET Serial]
      /\ rows' \in [Serial -> SUBSET Entry]
      /\ \A e \in Entry \ {d} : known[e] \subseteq known'[e]
  <2>1. PICK C \in Successors(d) :
          \/ /\ known' = [known EXCEPT ![d] = {}]
             /\ rows' = [s \in Serial |-> rows[s] \ {d}]
          \/ \E o \in C :
                /\ C = {o}
                /\ known' = [known EXCEPT ![o] = @ \cup known[d], ![d] = {}]
                /\ rows' = [s \in Serial |->
                              MoveRows(rows, known[d], o)[s] \ {d}]
    BY DEF Remove
  <2>2. CASE /\ known' = [known EXCEPT ![d] = {}]
             /\ rows' = [s \in Serial |-> rows[s] \ {d}]
    BY <1>0, <2>2 DEF TypeOK
  <2>3. ASSUME NEW o \in C,
               known' = [known EXCEPT ![o] = @ \cup known[d], ![d] = {}],
               rows' = [s \in Serial |-> MoveRows(rows, known[d], o)[s] \ {d}]
        PROVE  /\ known' \in [Entry -> SUBSET Serial]
               /\ rows' \in [Serial -> SUBSET Entry]
               /\ \A e \in Entry \ {d} : known[e] \subseteq known'[e]
    <3>1. o \in Entry
      BY <1>0 DEF Successors, TypeOK
    <3>2. MoveRows(rows, known[d], o) \in [Serial -> SUBSET Entry]
      BY <1>0, <3>1, MoveRowsType DEF TypeOK
    <3>3. rows' \in [Serial -> SUBSET Entry]
      BY <2>3, <3>2
    <3>4. /\ known' \in [Entry -> SUBSET Serial]
          /\ \A e \in Entry \ {d} : known[e] \subseteq known'[e]
      BY <1>0, <2>3, <3>1 DEF TypeOK
    <3>5. QED
      BY <3>3, <3>4
  <2>4. QED
    BY <2>1, <2>2, <2>3
<1>2. overlap' = Overlapped(entries', known')
  BY DEF Remove, SyncOverlapIssues
<1>3. overlap' \subseteq Serial
  BY <1>2 DEF Overlapped
<1>4. TypeOK'
  BY <1>0, <1>1, <1>3 DEF TypeOK, Remove, Change, Snapshot
<1>5. DataClaimed'
  <2> SUFFICES ASSUME NEW e \in loaded'
               PROVE  owned'[e] \subseteq data'[e] /\ data'[e] \subseteq known'[e]
    BY DEF DataClaimed
  <2>1. e \in loaded /\ e # d /\ e \in Entry
    BY <1>0 DEF Remove, TypeOK
  <2>2. owned'[e] = owned[e] /\ data'[e] = data[e]
    BY <1>0, <2>1 DEF Remove, TypeOK
  <2>3. owned[e] \subseteq data[e] /\ data[e] \subseteq known[e]
    BY <2>1 DEF OwnershipInv, DataClaimed
  <2>4. QED
    BY <1>1, <2>1, <2>2, <2>3
<1>6. NoHiddenOverlap'
  BY <1>2 DEF NoHiddenOverlap
<1>7. QED
  BY <1>4, <1>5, <1>6 DEF OwnershipInv

\* Removing a device only takes claims away, and never one of the data.
LEMMA RemoveDeviceInv ==
    ASSUME OwnershipInv, NEW e \in Entry, NEW s \in Serial, RemoveDevice(e, s)
    PROVE  OwnershipInv'
<1>0. TypeOK /\ e \in loaded
  BY DEF OwnershipInv, RemoveDevice
<1>1. owned[e] \subseteq data[e] /\ data[e] \subseteq known[e]
  BY <1>0 DEF OwnershipInv, DataClaimed
<1>2. /\ known' = [known EXCEPT ![e] = data[e]]
      /\ owned' = [owned EXCEPT ![e] = owned[e] \ {s}]
      /\ rows' = [rows EXCEPT ![s] = rows[s] \ {e}]
      /\ UNCHANGED <<entries, used, loaded, failing, data, overlap, pending,
                     visible>>
      /\ changes < MaxChanges /\ changes' = changes + 1
  BY DEF RemoveDevice, Change
<1>3. TypeOK'
  <2>1. known' \in [Entry -> SUBSET Serial] /\ owned' \in [Entry -> SUBSET Serial]
    BY <1>0, <1>2 DEF TypeOK
  <2>2. rows' \in [Serial -> SUBSET Entry]
    BY <1>0, <1>2 DEF TypeOK
  <2>3. changes' \in 0 .. MaxChanges
    BY <1>0, <1>2 DEF TypeOK
  <2>4. QED
    BY <1>0, <1>2, <2>1, <2>2, <2>3 DEF TypeOK, Snapshot
<1>4. \A d \in Entry : known'[d] = IF d = e THEN data[e] ELSE known[d]
  BY <1>0, <1>2 DEF TypeOK
<1>5. DataClaimed'
  BY <1>0, <1>1, <1>2 DEF OwnershipInv, DataClaimed, TypeOK
<1>6. NoHiddenOverlap'
  <2>1. \A d \in entries : known'[d] \subseteq known[d]
    BY <1>0, <1>1, <1>4 DEF TypeOK
  <2>2. Overlapped(entries', known') \subseteq Overlapped(entries, known)
    BY <1>2, <2>1 DEF Overlapped
  <2>3. QED
    BY <1>2, <2>2 DEF OwnershipInv, NoHiddenOverlap
<1>7. QED
  BY <1>3, <1>5, <1>6 DEF OwnershipInv

\* The steps that change neither snapshots nor issues.
LEMMA QuietInv ==
    ASSUME OwnershipInv,
           \/ Validate
           \/ \E e \in Entry : \/ Fails(e) \/ Recovers(e) \/ AddEntities(e)
                              \/ Unload(e) \/ PlantChanges(e)
    PROVE  OwnershipInv'
<1>0. TypeOK
  BY DEF OwnershipInv
<1>1. CASE Validate
  <2>1. pending' \subseteq Snapshot
    BY <1>0, <1>1 DEF TypeOK, Validate
  <2>2. QED
    BY <1>0, <1>1, <2>1
    DEF OwnershipInv, TypeOK, DataClaimed, NoHiddenOverlap, Overlapped,
        Validate, Snapshot
<1>2. ASSUME NEW e \in Entry, AddEntities(e) PROVE OwnershipInv'
  <2>1. rows' \in [Serial -> SUBSET Entry]
    BY <1>0, <1>2 DEF TypeOK, AddEntities
  <2>2. QED
    BY <1>0, <1>2, <2>1
    DEF OwnershipInv, TypeOK, DataClaimed, NoHiddenOverlap, Overlapped,
        AddEntities, Snapshot
<1>3. ASSUME NEW e \in Entry, Unload(e) PROVE OwnershipInv'
  <2>1. /\ owned' \in [Entry -> SUBSET Serial] /\ data' \in [Entry -> SUBSET Serial]
        /\ loaded' \subseteq entries /\ failing' \subseteq entries
        /\ changes' \in 0 .. MaxChanges
    BY <1>0, <1>3 DEF TypeOK, Unload, Change
  <2>2. TypeOK'
    BY <1>0, <1>3, <2>1 DEF TypeOK, Unload, Snapshot
  <2>3. DataClaimed'
    <3>1. \A d \in loaded' :
            /\ d \in loaded /\ owned'[d] = owned[d] /\ data'[d] = data[d]
            /\ known'[d] = known[d]
      BY <1>0, <1>3 DEF TypeOK, Unload
    <3>2. QED
      BY <3>1 DEF OwnershipInv, DataClaimed
  <2>4. NoHiddenOverlap'
    BY <1>3 DEF OwnershipInv, NoHiddenOverlap, Overlapped, Unload
  <2>5. QED
    BY <2>2, <2>3, <2>4 DEF OwnershipInv
<1>4. ASSUME NEW e \in Entry, PlantChanges(e) PROVE OwnershipInv'
  <2>1. visible' \in [Entry -> Snapshot]
    BY <1>0, <1>4 DEF TypeOK, PlantChanges
  <2>2. QED
    BY <1>0, <1>4, <2>1
    DEF OwnershipInv, TypeOK, DataClaimed, NoHiddenOverlap, Overlapped,
        PlantChanges, Change
<1>5. ASSUME NEW e \in Entry, Fails(e) \/ Recovers(e) PROVE OwnershipInv'
  <2>1. failing' \subseteq entries /\ changes' \in 0 .. MaxChanges
    <3>1. failing \subseteq entries /\ changes \in 0 .. MaxChanges
      BY <1>0 DEF TypeOK
    <3>2. CASE Fails(e)
      BY <3>1, <3>2 DEF Fails
    <3>3. CASE Recovers(e)
      BY <3>1, <3>3 DEF Recovers, Change
    <3>4. QED
      BY <1>5, <3>2, <3>3
  <2>2. UNCHANGED <<entries, used, known, loaded, data, owned, rows, overlap,
                    pending, visible>>
    BY <1>5 DEF Fails, Recovers
  <2>3. TypeOK'
    BY <1>0, <2>1, <2>2 DEF TypeOK, Snapshot
  <2>4. DataClaimed' /\ NoHiddenOverlap'
    BY <2>2 DEF OwnershipInv, DataClaimed, NoHiddenOverlap, Overlapped
  <2>5. QED
    BY <2>3, <2>4 DEF OwnershipInv
<1>6. QED
  BY <1>1, <1>2, <1>3, <1>4, <1>5

\* Every step keeps the invariant.
LEMMA OwnershipNextInv ==
    ASSUME OwnershipInv, [Next]_vars
    PROVE  OwnershipInv'
<1>1. CASE UNCHANGED vars
  BY <1>1
  DEF vars, OwnershipInv, TypeOK, DataClaimed, NoHiddenOverlap, Overlapped,
      Snapshot
<1>2. CASE Validate
  BY <1>2, QuietInv
<1>3. ASSUME NEW e \in Entry,
             \/ Poll(e) \/ SetupEntry(e) \/ Fails(e) \/ AddEntities(e)
             \/ Confirm(e) \/ ConfirmReconfigure(e)
             \/ Recovers(e) \/ Unload(e) \/ Remove(e) \/ PlantChanges(e)
             \/ \E s \in Serial : RemoveDevice(e, s)
      PROVE  OwnershipInv'
  BY <1>3, PollInv, SetupEntryInv, ConfirmInv, ConfirmReconfigureInv,
     RemoveInv, RemoveDeviceInv, QuietInv
<1>4. QED
  BY <1>1, <1>2, <1>3 DEF Next

-----------------------------------------------------------------------------
(* The theorems.                                                           *)

\* The inductive invariant holds in every run.
THEOREM OwnershipInvariant == Spec => []OwnershipInv
<1>1. Init => OwnershipInv
  BY OwnershipInitInv
<1>2. OwnershipInv /\ [Next]_vars => OwnershipInv'
  BY OwnershipNextInv
<1>3. QED
  BY <1>1, <1>2, PTL DEF Spec

\* Entries, snapshots, registry rows and issues keep their types.
THEOREM OwnershipTypeCorrect == Spec => []TypeOK
<1>1. OwnershipInv => TypeOK
  BY DEF OwnershipInv
<1>2. QED
  BY <1>1, OwnershipInvariant, PTL

\* However many entries share however many inverters, a serial that two of
\* them claim has its repair issue in the same state.
THEOREM OwnershipNoHiddenOverlap == Spec => []NoHiddenOverlap
<1>1. OwnershipInv => NoHiddenOverlap
  BY DEF OwnershipInv
<1>2. QED
  BY <1>1, OwnershipInvariant, PTL

\* A loaded entry owns only serials of its own snapshot.
THEOREM OwnershipOwnedIsClaimed == Spec => []OwnedIsClaimed
<1>1. OwnershipInv => OwnedIsClaimed
  BY DEF OwnershipInv, DataClaimed, OwnedIsClaimed
<1>2. QED
  BY <1>1, OwnershipInvariant, PTL

\* What RowsFollowSoleClaimant asks of one step.
RowsStep ==
    \A s \in Serial, e \in entries :
        (entries' = entries /\ changes' = changes
           /\ e \in rows[s] /\ e \notin rows'[s])
        => \E o \in entries : /\ rows'[s] = {o}
                              /\ Claimants(s, entries, known') = {o}

\* A poll or a setup moves the rows of a serial only to the entry that saw it
\* and that alone claims it.
LEMMA SnapshotRows ==
    ASSUME TypeOK, NEW o \in entries, NEW S \in SUBSET Serial,
           known' = [known EXCEPT ![o] = S],
           Reconcile(o, S, known')
    PROVE  RowsStep
<1>1. \A s \in Serial :
         \/ rows'[s] = rows[s]
         \/ /\ rows'[s] = {o} /\ s \in S
            /\ Claimants(s, entries, known') \subseteq {o}
  <2> DEFINE K == known'
  <2>1. Reconcile(o, S, K)
    OBVIOUS
  <2> HIDE DEF K
  <2>2. \A s \in Serial :
           \/ rows'[s] = rows[s]
           \/ /\ rows'[s] = {o} /\ s \in S
              /\ Claimants(s, entries, K) \subseteq {o}
    BY <2>1, ReconcileEffect
  <2>3. QED
    BY <2>2 DEF K
<1>2. known'[o] = S
  BY DEF TypeOK
<1>3. \A s \in S : o \in Claimants(s, entries, known')
  BY <1>2 DEF Claimants
<1>4. SUFFICES ASSUME NEW s \in Serial, rows'[s] # rows[s]
               PROVE  /\ rows'[s] = {o}
                      /\ Claimants(s, entries, known') = {o}
  BY DEF RowsStep
<1>5. rows'[s] = {o} /\ s \in S
  BY <1>1, <1>4
<1>6. Claimants(s, entries, known') \subseteq {o}
  BY <1>1, <1>4
<1>7. o \in Claimants(s, entries, known')
  BY <1>3, <1>5
<1>8. QED
  BY <1>5, <1>6, <1>7

\* Every step moves rows that way, or is a change by the user or the plant.
LEMMA NextRows ==
    ASSUME TypeOK, [Next]_vars
    PROVE  RowsStep
<1>1. CASE rows' = rows \/ changes' # changes
  BY <1>1 DEF RowsStep
<1>2. CASE UNCHANGED vars \/ Validate
  BY <1>1, <1>2 DEF vars, Validate
<1>3. ASSUME NEW e \in Entry, Poll(e) PROVE RowsStep
  <2>1. e \in entries /\ visible[e] \in SUBSET Serial
    BY <1>3 DEF TypeOK, Poll, Snapshot
  <2>2. QED
    BY <1>3, <2>1, SnapshotRows DEF Poll
<1>4. ASSUME NEW e \in Entry, SetupEntry(e) PROVE RowsStep
  <2>1. PICK S \in {visible[e], known[e]} :
          known' = [known EXCEPT ![e] = S] /\ Reconcile(e, S, known')
    BY <1>4 DEF SetupEntry
  <2>2. e \in entries /\ S \in SUBSET Serial
    BY <1>4 DEF TypeOK, SetupEntry, Snapshot
  <2>3. QED
    BY <2>1, <2>2, SnapshotRows
<1>5. ASSUME NEW e \in Entry, AddEntities(e) PROVE RowsStep
  <2>1. \A s \in Serial : rows[s] \subseteq rows'[s]
    BY <1>5 DEF AddEntities, TypeOK
  <2>2. QED
    BY <2>1 DEF RowsStep
<1>6. ASSUME NEW e \in Entry, Confirm(e) \/ Fails(e) PROVE RowsStep
  BY <1>1, <1>6 DEF Confirm, Fails
<1>7. ASSUME NEW e \in Entry,
             \/ ConfirmReconfigure(e) \/ Recovers(e) \/ Unload(e) \/ Remove(e)
             \/ PlantChanges(e) \/ \E s \in Serial : RemoveDevice(e, s)
      PROVE  RowsStep
  <2>1. changes' = changes + 1 /\ changes \in Nat
    BY <1>7
    DEF ConfirmReconfigure, Recovers, Unload, Remove, PlantChanges,
        RemoveDevice, Change, TypeOK
  <2>2. changes' # changes
    BY <2>1
  <2>3. QED
    BY <1>1, <2>2
<1>8. QED
  BY <1>2, <1>3, <1>4, <1>5, <1>6, <1>7 DEF Next

\* The history of an inverter never leaves an entry that still claims it by
\* the integration's own steps.
THEOREM OwnershipRowsFollowSoleClaimant == Spec => RowsFollowSoleClaimant
<1>1. TypeOK /\ [Next]_vars => [RowsStep]_vars
  BY NextRows
<1>2. QED
  BY <1>1, OwnershipTypeCorrect, PTL DEF Spec, RowsFollowSoleClaimant, RowsStep
=============================================================================
