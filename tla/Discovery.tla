----------------------------- MODULE Discovery -----------------------------
(***************************************************************************
  async_discover_sma_devices (discovery.py): an inquiry on every adapter of
  BlueZ, started and stopped over a D-Bus connection of its own.  An inquiry
  ends when its client stops it or leaves the bus (BlueZ, external).  Each
  caller runs one discovery at a time; any await may fail or be cancelled.
 ***************************************************************************)
EXTENDS FiniteSets

CONSTANTS
    Caller,     \* those who discover: config flows
    Adapter     \* Bluetooth adapters BlueZ manages

VARIABLES
    discovery,  \* [Caller -> phase of its call, adapters it has listed]
    inquiring   \* [Caller -> adapters BlueZ inquires on for its connection]

discoveryVars == <<discovery, inquiring>>

NoDiscovery == [phase |-> "none", listed |-> {}]
Over == {"none", "found", "failed"}

DiscoveryInit ==
    /\ discovery = [f \in Caller |-> NoDiscovery]
    /\ inquiring = [f \in Caller |-> {}]

Phase(f, p) == discovery' = [discovery EXCEPT ![f].phase = p]

\* The D-Bus connection is made, the adapters are listed: or there is none.
Discover(f) ==
    /\ discovery[f].phase \in Over
    /\ \E p \in {"starting", "failed"} : discovery' = [discovery EXCEPT ![f] = [phase |-> p, listed |-> {}]]
    /\ UNCHANGED inquiring

\* StartDiscovery is called on one adapter after the other; each is listed
\* once its call has returned.
StartDiscovery(f, a) ==
    /\ discovery[f].phase = "starting" /\ a \notin discovery[f].listed
    /\ inquiring' = [inquiring EXCEPT ![f] = @ \cup {a}]
    /\ LET listed == discovery[f].listed \cup {a}
       IN  discovery' = [discovery EXCEPT ![f] =
             [phase |-> IF listed = Adapter THEN "waiting" ELSE "starting", listed |-> listed]]

\* The call fails or is cancelled, whether or not BlueZ has started it.
StartFails(f, a) ==
    /\ discovery[f].phase = "starting" /\ a \notin discovery[f].listed
    /\ inquiring' \in {inquiring, [inquiring EXCEPT ![f] = @ \cup {a}]}
    /\ Phase(f, "giving up")

\* The sleep of eight seconds ends, or is cancelled.
Waited(f) ==
    /\ discovery[f].phase = "waiting"
    /\ \E p \in {"stopping", "giving up"} : Phase(f, p)
    /\ UNCHANGED inquiring

Stopping(f) == discovery[f].phase \in {"stopping", "giving up"}

\* finally: every listed adapter is stopped; one that cannot be is skipped.
StopDiscovery(f, a) ==
    /\ Stopping(f) /\ a \in discovery[f].listed
    /\ discovery' = [discovery EXCEPT ![f].listed = @ \ {a}]
    /\ inquiring' \in {inquiring, [inquiring EXCEPT ![f] = @ \ {a}]}

\* A cancellation is no Exception: it leaves the loop.
StopCancelled(f) ==
    /\ Stopping(f) /\ discovery[f].listed # {}
    /\ discovery' = [discovery EXCEPT ![f] = [phase |-> "giving up", listed |-> {}]]
    /\ UNCHANGED inquiring

\* Mutant: the connection is closed only after a discovery that went well.
DisconnectOnSuccess(f) ==
    /\ Stopping(f) /\ discovery[f].listed = {}
    /\ \/ discovery[f].phase = "stopping" /\ Phase(f, "found")
          /\ inquiring' = [inquiring EXCEPT ![f] = {}]
       \/ Phase(f, "failed") /\ UNCHANGED inquiring

\* finally: the connection is closed, and BlueZ ends what is left of it. The
\* devices found are read before that, which may fail as well.
Disconnect(f) ==
    /\ Stopping(f) /\ discovery[f].listed = {}
    /\ \/ discovery[f].phase = "stopping" /\ Phase(f, "found")
       \/ Phase(f, "failed")
    /\ inquiring' = [inquiring EXCEPT ![f] = {}]

DiscoveryStep(f) ==
    \/ \E a \in Adapter : StartDiscovery(f, a) \/ StartFails(f, a) \/ StopDiscovery(f, a)
    \/ Waited(f) \/ StopCancelled(f) \/ Disconnect(f)

\* No adapter is left inquiring once the call has returned, whatever failed
\* in between: a start whose answer was lost, a stop that was refused, a
\* cancellation inside the loop that stops them (discovery.py:74-97).
NoInquiryLeftBehind ==
    \A f \in Caller : discovery[f].phase \in Over => inquiring[f] = {}
=============================================================================
