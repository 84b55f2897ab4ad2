----------------------------- MODULE DeviceList -----------------------------
(***************************************************************************)
(* The list of found devices on its way from the discovery tasks           *)
(* (core/discovery.rs) over node_start's callback and the broadcast        *)
(* channel of node_device_events (api/easy_send.rs) to the app             *)
(* (lib/src/app_controller.dart).                                          *)
(*                                                                         *)
(* The read loop and the prune loop both change the map under its lock,    *)
(* release it, and emit: take the lock again for a snapshot, release it,   *)
(* and hand the snapshot on.  Nothing orders the two hand-overs: an older  *)
(* list may come last.                                                     *)
(*                                                                         *)
(* When a device expires is left open: the prune loop may find any of the  *)
(* listed devices silent for fifteen seconds.                              *)
(*                                                                         *)
(* (Init, Next, Spec and TypeOK are called ListInit and so on, so that the *)
(* proofs about discovery can extend this module and DiscoverySocket.)     *)
(***************************************************************************)
EXTENDS Naturals, Sequences

CONSTANTS
  Peers,      \* fingerprints
  Infos,      \* what a device announces: alias, port, address
  Absent,
  Emitters,   \* the loops that run: "read", "prune"
  Capacity    \* of the broadcast channel (64 in the code)

ASSUME DeviceListAssumption ==
  /\ Absent \notin Infos
  /\ Emitters \subseteq {"read", "prune"}
  /\ Capacity \in Nat \ {0}

Snapshots == [Peers -> Infos \cup {Absent}]
Empty == [p \in Peers |-> Absent]

VARIABLES
  devices,    \* Inner.devices
  emit,       \* how far each loop is in emit
  snap,       \* the snapshot it carries
  last,       \* last_devices of the node
  sub,        \* how far node_device_events has come
  channel,    \* what the subscriber has not received
  shown,      \* _currentDevices of the app
  crossed     \* history: the newest snapshot was taken beside another hand-over

listVars == <<devices, emit, snap, last, sub, channel, shown, crossed>>

ListTypeOK ==
  /\ {devices, last, shown} \subseteq Snapshots
  /\ emit \in [Emitters -> {"idle", "changed", "snapped", "stored"}]
  /\ snap \in [Emitters -> Snapshots]
  /\ sub \in {"none", "subscribed", "live"}
  /\ channel \in Seq(Snapshots)
  /\ Len(channel) <= Capacity
  /\ crossed \in BOOLEAN

ListInit ==
  /\ devices = Empty /\ last = Empty /\ shown = Empty
  /\ emit = [e \in Emitters |-> "idle"]
  /\ snap = [e \in Emitters |-> Empty]
  /\ sub = "none"
  /\ channel = <<>>
  /\ crossed = FALSE

Emitting(e, place) == emit' = [emit EXCEPT ![e] = place]

-----------------------------------------------------------------------------
(* The two loops *)

\* Mutant of Hear: only a device that is new is a change.
HearNew(p, i) ==
  /\ emit["read"] = "idle"
  /\ devices' = [devices EXCEPT ![p] = i]
  /\ Emitting("read", IF devices[p] = Absent THEN "changed" ELSE "idle")
  /\ UNCHANGED <<snap, last, sub, channel, shown, crossed>>

\* An announcement is entered; it is a change if the device is new or differs.
Hear(p, i) ==
  /\ emit["read"] = "idle"
  /\ devices' = [devices EXCEPT ![p] = i]
  /\ Emitting("read", IF devices[p] # i THEN "changed" ELSE "idle")
  /\ UNCHANGED <<snap, last, sub, channel, shown, crossed>>

\* Once a second the silent devices are removed.
Prune(gone) ==
  /\ emit["prune"] = "idle"
  /\ \A p \in gone : devices[p] # Absent
  /\ devices' = [p \in Peers |-> IF p \in gone THEN Absent ELSE devices[p]]
  /\ Emitting("prune", "changed")
  /\ UNCHANGED <<snap, last, sub, channel, shown, crossed>>

\* emit: the snapshot under the lock ...
Snapshot(e) ==
  /\ emit[e] = "changed"
  /\ snap' = [snap EXCEPT ![e] = devices]
  /\ crossed' = (\E f \in Emitters : emit[f] \in {"snapped", "stored"})
  /\ Emitting(e, "snapped")
  /\ UNCHANGED <<devices, last, sub, channel, shown>>

\* ... then on_changed keeps it for later subscribers ...
StoreLast(e) ==
  /\ emit[e] = "snapped"
  /\ last' = snap[e]
  /\ Emitting(e, "stored")
  /\ UNCHANGED <<devices, snap, sub, channel, shown, crossed>>

\* Mutant of Sent: nothing bounds the channel.
SentUnbounded(list) == Append(channel, list)

\* A subscriber that lags loses the oldest entries.
Sent(list) ==
  LET longer == Append(channel, list)
  IN  IF Len(longer) > Capacity THEN Tail(longer) ELSE longer

\* ... and sends it to those there are.
Broadcast(e) ==
  /\ emit[e] = "stored"
  /\ channel' = IF sub = "none" THEN channel ELSE Sent(snap[e])
  /\ Emitting(e, "idle")
  /\ UNCHANGED <<devices, snap, last, sub, shown, crossed>>

-----------------------------------------------------------------------------
(* node_device_events *)

Subscribe ==
  /\ sub = "none"
  /\ sub' = "subscribed"
  /\ UNCHANGED <<devices, emit, snap, last, channel, shown, crossed>>

\* The list as it is now comes first.
SendCurrent ==
  /\ sub = "subscribed"
  /\ shown' = last
  /\ sub' = "live"
  /\ UNCHANGED <<devices, emit, snap, last, channel, crossed>>

Receive ==
  /\ sub = "live"
  /\ channel # <<>>
  /\ shown' = Head(channel)
  /\ channel' = Tail(channel)
  /\ UNCHANGED <<devices, emit, snap, last, sub, crossed>>

ListNext ==
  \/ "read" \in Emitters /\ \E p \in Peers, i \in Infos : Hear(p, i)
  \/ "prune" \in Emitters /\ \E gone \in SUBSET Peers : gone # {} /\ Prune(gone)
  \/ \E e \in Emitters : Snapshot(e) \/ StoreLast(e) \/ Broadcast(e)
  \/ Subscribe \/ SendCurrent \/ Receive

ListSpec == ListInit /\ [][ListNext]_listVars

-----------------------------------------------------------------------------
\* Every change of the list reaches the app as a full snapshot: when nothing is
\* on its way any more, the app shows what discovery knows.  Only while two hand-overs
\* (discovery.rs, emit) have crossed and no list was handed over alone since may it
\* show another: the next list that is handed over alone repairs whatever they left.
UpToDate ==
  (\A e \in Emitters : emit[e] = "idle") /\ sub = "live" /\ channel = <<>> /\ ~crossed
    => shown = devices
=============================================================================
