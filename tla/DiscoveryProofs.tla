---------------------------- MODULE DiscoveryProofs ----------------------------
(***************************************************************************)
(* What TLAPS proves of discovery: of DiscoverySocket for any number of    *)
(* announcers and sockets and any closing and stopping, and of DeviceList  *)
(* for any devices and any capacity of the channel.                        *)
(*                                                                         *)
(* OneLoop only speaks of moments at which no announcer is in bind.  The   *)
(* invariant that carries it says where a reading loop's handle is at any  *)
(* moment: in read_task, or still in the hands of the announcer that has   *)
(* spawned it.                                                             *)
(***************************************************************************)
EXTENDS DiscoverySocket, DeviceList, SequenceTheorems, TLAPS

\* A loop that reads can be reached: through read_task, or by its announcer.
Reachable ==
  \A k \in Sockets : loop[k] = "reading" =>
    \/ k = readTask
    \/ \E a \in Announcers : at[a] = "spawned" /\ mine[a] = k

-----------------------------------------------------------------------------
\* Every variable keeps its type, whatever the announcers, closings and stop do.
THEOREM SocketTypeCorrect == Spec => []TypeOK
<1>1. Init => TypeOK
  BY BoundsAssumption, SMT DEF Init, TypeOK, Sockets, None
<1>2. TypeOK /\ [Next]_vars => TypeOK'
  <2> SUFFICES ASSUME TypeOK, [Next]_vars PROVE TypeOK'
    OBVIOUS
  <2> USE BoundsAssumption DEF TypeOK, Sockets, None, Goto, Aborted
  <2>1. CASE \E a \in Announcers :
               \/ Announce(a) \/ CheckSocket(a) \/ BindFails(a)
               \/ SpawnLoop(a) \/ ReplaceLoop(a) \/ StoreSocket(a)
    <3> PICK a \in Announcers :
               \/ Announce(a) \/ CheckSocket(a) \/ BindFails(a)
               \/ SpawnLoop(a) \/ ReplaceLoop(a) \/ StoreSocket(a)
      BY <2>1
    <3>1. CASE Announce(a)
      BY <3>1 DEF Announce
    <3>2. CASE CheckSocket(a)
      BY <3>2 DEF CheckSocket
    <3>3. CASE BindFails(a)
      BY <3>3 DEF BindFails
    <3>4. CASE SpawnLoop(a)
      BY <3>4 DEF SpawnLoop
    <3>5. CASE ReplaceLoop(a)
      BY <3>5 DEF ReplaceLoop
    <3>6. CASE StoreSocket(a)
      BY <3>6 DEF StoreSocket
    <3> QED
      BY <3>1, <3>2, <3>3, <3>4, <3>5, <3>6
  <2>2. ASSUME NEW k \in Sockets, Close(k) PROVE TypeOK'
    BY <2>2 DEF Close
  <2>3. ASSUME NEW k \in Sockets, LoopEnds(k) PROVE TypeOK'
    BY <2>3 DEF LoopEnds
  <2>4. CASE StopTasks
    BY <2>4 DEF StopTasks
  <2>5. CASE StopReader
    BY <2>5 DEF StopReader
  <2>6. CASE StopSocket
    BY <2>6 DEF StopSocket
  <2>7. CASE UNCHANGED vars
    BY <2>7 DEF vars
  <2> QED
    BY <2>1, <2>2, <2>3, <2>4, <2>5, <2>6, <2>7 DEF Next
<1> QED
  BY <1>1, <1>2, PTL DEF Spec

-----------------------------------------------------------------------------
\* Only bind starts a loop, and it keeps hold of it until read_task does; a loop
\* leaves read_task aborted.
LEMMA ReachableStep == TypeOK /\ Reachable /\ [Next]_vars => Reachable'
<1> SUFFICES ASSUME TypeOK, Reachable, [Next]_vars PROVE Reachable'
  OBVIOUS
<1> USE DEF Reachable, TypeOK
<1>1. ASSUME NEW a \in Announcers, Announce(a) PROVE Reachable'
  BY <1>1 DEF Announce, Goto
<1>2. ASSUME NEW a \in Announcers, CheckSocket(a) PROVE Reachable'
  BY <1>2 DEF CheckSocket, Goto
<1>3. ASSUME NEW a \in Announcers, BindFails(a) PROVE Reachable'
  BY <1>3 DEF BindFails, Goto
<1>4. ASSUME NEW a \in Announcers, SpawnLoop(a) PROVE Reachable'
  <2>1. PICK n \in Sockets : /\ loop' = [loop EXCEPT ![n] = "reading"]
                             /\ mine' = [mine EXCEPT ![a] = n]
    BY <1>4 DEF SpawnLoop
  <2>2. at' = [at EXCEPT ![a] = "spawned"] /\ at[a] = "binding" /\ readTask' = readTask
    BY <1>4 DEF SpawnLoop, Goto
  <2>3. at'[a] = "spawned" /\ mine'[a] = n
    BY <2>1, <2>2
  <2>4. ASSUME NEW k \in Sockets, loop'[k] = "reading", k # n
        PROVE  \/ k = readTask'
               \/ \E b \in Announcers : at'[b] = "spawned" /\ mine'[b] = k
    BY <2>1, <2>2, <2>4
  <2> QED
    BY <2>3, <2>4
<1>5. ASSUME NEW a \in Announcers, ReplaceLoop(a) PROVE Reachable'
  <2>1. /\ at[a] = "spawned" /\ at' = [at EXCEPT ![a] = "replaced"]
        /\ mine' = mine /\ readTask' = mine[a] /\ loop' = Aborted(readTask)
    BY <1>5 DEF ReplaceLoop, Goto
  <2>2. ASSUME NEW k \in Sockets, loop'[k] = "reading"
        PROVE  loop[k] = "reading" /\ k # readTask
    BY <2>1, <2>2 DEF Aborted, Sockets, None
  <2> QED
    BY <2>1, <2>2
<1>6. ASSUME NEW a \in Announcers, StoreSocket(a) PROVE Reachable'
  BY <1>6 DEF StoreSocket, Goto
<1>7. ASSUME NEW k \in Sockets, Close(k) PROVE Reachable'
  BY <1>7 DEF Close
<1>8. ASSUME NEW k \in Sockets, LoopEnds(k) PROVE Reachable'
  BY <1>8 DEF LoopEnds
<1>9. CASE StopTasks
  BY <1>9 DEF StopTasks
<1>10. CASE StopReader
  <2>1. ASSUME NEW k \in Sockets, loop'[k] = "reading"
        PROVE  loop[k] = "reading" /\ k # readTask
    BY <1>10, <2>1 DEF StopReader, Aborted, Sockets, None
  <2> QED
    BY <1>10, <2>1 DEF StopReader
<1>11. CASE StopSocket
  BY <1>11 DEF StopSocket
<1>12. CASE UNCHANGED vars
  BY <1>12 DEF vars
<1> QED
  BY <1>1, <1>2, <1>3, <1>4, <1>5, <1>6, <1>7, <1>8, <1>9, <1>10, <1>11, <1>12 DEF Next

\* However announces, closings and stop interleave inside bind, no two loops are
\* left reading once the announcers are done (discovery.rs, bind).
THEOREM OneLoopAlways == Spec => []OneLoop
<1>1. Init => Reachable
  BY DEF Init, Reachable
<1>2. TypeOK /\ Reachable => OneLoop
  BY DEF TypeOK, Reachable, OneLoop
<1> QED
  BY <1>1, <1>2, ReachableStep, SocketTypeCorrect, PTL DEF Spec

-----------------------------------------------------------------------------
(* Stopping: when stop begins no announcer is about, and none comes back. *)

StoppedInv ==
  "stop" \notin mixing /\ stop # "no" =>
    /\ \A a \in Announcers : at[a] = "idle"
    /\ stop # "tasks" => readTask = None

LEMMA StoppedStep == TypeOK /\ StoppedInv /\ [Next]_vars => StoppedInv'
<1> SUFFICES ASSUME TypeOK, StoppedInv, [Next]_vars PROVE StoppedInv'
  OBVIOUS
<1> USE DEF StoppedInv, TypeOK
<1>1. ASSUME NEW a \in Announcers, Announce(a) PROVE StoppedInv'
  BY <1>1 DEF Announce
<1>2. ASSUME NEW a \in Announcers, CheckSocket(a) PROVE StoppedInv'
  BY <1>2 DEF CheckSocket
<1>3. ASSUME NEW a \in Announcers, BindFails(a) PROVE StoppedInv'
  BY <1>3 DEF BindFails
<1>4. ASSUME NEW a \in Announcers, SpawnLoop(a) PROVE StoppedInv'
  BY <1>4 DEF SpawnLoop
<1>5. ASSUME NEW a \in Announcers, ReplaceLoop(a) PROVE StoppedInv'
  BY <1>5 DEF ReplaceLoop
<1>6. ASSUME NEW a \in Announcers, StoreSocket(a) PROVE StoppedInv'
  BY <1>6 DEF StoreSocket
<1>7. ASSUME NEW k \in Sockets, Close(k) \/ LoopEnds(k) PROVE StoppedInv'
  BY <1>7 DEF Close, LoopEnds
<1>8. CASE StopTasks
  BY <1>8 DEF StopTasks
<1>9. CASE StopReader
  BY <1>9 DEF StopReader
<1>10. CASE StopSocket
  BY <1>10 DEF StopSocket
<1>11. CASE UNCHANGED vars
  BY <1>11 DEF vars
<1> QED
  BY <1>1, <1>2, <1>3, <1>4, <1>5, <1>6, <1>7, <1>8, <1>9, <1>10, <1>11 DEF Next

\* A discoverer that is stopped while no announcer is in bind reads nothing any more,
\* however many loops binds, closings and refreshes have started before.
THEOREM QuietAfterStopAlways == Spec => []QuietAfterStop
<1>1. Init => Reachable /\ StoppedInv
  BY DEF Init, Reachable, StoppedInv
<1>2. TypeOK /\ Reachable /\ StoppedInv => QuietAfterStop
  <2> SUFFICES ASSUME TypeOK, Reachable, StoppedInv, "stop" \notin mixing, stop = "done",
                      NEW k \in Sockets, loop[k] = "reading"
               PROVE FALSE
    BY DEF QuietAfterStop
  <2>1. readTask = None /\ \A a \in Announcers : at[a] = "idle"
    BY DEF StoppedInv
  <2>2. k = readTask
    BY <2>1 DEF Reachable
  <2> QED
    BY <2>1, <2>2 DEF Sockets, None
<1> QED
  BY <1>1, <1>2, ReachableStep, StoppedStep, SocketTypeCorrect, PTL DEF Spec

-----------------------------------------------------------------------------
(* Binding in turn: while one announcer is in bind the cell is empty, and   *)
(* the socket it holds is alive until it is stored.                         *)

Binding(a) == at[a] \in {"binding", "spawned", "replaced"}

HoldsLive(a) ==
  /\ mine[a] \in Sockets \ closed
  /\ loop[mine[a]] = "reading"
  /\ mine[a] = readTask <=> at[a] = "replaced"

\* What is held or closed has been bound.
Born ==
  \A k \in Sockets :
    k = readTask \/ k \in closed \/ (\E a \in Announcers : mine[a] = k) => loop[k] # "unborn"

TurnInv ==
  /\ Born
  /\ mixing \subseteq {"stop"} /\ stop = "no" =>
       /\ \A a, b \in Announcers : Binding(a) /\ Binding(b) => a = b
       /\ \A a \in Announcers : Binding(a) => socket = None
       /\ \A a \in Announcers : at[a] \in {"spawned", "replaced"} => HoldsLive(a)
       /\ \A a \in Announcers : at[a] \notin {"spawned", "replaced"} => mine[a] = None
       /\ socket # None => socket = readTask /\ loop[socket] = "reading"

LEMMA TurnStep == TypeOK /\ TurnInv /\ [Next]_vars => TurnInv'
<1> SUFFICES ASSUME TypeOK, TurnInv, [Next]_vars PROVE TurnInv'
  OBVIOUS
<1> USE DEF TurnInv, Born, TypeOK, Binding, HoldsLive, Goto, Sockets, None
<1>1. ASSUME NEW a \in Announcers, Announce(a) PROVE TurnInv'
  BY <1>1 DEF Announce
<1>2. ASSUME NEW a \in Announcers, CheckSocket(a) PROVE TurnInv'
  BY <1>2 DEF CheckSocket
<1>3. ASSUME NEW a \in Announcers, BindFails(a) PROVE TurnInv'
  BY <1>3 DEF BindFails
<1>4. ASSUME NEW a \in Announcers, SpawnLoop(a) PROVE TurnInv'
  <2>1. PICK k \in Sockets : /\ loop[k] = "unborn" /\ k \notin closed /\ k # readTask
                            /\ loop' = [loop EXCEPT ![k] = "reading"]
                            /\ mine' = [mine EXCEPT ![a] = k]
    BY <1>4 DEF SpawnLoop
  <2>2. /\ at[a] = "binding" /\ at' = [at EXCEPT ![a] = "spawned"]
        /\ UNCHANGED <<socket, readTask, closed, stop, mixing>>
    BY <1>4 DEF SpawnLoop
  <2>3. Born'
    BY <2>1, <2>2
  <2>4. ASSUME mixing \subseteq {"stop"}, stop = "no"
        PROVE  /\ \A b \in Announcers : Binding(b)' => b = a
               /\ socket' = None
               /\ HoldsLive(a)'
               /\ \A b \in Announcers : b # a => mine'[b] = None /\ at'[b] = at[b]
    <3>1. \A b \in Announcers : Binding(b) => b = a
      BY <2>2, <2>4
    <3> QED
      BY <2>1, <2>2, <2>4, <3>1
  <2> QED
    BY <2>2, <2>3, <2>4
<1>5. ASSUME NEW a \in Announcers, ReplaceLoop(a) PROVE TurnInv'
  <2>1. /\ at[a] = "spawned" /\ at' = [at EXCEPT ![a] = "replaced"]
        /\ readTask' = mine[a] /\ loop' = Aborted(readTask)
        /\ UNCHANGED <<socket, closed, mine, stop, mixing>>
    BY <1>5 DEF ReplaceLoop
  <2>2. /\ loop' \in [Sockets -> {"unborn", "reading", "aborted", "ended"}]
        /\ \A k \in Sockets : k # readTask => loop'[k] = loop[k]
        /\ \A k \in Sockets : loop[k] # "unborn" => loop'[k] # "unborn"
    BY <2>1 DEF Aborted
  <2>3. Born'
    BY <2>1, <2>2
  <2>4. ASSUME mixing \subseteq {"stop"}, stop = "no"
        PROVE  /\ \A b \in Announcers : Binding(b) => b = a
               /\ socket = None
               /\ HoldsLive(a)'
    <3>1. HoldsLive(a) /\ mine[a] # readTask
      BY <2>1, <2>4
    <3> QED
      BY <2>1, <2>2, <2>4, <3>1
  <2> QED
    BY <2>1, <2>3, <2>4
<1>6. ASSUME NEW a \in Announcers, StoreSocket(a) PROVE TurnInv'
  BY <1>6 DEF StoreSocket
<1>7. ASSUME NEW k \in Sockets, Close(k) PROVE TurnInv'
  BY <1>7 DEF Close
<1>8. ASSUME NEW k \in Sockets, LoopEnds(k) PROVE TurnInv'
  BY <1>8 DEF LoopEnds
<1>9. CASE StopTasks
  BY <1>9 DEF StopTasks
<1>10. CASE StopReader
  BY <1>10 DEF StopReader, Aborted
<1>11. CASE StopSocket
  BY <1>11 DEF StopSocket
<1>12. CASE UNCHANGED vars
  BY <1>12 DEF vars
<1> QED
  BY <1>1, <1>2, <1>3, <1>4, <1>5, <1>6, <1>7, <1>8, <1>9, <1>10, <1>11, <1>12 DEF Next

\* When neither another announcer nor a closing comes within a bind, a socket that
\* announces are sent on always has its loop (discovery.rs, bind and the read loop).
THEOREM HeldIsReadAlways == Spec => []HeldIsRead
<1>1. Init => TurnInv
  BY BoundsAssumption DEF Init, TurnInv, Born, Binding, HoldsLive, Sockets, None
<1>2. TurnInv => HeldIsRead
  BY DEF TurnInv, HeldIsRead
<1> QED
  BY <1>1, <1>2, TurnStep, SocketTypeCorrect, PTL DEF Spec
-----------------------------------------------------------------------------
(* The list of devices on its way to the app *)

\* Loops that carry a snapshot: one at a time, where hand-overs have not crossed.
Carrying == {e \in Emitters : emit[e] \in {"snapped", "stored"}}

OneCarried == \A e, f \in Carrying : e = f

\* What was last sent, or the first list itself, is what the app shows in the end:
\* that holds until hand-overs cross, and again from the next one that is alone.
InOrder ==
  /\ (\A e \in Emitters : emit[e] # "changed") =>
       IF \E e \in Emitters : emit[e] = "snapped"
       THEN \A e \in Emitters : emit[e] = "snapped" => snap[e] = devices
       ELSE last = devices
  /\ \A e \in Emitters : emit[e] = "stored" => snap[e] = last

\* With none on its way, the channel ends with the last list there was.
SentLast ==
  Carrying = {} =>
     IF channel # <<>> THEN channel[Len(channel)] = last
                       ELSE sub = "live" => shown = last

ListInv ==
  /\ sub = "none" => channel = <<>>
  /\ ~crossed => OneCarried /\ InOrder /\ SentLast

\* What becomes of the channel when a list is sent.
LEMMA SentIsLast ==
  ASSUME channel \in Seq(Snapshots), Len(channel) <= Capacity, NEW list \in Snapshots
  PROVE  /\ Sent(list) \in Seq(Snapshots)
         /\ Len(Sent(list)) \in 1 .. Capacity
         /\ Sent(list)[Len(Sent(list))] = list
<1> DEFINE longer == Append(channel, list)
<1>1. /\ longer \in Seq(Snapshots)
      /\ Len(longer) = Len(channel) + 1
      /\ longer[Len(longer)] = list
  OBVIOUS
<1>2. CASE Len(longer) > Capacity
  <2>1. Sent(list) = Tail(longer)
    BY <1>2 DEF Sent
  <2>2. Len(longer) >= 2 /\ Len(longer) = Capacity + 1
    BY <1>1, <1>2, DeviceListAssumption
  <2>3. /\ Tail(longer) \in Seq(Snapshots)
        /\ Len(Tail(longer)) = Len(longer) - 1
        /\ \A i \in 1 .. Len(longer) - 1 : Tail(longer)[i] = longer[i + 1]
    BY <1>1, <2>2
  <2> HIDE DEF longer
  <2> QED
    BY <1>1, <2>1, <2>2, <2>3, DeviceListAssumption
<1>3. CASE Len(longer) <= Capacity
  <2>1. Sent(list) = longer
    BY <1>1, <1>3, DeviceListAssumption DEF Sent
  <2> HIDE DEF longer
  <2> QED
    BY <1>1, <1>3, <2>1, DeviceListAssumption
<1> QED
  BY <1>1, <1>2, <1>3, DeviceListAssumption

\* Taking the first entry keeps the newest, or leaves the channel empty.
LEMMA TakenFirst ==
  ASSUME channel \in Seq(Snapshots), channel # <<>>
  PROVE  /\ Head(channel) \in Snapshots
         /\ Tail(channel) \in Seq(Snapshots)
         /\ Len(Tail(channel)) = Len(channel) - 1
         /\ IF Tail(channel) # <<>>
            THEN Tail(channel)[Len(Tail(channel))] = channel[Len(channel)]
            ELSE Head(channel) = channel[Len(channel)]
<1>1. Len(channel) \in Nat \ {0} /\ Head(channel) = channel[1]
  BY EmptySeq
<1>2. /\ Tail(channel) \in Seq(Snapshots)
      /\ Len(Tail(channel)) = Len(channel) - 1
      /\ \A i \in 1 .. Len(channel) - 1 : Tail(channel)[i] = channel[i + 1]
  BY HeadTailProperties
<1>3. Head(channel) \in Snapshots
  BY HeadTailProperties
<1>4. Tail(channel) # <<>> <=> Len(Tail(channel)) # 0
  BY <1>2, EmptySeq
<1> QED
  BY <1>1, <1>2, <1>3, <1>4

LEMMA ListTypeStep == ListTypeOK /\ [ListNext]_listVars => ListTypeOK'
<1> SUFFICES ASSUME ListTypeOK, [ListNext]_listVars PROVE ListTypeOK'
  OBVIOUS
<1> USE DEF ListTypeOK, Emitting
<1>1. ASSUME NEW p \in Peers, NEW i \in Infos, Hear(p, i) PROVE ListTypeOK'
  BY <1>1 DEF Hear, Snapshots
<1>2. ASSUME NEW gone \in SUBSET Peers, Prune(gone) PROVE ListTypeOK'
  BY <1>2 DEF Prune, Snapshots
<1>3. ASSUME NEW e \in Emitters, Snapshot(e) PROVE ListTypeOK'
  BY <1>3 DEF Snapshot
<1>4. ASSUME NEW e \in Emitters, StoreLast(e) PROVE ListTypeOK'
  BY <1>4 DEF StoreLast
<1>5. ASSUME NEW e \in Emitters, Broadcast(e) PROVE ListTypeOK'
  <2>1. channel' \in Seq(Snapshots) /\ Len(channel') <= Capacity
    BY <1>5, SentIsLast, DeviceListAssumption DEF Broadcast
  <2> QED
    BY <1>5, <2>1 DEF Broadcast
<1>6. CASE Subscribe
  BY <1>6 DEF Subscribe
<1>7. CASE SendCurrent
  BY <1>7 DEF SendCurrent
<1>8. CASE Receive
  <2>1. channel' \in Seq(Snapshots) /\ Len(channel') <= Capacity /\ shown' \in Snapshots
    BY <1>8, TakenFirst, DeviceListAssumption DEF Receive
  <2> QED
    BY <1>8, <2>1 DEF Receive
<1>9. CASE UNCHANGED listVars
  BY <1>9 DEF listVars
<1> QED
  BY <1>1, <1>2, <1>3, <1>4, <1>5, <1>6, <1>7, <1>8, <1>9 DEF ListNext

\* Every variable of the list keeps its type: what is sent are whole snapshots, and
\* the channel keeps its capacity, whether hand-overs overlap or not.
THEOREM ListTypeCorrect == ListSpec => []ListTypeOK
<1>1. ListInit => ListTypeOK
  <2> SUFFICES ASSUME ListInit PROVE ListTypeOK
    OBVIOUS
  <2>1. Empty \in Snapshots
    BY DEF Empty, Snapshots
  <2>2. channel \in Seq(Snapshots) /\ Len(channel) <= Capacity
    BY DeviceListAssumption DEF ListInit
  <2> QED
    BY <2>1, <2>2 DEF ListInit, ListTypeOK
<1>2. ListTypeOK /\ [ListNext]_listVars => ListTypeOK'
  BY ListTypeStep
<1> QED
  BY <1>1, <1>2, PTL DEF ListSpec

LEMMA OrderStep ==
  ASSUME ListTypeOK, ListInv, [ListNext]_listVars
  PROVE  ListInv'
<1> USE DEF ListInv, OneCarried, Carrying, InOrder, SentLast, ListTypeOK, Emitting
<1>1. ASSUME NEW p \in Peers, NEW i \in Infos, Hear(p, i), "read" \in Emitters
      PROVE  ListInv'
  <2>1. devices[p] = i => devices' = devices
    BY <1>1 DEF Hear, Snapshots
  <2> QED
    BY <1>1, <2>1 DEF Hear
<1>2. ASSUME NEW gone \in SUBSET Peers, Prune(gone), "prune" \in Emitters
      PROVE  ListInv'
  BY <1>2 DEF Prune
<1>3. ASSUME NEW e \in Emitters, Snapshot(e) PROVE ListInv'
  \* Crossed or not until now, a snapshot taken alone is the only one there is.
  <2>1. CASE crossed'
    BY <1>3, <2>1 DEF Snapshot
  <2>2. CASE ~crossed'
    <3>1. \A f \in Emitters : emit[f] \in {"idle", "changed"}
      BY <1>3, <2>2 DEF Snapshot
    <3>2. /\ emit' = [emit EXCEPT ![e] = "snapped"]
          /\ snap' = [snap EXCEPT ![e] = devices]
          /\ UNCHANGED <<devices, last, sub, channel, shown>>
      BY <1>3 DEF Snapshot
    <3>3. Carrying' = {e}
      BY <3>1, <3>2
    <3> QED
      BY <3>1, <3>2, <3>3
  <2> QED
    BY <2>1, <2>2
<1>4. ASSUME NEW e \in Emitters, StoreLast(e) PROVE ListInv'
  BY <1>4 DEF StoreLast
<1>5. ASSUME NEW e \in Emitters, Broadcast(e) PROVE ListInv'
  <2>1. /\ emit[e] = "stored" /\ emit' = [emit EXCEPT ![e] = "idle"]
        /\ UNCHANGED <<devices, snap, last, sub, shown, crossed>>
    BY <1>5 DEF Broadcast
  <2>2. CASE crossed
    BY <1>5, <2>1, <2>2 DEF Broadcast
  <2>3. CASE ~crossed
    <3>1. snap[e] = last /\ \A f \in Emitters : f # e => emit[f] \in {"idle", "changed"}
      BY <2>1, <2>3
    <3>2. CASE sub = "none"
      <4>1. channel' = <<>>
        BY <1>5, <3>2 DEF Broadcast
      <4> QED
        BY <2>1, <2>3, <3>1, <3>2, <4>1
    <3>3. CASE sub # "none"
      <4>1. channel' = Sent(last)
        BY <1>5, <3>1, <3>3 DEF Broadcast
      <4>2. /\ Len(Sent(last)) \in 1 .. Capacity
            /\ Sent(last)[Len(Sent(last))] = last
        BY SentIsLast
      <4>3. Sent(last) # <<>>
        BY <4>2, EmptySeq, DeviceListAssumption
      <4> QED
        BY <2>1, <2>3, <3>1, <3>3, <4>1, <4>2, <4>3
    <3> QED
      BY <3>2, <3>3
  <2> QED
    BY <2>2, <2>3, <2>1
<1>6. CASE Subscribe
  BY <1>6 DEF Subscribe
<1>7. CASE SendCurrent
  BY <1>7 DEF SendCurrent
<1>8. CASE Receive
  BY <1>8, TakenFirst DEF Receive
<1>9. CASE UNCHANGED listVars
  BY <1>9 DEF listVars
<1> QED
  BY <1>1, <1>2, <1>3, <1>4, <1>5, <1>6, <1>7, <1>8, <1>9 DEF ListNext

\* The app ends up with the list, however late it subscribes and however far it lags
\* behind the channel (emit, node_start, node_device_events).  Hand-overs may cross,
\* and what they leave is repaired by the next that is alone: nothing is assumed.
THEOREM UpToDateAlways == ListSpec => []UpToDate
<1>1. ListInit => ListInv
  BY DEF ListInit, ListInv, OneCarried, Carrying, InOrder, SentLast
<1>2. ListTypeOK /\ ListInv /\ [ListNext]_listVars => ListInv'
  BY OrderStep
<1>3. ListInv => UpToDate
  BY DEF ListInv, InOrder, SentLast, Carrying, UpToDate
<1> QED
  BY <1>1, <1>2, <1>3, ListTypeCorrect, PTL DEF ListSpec
=============================================================================
