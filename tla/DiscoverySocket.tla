--------------------------- MODULE DiscoverySocket ---------------------------
(***************************************************************************)
(* The UDP socket of the Discoverer and the task that reads it             *)
(* (app/rust/src/core/discovery.rs).                                       *)
(*                                                                         *)
(* The operating system may close the socket under the app.  The read loop *)
(* then empties the socket cell, and the next announce binds a new socket. *)
(* bind does not await, but it takes the locks of read_task and of socket  *)
(* one after the other, so announcers on two threads interleave in it: the *)
(* five-second task, and node_announce behind the refresh button.          *)
(***************************************************************************)
EXTENDS Naturals, FiniteSets

CONSTANTS
  Announcers,   \* the announce task and the callers of node_announce
  MaxSockets,   \* bound: sockets bound in a run
  MaxCloses,    \* bound: sockets the operating system closes
  InBind        \* what may happen while an announcer is in bind: another one may
                \* "announce", the system "close" the new socket, node_stop "stop"

ASSUME BoundsAssumption ==
  /\ MaxSockets \in Nat \ {0}
  /\ MaxCloses \in Nat
  /\ InBind \subseteq {"announce", "close", "stop"}

None == 0
Sockets == 1 .. MaxSockets

VARIABLES
  socket,     \* Inner.socket: what announce sends on
  readTask,   \* Inner.read_task: the loop that stop and the next bind abort
  loop,       \* the read loop of each socket
  closed,     \* sockets the operating system has closed
  at,         \* where each announcer is
  mine,       \* the socket an announcer is setting up
  stop,       \* how far stop has come
  mixing      \* which of InBind do happen in this behaviour

vars == <<socket, readTask, loop, closed, at, mine, stop, mixing>>

TypeOK ==
  /\ {socket, readTask} \subseteq Sockets \cup {None}
  /\ loop \in [Sockets -> {"unborn", "reading", "aborted", "ended"}]
  /\ closed \subseteq Sockets
  /\ at \in [Announcers -> {"idle", "called", "binding", "spawned", "replaced"}]
  /\ mine \in [Announcers -> Sockets \cup {None}]
  /\ stop \in {"no", "tasks", "reader", "done"}
  /\ mixing \subseteq InBind

\* start has bound the first socket before it spawns the announce task.
Init ==
  /\ socket = 1
  /\ readTask = 1
  /\ loop = [k \in Sockets |-> IF k = 1 THEN "reading" ELSE "unborn"]
  /\ closed = {}
  /\ at = [a \in Announcers |-> "idle"]
  /\ mine = [a \in Announcers |-> None]
  /\ stop = "no"
  /\ mixing \in SUBSET InBind

Goto(a, place) == at' = [at EXCEPT ![a] = place]

Aborted(k) ==
  IF k # None /\ loop[k] = "reading" THEN [loop EXCEPT ![k] = "aborted"] ELSE loop

-----------------------------------------------------------------------------
(* announce, current_or_rebind and bind *)

\* The interval ticks, or the user asks for a refresh of a node that runs.
Announce(a) ==
  /\ at[a] = "idle"
  /\ stop = "no"
  /\ Goto(a, "called")
  /\ UNCHANGED <<socket, readTask, loop, closed, mine, stop, mixing>>

\* Mutant of CheckSocket: an announce without a socket is skipped.
CheckSocketOnly(a) ==
  /\ at[a] = "called"
  /\ Goto(a, "idle")
  /\ UNCHANGED <<socket, readTask, loop, closed, mine, stop, mixing>>

\* A held socket is sent on, closed or not; errors of send_to are ignored.
CheckSocket(a) ==
  /\ at[a] = "called"
  /\ "announce" \in mixing \/ \A b \in Announcers : at[b] \in {"idle", "called"}
  /\ Goto(a, IF socket = None THEN "binding" ELSE "idle")
  /\ UNCHANGED <<socket, readTask, loop, closed, mine, stop, mixing>>

BindFails(a) ==
  /\ at[a] = "binding"
  /\ Goto(a, "idle")
  /\ UNCHANGED <<socket, readTask, loop, closed, mine, stop, mixing>>

\* Mutant of SpawnLoop: the socket is bound, its read loop left for later.
SpawnLoopLater(a) ==
  /\ at[a] = "binding"
  /\ \E k \in Sockets :
       /\ loop[k] = "unborn"
       /\ loop' = [loop EXCEPT ![k] = "bound"]
       /\ mine' = [mine EXCEPT ![a] = k]
  /\ Goto(a, "spawned")
  /\ UNCHANGED <<socket, readTask, closed, stop, mixing>>

\* The new socket is bound and its read loop spawned.
SpawnLoop(a) ==
  /\ at[a] = "binding"
  /\ \E k \in Sockets :
       /\ loop[k] = "unborn"
       /\ \A j \in Sockets : j < k => loop[j] # "unborn"
       /\ loop' = [loop EXCEPT ![k] = "reading"]
       /\ mine' = [mine EXCEPT ![a] = k]
  /\ Goto(a, "spawned")
  /\ UNCHANGED <<socket, readTask, closed, stop, mixing>>

\* Mutant of ReplaceLoop: the loop before it keeps running.
ReplaceLoopOnly(a) ==
  /\ at[a] = "spawned"
  /\ readTask' = mine[a]
  /\ Goto(a, "replaced")
  /\ UNCHANGED <<socket, loop, closed, mine, stop, mixing>>

\* The loop that was in the cell is aborted.
ReplaceLoop(a) ==
  /\ at[a] = "spawned"
  /\ loop' = Aborted(readTask)
  /\ readTask' = mine[a]
  /\ Goto(a, "replaced")
  /\ UNCHANGED <<socket, closed, mine, stop, mixing>>

StoreSocket(a) ==
  /\ at[a] = "replaced"
  /\ socket' = mine[a]
  /\ mine' = [mine EXCEPT ![a] = None]
  /\ Goto(a, "idle")
  /\ UNCHANGED <<readTask, loop, closed, stop, mixing>>

-----------------------------------------------------------------------------
(* The operating system and the read loop *)

Close(k) ==
  /\ loop[k] # "unborn"
  /\ k \notin closed
  /\ Cardinality(closed) < MaxCloses
  /\ "close" \in mixing \/ \A a \in Announcers : mine[a] # k
  /\ closed' = closed \cup {k}
  /\ UNCHANGED <<socket, readTask, loop, at, mine, stop, mixing>>

\* Mutant of LoopEnds: the cell keeps the dead socket.
LoopEndsOnly(k) ==
  /\ k \in closed
  /\ loop[k] = "reading"
  /\ loop' = [loop EXCEPT ![k] = "ended"]
  /\ UNCHANGED <<socket, readTask, closed, at, mine, stop, mixing>>

\* recv_from fails: the cell is emptied if it still holds this loop's socket.
LoopEnds(k) ==
  /\ k \in closed
  /\ loop[k] = "reading"
  /\ loop' = [loop EXCEPT ![k] = "ended"]
  /\ socket' = IF socket = k THEN None ELSE socket
  /\ UNCHANGED <<readTask, closed, at, mine, stop, mixing>>

-----------------------------------------------------------------------------
(* stop: the tasks, then the read loop, then the socket *)

StopTasks ==
  /\ stop = "no"
  /\ "stop" \in mixing \/ \A a \in Announcers : at[a] = "idle"
  /\ stop' = "tasks"
  /\ UNCHANGED <<socket, readTask, loop, closed, at, mine, mixing>>

\* Mutant of StopReader: the handle is dropped, which detaches the task.
StopReaderDetached ==
  /\ stop = "tasks"
  /\ readTask' = None
  /\ stop' = "reader"
  /\ UNCHANGED <<socket, loop, closed, at, mine, mixing>>

StopReader ==
  /\ stop = "tasks"
  /\ loop' = Aborted(readTask)
  /\ readTask' = None
  /\ stop' = "reader"
  /\ UNCHANGED <<socket, closed, at, mine, mixing>>

StopSocket ==
  /\ stop = "reader"
  /\ socket' = None
  /\ stop' = "done"
  /\ UNCHANGED <<readTask, loop, closed, at, mine, mixing>>

-----------------------------------------------------------------------------
Next ==
  \/ \E a \in Announcers :
       \/ Announce(a) \/ CheckSocket(a) \/ BindFails(a)
       \/ SpawnLoop(a) \/ ReplaceLoop(a) \/ StoreSocket(a)
  \/ \E k \in Sockets : Close(k) \/ LoopEnds(k)
  \/ StopTasks \/ StopReader \/ StopSocket

Spec == Init /\ [][Next]_vars

\* The interval keeps ticking (and the user keeps refreshing); a bind that is tried
\* again and again succeeds in the end; a read on a closed socket returns.
Fairness ==
  /\ \A a \in Announcers :
       /\ WF_vars(Announce(a)) /\ WF_vars(CheckSocket(a))
       /\ SF_vars(SpawnLoop(a))
       /\ WF_vars(ReplaceLoop(a)) /\ WF_vars(StoreSocket(a))
  /\ \A k \in Sockets : WF_vars(LoopEnds(k))

FairSpec == Spec /\ Fairness

-----------------------------------------------------------------------------
\* However announcers, closings and stop interleave, once they are done at most
\* one loop reads: every loop passes through read_task, and the next one aborts it.
OneLoop ==
  (\A a \in Announcers : at[a] = "idle") =>
    \A j, k \in Sockets : loop[j] = "reading" /\ loop[k] = "reading" => j = k

\* When nothing happens within a bind, a socket that announces are sent on has a loop
\* to hear the answers: an empty cell is the only sign of a dead socket.
HeldIsRead ==
  mixing \subseteq {"stop"} /\ stop = "no" /\ socket # None => loop[socket] = "reading"

\* Stopped between two announces, the discoverer neither hears nor answers, whatever
\* mixed with the binds before.
QuietAfterStop ==
  "stop" \notin mixing /\ stop = "done" => \A k \in Sockets : loop[k] # "reading"

\* "When the OS closes the socket the cell goes back to None and the announce
\* interval rebinds it" (discovery.rs:34): the node hears its peers again.
Listening == \E k \in Sockets : loop[k] = "reading" /\ k \notin closed

Recovers == []<>(Listening \/ stop # "no")

\* It does when no announcer and no closing comes between the steps of a bind.
RecoversInTurn == mixing \subseteq {"stop"} => Recovers
=============================================================================
