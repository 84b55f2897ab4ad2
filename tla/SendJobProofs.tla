---------------------------- MODULE SendJobProofs ----------------------------
(***************************************************************************)
(* Proofs about SendJob, for any number of sends and of events under way.  *)
(***************************************************************************)
EXTENDS SendJob, TLAPS, FiniteSetTheorems, SequenceTheorems

\* Before send_files awaits anything.
Early == {"starting", "called", "checked", "spawned"}

\* A call that the card on the screen stands for.
Busy(c) == at[c] \in Early \/ (~renewed /\ at[c] \notin {"unused", "ended"})

\* A task runs within its call.
TaskOfCall == \A c \in Calls : job[c] \in Running => at[c] \in {"spawned", "joining"}

\* One call at a time has the card, in flight, and the card listens to it.
CardOfCall ==
  /\ \A c \in Calls : Busy(c) => phase \in InFlight /\ sub = IF at[c] = "starting" THEN None ELSE c
  /\ \A b, c \in Calls : Busy(b) /\ Busy(c) => b = c

\* The end event is the last of its call.
EndsOnce ==
  /\ \A i \in DOMAIN events : events[i][2] \in Ends => at[events[i][1]] = "ended"
  /\ \A i, j \in DOMAIN events :
       i < j /\ events[i][1] = events[j][1] => events[i][2] \notin Ends

\* A card in flight will come to an end; one that has ended, or is gone, hears no more.
Owed ==
  ~renewed =>
    IF phase \in InFlight
    THEN \/ \E c \in Calls : at[c] \notin {"unused", "ended"}
         \/ \E i \in DOMAIN events : events[i][1] = sub /\ events[i][2] \in Ends
    ELSE \A i \in DOMAIN events : events[i][1] # sub

\* Until a cancel has taken a handle, SENDING is that of the one call that has stored it.
HandleKept ==
  aborted = {} => \A c \in Calls :
    /\ at[c] = "joining" => sending = c
    /\ at[c] \in {"checked", "spawned"} => sending = None

SendInv ==
  /\ TypeOK
  /\ HandleEnds
  /\ TaskOfCall
  /\ CardOfCall
  /\ EndsOnce
  /\ Owed
  /\ HandleKept

-----------------------------------------------------------------------------
(* The queue of events *)

LEMMA Emitted ==
  ASSUME events \in Seq(Calls \X Phases), NEW c \in Calls, NEW p \in Phases, Emit(c, p)
  PROVE  /\ events' \in Seq(Calls \X Phases)
         /\ DOMAIN events' = DOMAIN events \cup {Len(events) + 1}
         /\ \A i \in DOMAIN events : events'[i] = events[i] /\ i < Len(events) + 1
         /\ events'[Len(events) + 1] = <<c, p>>
BY DEF Emit

LEMMA Taken ==
  ASSUME events \in Seq(Calls \X Phases), events # <<>>, events' = Tail(events)
  PROVE  /\ events' \in Seq(Calls \X Phases)
         /\ 1 \in DOMAIN events /\ Head(events) = events[1]
         /\ \A i \in DOMAIN events' : i + 1 \in DOMAIN events /\ events'[i] = events[i + 1] /\ 1 < i + 1
         /\ \A i \in DOMAIN events \ {1} : i - 1 \in DOMAIN events' /\ events'[i - 1] = events[i]
BY HeadTailProperties

-----------------------------------------------------------------------------
LEMMA SendInit == Init => SendInv
<1> SUFFICES ASSUME Init PROVE SendInv
  OBVIOUS
<1>1. TypeOK
  <2>1. events \in Seq(Calls \X Phases)
    BY DEF Init
  <2>. QED
    BY <2>1 DEF Init, TypeOK
<1>2. HandleEnds /\ TaskOfCall /\ CardOfCall /\ EndsOnce /\ Owed /\ HandleKept
  BY SendAssumption DEF Init, HandleEnds, TaskOfCall, CardOfCall, EndsOnce, Owed, HandleKept, Busy, Early,
     Calls, None, InFlight, Running
<1>. QED
  BY <1>1, <1>2 DEF SendInv

(* What the steps of calls and tasks have in common *)

\* A call ends and says so.
Ending(c) ==
  /\ at[c] \in {"called", "checked", "cleared", "cancelling"}
  /\ Goto(c, "ended")
  /\ \E p \in Ends : Emit(c, p)
  /\ UNCHANGED <<card, job, session, aborted, sending>>

\* A task goes on and says so.
Reporting(c) ==
  /\ job[c] \in Running
  /\ \E to \in Running : Becomes(c, to)
  /\ \E p \in InFlight : Emit(c, p)
  /\ session' \in {session, [session EXCEPT ![c] = TRUE]}
  /\ UNCHANGED <<card, at, aborted, sending>>

\* A task goes on, or ends, in silence.
Working(c) ==
  /\ job[c] \in Running
  /\ \E to \in Running \cup {"ok", "failed", "aborted"} : Becomes(c, to)
  /\ UNCHANGED <<card, at, aborted, sending, events, session>>

LEMMA CallSteps ==
  ASSUME NEW c, Call(c)
  PROVE  Ending(c) \/ Check(c) \/ Spawn(c) \/ StoreHandle(c) \/ ClearHandle(c) \/ CancelSession(c)
<1>1. ASSUME Refuse(c) \/ FailEarly(c) PROVE Ending(c)
  BY <1>1 DEF Refuse, FailEarly, CallStep, Ending, Ends
<1>2. ASSUME Report(c) PROVE Ending(c)
  BY <1>2 DEF Report, CallStep, Ending, Ends
<1>. QED
  BY <1>1, <1>2 DEF Call

LEMMA JobSteps ==
  ASSUME NEW c, Job(c)
  PROVE  Reporting(c) \/ Working(c)
<1>1. ASSUME Prepare(c) \/ Prepared(c) \/ Progress(c) PROVE Reporting(c)
  BY <1>1 DEF Prepare, Prepared, Progress, TaskStep, Reporting, Running, InFlight
<1>2. ASSUME UploadFails(c) \/ Returns(c) \/ Aborts(c) PROVE Working(c)
  BY <1>2 DEF UploadFails, Returns, Aborts, TaskStep, Working, Running
<1>. QED
  BY <1>1, <1>2 DEF Job

-----------------------------------------------------------------------------
LEMMA TypesStep ==
  ASSUME TypeOK, [Next]_vars
  PROVE  TypeOK'
<1>. USE DEF TypeOK, Goto, Becomes, card
<1>a. InFlight \subseteq Phases /\ Ends \subseteq Phases
  BY DEF Phases
<1>1. ASSUME NEW c \in Calls, Send(c) \/ Listen(c) \/ Cancel(c) \/ SendCancel(c) PROVE TypeOK'
  BY <1>1 DEF Send, Listen, Cancel, SendCancel, Phases, InFlight
<1>2. ASSUME NEW c \in Calls, Ending(c) PROVE TypeOK'
  <2>1. events' \in Seq(Calls \X Phases)
    BY <1>a, <1>2, Emitted DEF Ending
  <2>. QED
    BY <1>2, <2>1 DEF Ending
<1>3. ASSUME NEW c \in Calls, Check(c) \/ Spawn(c) \/ StoreHandle(c) \/ ClearHandle(c) \/ CancelSession(c)
      PROVE  TypeOK'
  BY <1>3 DEF CallStep, Check, Spawn, StoreHandle, ClearHandle, CancelSession, Running
<1>4. ASSUME NEW c \in Calls, Reporting(c) PROVE TypeOK'
  <2>1. events' \in Seq(Calls \X Phases)
    BY <1>a, <1>4, Emitted DEF Reporting
  <2>2. job' \in [Calls -> Running \cup {"none", "ok", "failed", "aborted"}]
    BY <1>4 DEF Reporting
  <2>3. session' \in [Calls -> BOOLEAN]
    BY <1>4 DEF Reporting
  <2>. QED
    BY <1>4, <2>1, <2>2, <2>3 DEF Reporting
<1>5. ASSUME NEW c \in Calls, Working(c) PROVE TypeOK'
  BY <1>5 DEF Working
<1>6. CASE OnEvent
  <2>1. Head(events) \in Calls \X Phases /\ events' \in Seq(Calls \X Phases)
    BY <1>6, Taken DEF OnEvent
  <2>. QED
    BY <1>6, <2>1 DEF OnEvent
<1>7. CASE Dismiss
  BY <1>7 DEF Dismiss
<1>8. CASE NewEngine
  BY <1>8 DEF NewEngine
<1>9. CASE UNCHANGED vars
  BY <1>9 DEF vars
<1>. QED
  BY <1>1, <1>2, <1>3, <1>4, <1>5, <1>6, <1>7, <1>8, <1>9, CallSteps, JobSteps DEF Next

-----------------------------------------------------------------------------
(* Who holds the handle, and who the card *)

LEMMA HandlesStep ==
  ASSUME SendInv, TypeOK', [Next]_vars
  PROVE  HandleEnds' /\ TaskOfCall' /\ HandleKept' /\ CardOfCall'
<1> DEFINE Handles == HandleEnds /\ TaskOfCall /\ HandleKept
<1>a. None \notin Calls
  BY SendAssumption DEF Calls, None
<1>b. Handles /\ CardOfCall /\ EndsOnce /\ TypeOK
  BY DEF SendInv
<1>. USE DEF HandleEnds, TaskOfCall, HandleKept, CardOfCall, TypeOK, Busy, Early, Goto, Becomes, card
<1>1. ASSUME NEW c \in Calls, Send(c) PROVE Handles' /\ CardOfCall'
  <2>1. \A b \in Calls : ~Busy(b)
    BY <1>1, <1>b DEF Send
  <2>2. Handles'
    BY <1>1, <1>b DEF Send
  <2>3. CardOfCall'
    BY <1>1, <1>b, <2>1 DEF Send, InFlight
  <2>. QED
    BY <2>2, <2>3
<1>2. ASSUME NEW c \in Calls, Listen(c) PROVE Handles' /\ CardOfCall'
  <2>1. Handles'
    BY <1>2, <1>b DEF Listen
  <2>2. CardOfCall'
    BY <1>2, <1>b DEF Listen
  <2>. QED
    BY <2>1, <2>2
<1>3. ASSUME NEW c \in Calls, Cancel(c) \/ SendCancel(c) PROVE Handles' /\ CardOfCall'
  <2>1. /\ UNCHANGED <<phase, sub, at, job, renewed>>
        /\ \/ UNCHANGED <<aborted, sending>>
           \/ sending' = None /\ aborted' = aborted /\ sending = None
           \/ sending' = None /\ aborted' # {}
    BY <1>3 DEF Cancel, SendCancel
  <2>2. HandleEnds' /\ HandleKept'
    BY <2>1, <1>a, <1>b
  <2>3. TaskOfCall' /\ CardOfCall'
    BY <2>1, <1>b
  <2>. QED
    BY <2>2, <2>3
<1>4. ASSUME NEW c \in Calls, Ending(c) PROVE Handles' /\ CardOfCall'
  <2>1. Handles'
    BY <1>4, <1>b DEF Ending
  <2>2. CardOfCall'
    BY <1>4, <1>b DEF Ending
  <2>. QED
    BY <2>1, <2>2
<1>5. ASSUME NEW c \in Calls, Check(c) \/ CancelSession(c) PROVE Handles' /\ CardOfCall'
  <2>1. Handles'
    BY <1>5, <1>b DEF Check, CancelSession, CallStep
  <2>2. CardOfCall'
    BY <1>5, <1>b DEF Check, CancelSession, CallStep
  <2>. QED
    BY <2>1, <2>2
<1>6. ASSUME NEW c \in Calls, Spawn(c) PROVE Handles' /\ CardOfCall'
  <2>1. Handles'
    BY <1>6, <1>b DEF Spawn, CallStep
  <2>2. CardOfCall'
    BY <1>6, <1>b DEF Spawn, CallStep
  <2>. QED
    BY <2>1, <2>2
<1>7. ASSUME NEW c \in Calls, StoreHandle(c) PROVE Handles' /\ CardOfCall'
  <2>1. Handles'
    BY <1>7, <1>a, <1>b DEF StoreHandle, CallStep
  <2>2. CardOfCall'
    BY <1>7, <1>b DEF StoreHandle, CallStep
  <2>. QED
    BY <2>1, <2>2
<1>8. ASSUME NEW c \in Calls, ClearHandle(c) PROVE Handles' /\ CardOfCall'
  <2>1. Handles'
    BY <1>8, <1>a, <1>b DEF ClearHandle, CallStep
  <2>2. CardOfCall'
    BY <1>8, <1>b DEF ClearHandle, CallStep
  <2>. QED
    BY <2>1, <2>2
<1>9. ASSUME NEW c \in Calls, Reporting(c) \/ Working(c) PROVE Handles' /\ CardOfCall'
  <2>1. /\ UNCHANGED <<card, at, aborted, sending>> /\ job[c] \in Running
        /\ \E to : Becomes(c, to)
    BY <1>9 DEF Reporting, Working
  <2>. QED
    BY <2>1, <1>b
<1>10. CASE OnEvent
  <2>1. Handles'
    BY <1>10, <1>b DEF OnEvent
  <2>2. ASSUME NEW c \in Calls, Busy(c) PROVE phase' \in InFlight
    <3>1. /\ 1 \in DOMAIN events /\ Head(events) = events[1] /\ events[1] \in Calls \X Phases
          /\ phase \in InFlight
      BY <1>10, <1>b, <2>2, Taken DEF OnEvent
    <3>2. Head(events)[2] \in Ends => Head(events)[1] # sub
      BY <1>a, <1>b, <2>2, <3>1 DEF EndsOnce
    <3>. QED
      BY <1>10, <3>1, <3>2 DEF OnEvent, Phases
  <2>3. CardOfCall'
    BY <1>10, <1>b, <2>2 DEF OnEvent
  <2>. QED
    BY <2>1, <2>3
<1>11. CASE Dismiss
  BY <1>11, <1>b DEF Dismiss, Ends, InFlight
<1>12. CASE NewEngine
  <2>1. Handles'
    BY <1>12, <1>b DEF NewEngine
  <2>2. \A b \in Calls : ~Busy(b)'
    BY <1>12 DEF NewEngine
  <2>. QED
    BY <2>1, <2>2
<1>13. CASE UNCHANGED vars
  BY <1>13, <1>b DEF vars
<1>. QED
  BY <1>1, <1>2, <1>3, <1>4, <1>5, <1>6, <1>7, <1>8, <1>9, <1>10, <1>11, <1>12, <1>13,
     CallSteps, JobSteps DEF Next

-----------------------------------------------------------------------------
(* What the card has been, or will be, told *)

LEMMA EventsStep ==
  ASSUME SendInv, TypeOK', [Next]_vars
  PROVE  EndsOnce' /\ Owed'
<1>a. None \notin Calls /\ Ends \cap InFlight = {} /\ Ends \cup InFlight = Phases
  BY SendAssumption DEF Calls, None, Ends, InFlight, Phases
<1>b. EndsOnce /\ Owed /\ TaskOfCall /\ TypeOK
  BY DEF SendInv
<1>c. \A c \in Calls : ~renewed /\ at[c] \notin {"unused", "ended"} =>
        phase \in InFlight /\ sub = IF at[c] = "starting" THEN None ELSE c
  BY DEF SendInv, CardOfCall, Busy
<1>d. \A i \in DOMAIN events : events[i] \in Calls \X Phases
  BY <1>b DEF TypeOK
<1>. USE DEF TypeOK, Goto, Becomes, card
<1>1. ASSUME NEW c \in Calls, Send(c) \/ Listen(c) PROVE EndsOnce' /\ Owed'
  <2>1. /\ at[c] # "ended" /\ events' = events /\ renewed' = renewed
        /\ \E to \in {"starting", "called"} : Goto(c, to)
    BY <1>1 DEF Send, Listen
  <2>2. EndsOnce'
    BY <1>b, <1>d, <2>1 DEF EndsOnce
  <2>3. ~renewed => phase' \in InFlight
    BY <1>1, <1>c DEF Send, Listen, InFlight
  <2>. QED
    BY <1>b, <2>1, <2>2, <2>3 DEF Owed
<1>2. ASSUME UNCHANGED <<events, at, phase, sub, renewed>> PROVE EndsOnce' /\ Owed'
  BY <1>2, <1>b DEF EndsOnce, Owed
<1>3. ASSUME NEW c \in Calls, Cancel(c) \/ SendCancel(c) PROVE EndsOnce' /\ Owed'
  BY <1>2, <1>3 DEF Cancel, SendCancel
<1>4. ASSUME NEW c \in Calls, Ending(c) PROVE EndsOnce' /\ Owed'
  <2>1. PICK p \in Ends : Emit(c, p)
    BY <1>4 DEF Ending
  <2>2. /\ DOMAIN events' = DOMAIN events \cup {Len(events) + 1}
        /\ \A i \in DOMAIN events : events'[i] = events[i] /\ i < Len(events) + 1
        /\ events'[Len(events) + 1] = <<c, p>>
    BY <1>a, <1>b, <2>1, Emitted
  <2>3. at[c] \notin {"unused", "starting", "ended"} /\ at' = [at EXCEPT ![c] = "ended"]
    BY <1>4 DEF Ending
  <2>4. \A i \in DOMAIN events : events[i][1] = c => events[i][2] \notin Ends
    BY <1>b, <2>3 DEF EndsOnce
  <2>5. EndsOnce'
    BY <1>b, <1>d, <2>2, <2>3, <2>4 DEF EndsOnce
  <2>6. Owed'
    BY <1>4, <1>c, <2>2, <2>3 DEF Owed, Ending
  <2>. QED
    BY <2>5, <2>6
<1>5. ASSUME NEW c \in Calls, Check(c) \/ Spawn(c) \/ StoreHandle(c) \/ ClearHandle(c) \/ CancelSession(c)
      PROVE  EndsOnce' /\ Owed'
  <2>1. /\ at[c] \notin {"unused", "ended"} /\ UNCHANGED <<events, phase, sub, renewed>>
        /\ \E to \in {"checked", "spawned", "joining", "cleared", "cancelling"} : Goto(c, to)
    BY <1>5 DEF CallStep, Check, Spawn, StoreHandle, ClearHandle, CancelSession
  <2>2. EndsOnce'
    BY <1>b, <1>d, <2>1 DEF EndsOnce
  <2>3. Owed'
    BY <1>b, <1>c, <2>1 DEF Owed
  <2>. QED
    BY <2>2, <2>3
<1>6. ASSUME NEW c \in Calls, Reporting(c) PROVE EndsOnce' /\ Owed'
  <2>1. PICK p \in InFlight : Emit(c, p)
    BY <1>6 DEF Reporting
  <2>2. /\ DOMAIN events' = DOMAIN events \cup {Len(events) + 1}
        /\ \A i \in DOMAIN events : events'[i] = events[i] /\ i < Len(events) + 1
        /\ events'[Len(events) + 1] = <<c, p>>
    BY <1>a, <1>b, <2>1, Emitted
  <2>3. at[c] \in {"spawned", "joining"} /\ UNCHANGED <<at, phase, sub, renewed>>
    BY <1>6, <1>b DEF Reporting, TaskOfCall
  <2>4. \A i \in DOMAIN events : events[i][1] = c => events[i][2] \notin Ends
    BY <1>b, <2>3 DEF EndsOnce
  <2>5. EndsOnce'
    BY <1>a, <1>b, <1>d, <2>2, <2>3, <2>4 DEF EndsOnce
  <2>6. Owed'
    BY <1>c, <2>3 DEF Owed
  <2>. QED
    BY <2>5, <2>6
<1>7. ASSUME NEW c \in Calls, Working(c) PROVE EndsOnce' /\ Owed'
  BY <1>2, <1>7 DEF Working
<1>8. CASE OnEvent
  <2>1. /\ events # <<>> /\ events' = Tail(events) /\ UNCHANGED <<sub, at, renewed>>
        /\ phase' = IF Head(events)[1] = sub /\ phase # "none" /\ Head(events)[2] # "waitingApproval"
                    THEN Head(events)[2] ELSE phase
    BY <1>8 DEF OnEvent
  <2>2. /\ 1 \in DOMAIN events /\ Head(events) = events[1]
        /\ \A i \in DOMAIN events' : i + 1 \in DOMAIN events /\ events'[i] = events[i + 1] /\ 1 < i + 1
        /\ \A i \in DOMAIN events \ {1} : i - 1 \in DOMAIN events' /\ events'[i - 1] = events[i]
    BY <1>b, <2>1, Taken
  <2>3. DOMAIN events \subseteq Nat /\ DOMAIN events' \subseteq Nat
    BY <1>b
  <2>4. EndsOnce'
    BY <1>b, <2>1, <2>2, <2>3 DEF EndsOnce
  <2>5. ASSUME ~renewed, phase \notin InFlight PROVE Owed'
    BY <1>b, <2>1, <2>2, <2>5 DEF Owed
  <2>6. ASSUME ~renewed, phase \in InFlight, events[1][1] = sub, events[1][2] \in Ends PROVE Owed'
    <3>1. phase' \notin InFlight
      BY <1>a, <2>1, <2>2, <2>6 DEF Ends, InFlight
    <3>2. \A i \in DOMAIN events' : events'[i][1] # sub
      BY <1>b, <2>2, <2>3, <2>6 DEF EndsOnce
    <3>. QED
      BY <2>1, <3>1, <3>2 DEF Owed
  <2>7. ASSUME ~renewed, phase \in InFlight, ~(events[1][1] = sub /\ events[1][2] \in Ends) PROVE Owed'
    <3>1. phase' \in InFlight
      BY <1>a, <1>d, <2>1, <2>2, <2>7
    <3>2. CASE \E c \in Calls : at[c] \notin {"unused", "ended"}
      BY <2>1, <3>1, <3>2 DEF Owed
    <3>3. CASE \E i \in DOMAIN events : events[i][1] = sub /\ events[i][2] \in Ends
      <4>1. PICK i \in DOMAIN events : events[i][1] = sub /\ events[i][2] \in Ends
        BY <3>3
      <4>2. i # 1
        BY <2>7, <4>1
      <4>3. i - 1 \in DOMAIN events' /\ events'[i - 1] = events[i]
        BY <2>2, <4>2
      <4>. QED
        BY <2>1, <3>1, <4>1, <4>3 DEF Owed
    <3>. QED
      BY <1>b, <2>7, <3>2, <3>3 DEF Owed
  <2>. QED
    BY <2>1, <2>4, <2>5, <2>6, <2>7 DEF Owed
<1>9. CASE Dismiss
  BY <1>9, <1>a, <1>b DEF Dismiss, EndsOnce, Owed, InFlight
<1>10. CASE NewEngine
  <2>1. DOMAIN events' = {}
    BY <1>10 DEF NewEngine
  <2>. QED
    BY <1>10, <2>1 DEF NewEngine, EndsOnce, Owed
<1>11. CASE UNCHANGED vars
  BY <1>2, <1>11 DEF vars
<1>. QED
  BY <1>1, <1>3, <1>4, <1>5, <1>6, <1>7, <1>8, <1>9, <1>10, <1>11, CallSteps, JobSteps DEF Next

LEMMA SendInvariant == Spec => []SendInv
<1>1. SendInv /\ [Next]_vars => SendInv'
  <2> SUFFICES ASSUME SendInv, [Next]_vars PROVE SendInv'
    OBVIOUS
  <2>1. TypeOK'
    BY TypesStep DEF SendInv
  <2>. QED
    BY <2>1, HandlesStep, EventsStep DEF SendInv
<1>. QED
  BY <1>1, SendInit, PTL DEF Spec

-----------------------------------------------------------------------------
\* Card, calls and tasks keep every variable in its type.
THEOREM SendTypeCorrect == Spec => []TypeOK
<1>1. SendInv => TypeOK
  BY DEF SendInv, TypeOK
<1>. QED
  BY <1>1, SendInvariant, PTL

\* SENDING never holds the handle of a call that has passed its job.await, so no
\* later send is refused for a transfer that is over.
THEOREM HandleEndsAlways == Spec => []HandleEnds
<1>1. SendInv => HandleEnds
  BY DEF SendInv
<1>. QED
  BY <1>1, SendInvariant, PTL

\* One transfer at a time, however looks, spawns, stores and cancels interleave.
THEOREM OneJobAlways == Spec => []OneJob
<1>1. SendInv => OneJob
  <2> SUFFICES ASSUME SendInv, ~renewed \/ aborted = {},
                      NEW b \in Calls, NEW c \in Calls, Live(b), Live(c)
               PROVE  b = c
    BY DEF OneJob
  <2>1. at[b] \in {"spawned", "joining"} /\ at[c] \in {"spawned", "joining"}
    BY DEF SendInv, TaskOfCall, Live
  <2>2. CASE ~renewed
    BY <2>1, <2>2 DEF SendInv, CardOfCall, Busy
  <2>3. CASE aborted = {}
    <3>1. None \notin Calls
      BY SendAssumption DEF Calls, None
    <3>2. at[b] = "spawned" /\ at[c] = "spawned" => b = c
      BY DEF SendInv, CardOfCall, Busy, Early
    <3>. QED
      BY <2>1, <2>3, <3>1, <3>2 DEF SendInv, HandleKept
  <2>. QED
    BY <2>2, <2>3
<1>. QED
  BY <1>1, SendInvariant, PTL

\* While there is one engine, no transfer runs behind the user's back.
THEOREM CardShowsJobAlways == Spec => []CardShowsJob
<1>1. SendInv => CardShowsJob
  BY DEF SendInv, TaskOfCall, CardOfCall, Busy, CardShowsJob, Live
<1>. QED
  BY <1>1, SendInvariant, PTL

\* While there is one engine, a card in flight is owed exactly one end, and a card
\* that has ended none.
THEOREM OneEndAlways == Spec => []OneEnd
<1>1. SendInv => OneEnd
  <2> DEFINE ending == {i \in DOMAIN events : events[i][1] = sub /\ events[i][2] \in Ends}
             owing  == {c \in Calls : at[c] \notin {"unused", "ended"}}
  <2> SUFFICES ASSUME SendInv, ~renewed
               PROVE  Cardinality(ending) + Cardinality(owing) = IF phase \in InFlight THEN 1 ELSE 0
    BY DEF OneEnd
  <2>. HIDE DEF ending, owing
  <2>1. Cardinality({}) = 0 /\ \A x : Cardinality({x}) = 1
    BY FS_EmptySet, FS_Singleton
  <2>2. \A b, c \in owing : b = c
    BY DEF SendInv, CardOfCall, Busy, owing
  <2>3. \A i, j \in ending : i = j
    <3>1. DOMAIN events \subseteq Nat
      BY DEF SendInv, TypeOK
    <3>. QED
      BY <3>1 DEF SendInv, EndsOnce, ending
  <2>4. owing # {} => phase \in InFlight /\ ending = {}
    BY SendAssumption DEF SendInv, CardOfCall, Busy, EndsOnce, TypeOK, Calls, None, owing, ending
  <2>5. phase \in InFlight => owing # {} \/ ending # {}
    BY DEF SendInv, Owed, owing, ending
  <2>6. phase \notin InFlight => owing = {} /\ ending = {}
    BY <2>4 DEF SendInv, Owed, ending
  <2>7. CASE owing # {}
    <3>1. PICK c : owing = {c}
      BY <2>2, <2>7
    <3>2. Cardinality(owing) = 1 /\ Cardinality(ending) = 0
      BY <2>1, <2>4, <2>7, <3>1
    <3>. QED
      BY <2>4, <2>7, <3>2
  <2>8. CASE owing = {} /\ ending # {}
    <3>1. PICK i : ending = {i}
      BY <2>3, <2>8
    <3>2. Cardinality(ending) = 1 /\ Cardinality(owing) = 0
      BY <2>1, <2>8, <3>1
    <3>3. phase \in InFlight
      BY <2>6, <2>8
    <3>. QED
      BY <3>2, <3>3
  <2>9. CASE owing = {} /\ ending = {}
    BY <2>1, <2>5, <2>9
  <2>. QED
    BY <2>7, <2>8, <2>9
<1>. QED
  BY <1>1, SendInvariant, PTL
=============================================================================
