------------------------------- MODULE SendJob -------------------------------
(***************************************************************************)
(* One send at a time: the app's send card (lib/src/send_controller.dart), *)
(* send_files and send_cancel (app/rust/src/api/easy_send.rs).             *)
(*                                                                         *)
(* The card's phase keeps the user from starting a second send.  Behind    *)
(* it, send_files looks at SENDING, spawns the transfer as a task of its   *)
(* own, and only then stores the task's abort handle in SENDING: look,     *)
(* spawn and store are three steps, and send_cancel, which takes the       *)
(* handle, may come between any two.  Events reach the card through a      *)
(* queue.  What the task says to the peer is modelled in Transfer.         *)
(*                                                                         *)
(* SENDING and the task outlive the card: Android may destroy the activity *)
(* and its Flutter engine and start another in the same process.           *)
(***************************************************************************)
EXTENDS Naturals, Sequences, FiniteSets

CONSTANTS
  MaxSends,     \* bound: sends in a run
  MaxEvents     \* bound: progress events on their way to the card

ASSUME SendAssumption ==
  MaxSends \in Nat /\ MaxEvents \in Nat

None == 0
Calls == 1 .. MaxSends
InFlight == {"waitingApproval", "uploading"}
Ends == {"done", "failed", "canceled"}
Phases == InFlight \cup Ends
Running == {"started", "preparing", "uploading", "failing"}

VARIABLES
  phase,      \* of the send card; "none" without a card
  sub,        \* the send whose events the card listens to
  events,     \* what it has not received
  presses,    \* sends whose cancel button was pressed, send_cancel not yet run
  at,         \* where each call of send_files is
  job,        \* the task it has spawned
  session,    \* whether session_slot holds a session id
  aborted,    \* tasks whose abort was asked for
  sending,    \* SENDING
  renewed     \* whether there has been more than one engine

vars == <<phase, sub, events, presses, at, job, session, aborted, sending, renewed>>
card == <<phase, sub, presses, renewed>>

TypeOK ==
  /\ phase \in Phases \cup {"none"}
  /\ {sub, sending} \subseteq Calls \cup {None}
  /\ events \in Seq(Calls \X Phases)
  /\ presses \subseteq Calls
  /\ at \in [Calls -> {"unused", "starting", "called", "checked", "spawned",
                       "joining", "cleared", "cancelling", "ended"}]
  /\ job \in [Calls -> Running \cup {"none", "ok", "failed", "aborted"}]
  /\ session \in [Calls -> BOOLEAN]
  /\ aborted \subseteq Calls
  /\ renewed \in BOOLEAN

Init ==
  /\ phase = "none" /\ sub = None /\ events = <<>> /\ presses = {}
  /\ at = [c \in Calls |-> "unused"]
  /\ job = [c \in Calls |-> "none"]
  /\ session = [c \in Calls |-> FALSE]
  /\ aborted = {} /\ sending = None /\ renewed = FALSE

Goto(c, place) == at' = [at EXCEPT ![c] = place]
Becomes(c, state) == job' = [job EXCEPT ![c] = state]
Emit(c, p) == events' = Append(events, <<c, p>>)

-----------------------------------------------------------------------------
(* The card *)

\* Mutant of Send: a card in flight does not stop a second send.
SendAnyTime(c) ==
  /\ at[c] = "unused"
  /\ \A b \in Calls : b < c => at[b] # "unused"
  /\ phase' = "waitingApproval"
  /\ sub' = None
  /\ Goto(c, "starting")
  /\ UNCHANGED <<events, presses, job, session, aborted, sending, renewed>>

\* SendController.send: the card is in flight before anything is awaited, and the
\* subscription to the send before it is cancelled.
Send(c) ==
  /\ phase \notin InFlight
  /\ at[c] = "unused"
  /\ \A b \in Calls : b < c => at[b] # "unused"
  /\ phase' = "waitingApproval"
  /\ sub' = None
  /\ Goto(c, "starting")
  /\ UNCHANGED <<events, presses, job, session, aborted, sending, renewed>>

\* It calls send_files and listens.
Listen(c) ==
  /\ at[c] = "starting"
  /\ sub' = c
  /\ Goto(c, "called")
  /\ UNCHANGED <<phase, events, presses, job, session, aborted, sending, renewed>>

\* _onEvent; the first event only repeats what the card shows.
OnEvent ==
  /\ events # <<>>
  /\ events' = Tail(events)
  /\ LET c == Head(events)[1]
         p == Head(events)[2]
     IN  phase' = IF c = sub /\ phase # "none" /\ p # "waitingApproval" THEN p ELSE phase
  /\ UNCHANGED <<sub, presses, at, job, session, aborted, sending, renewed>>

\* The button of a card in flight; the newest send is the one it shows.
Cancel(c) ==
  /\ phase \in InFlight
  /\ at[c] # "unused"
  /\ \A b \in Calls : b > c => at[b] = "unused"
  /\ presses' = presses \cup {c}
  /\ UNCHANGED <<phase, sub, events, at, job, session, aborted, sending, renewed>>

\* Mutant of Dismiss: a card in flight can be put away as well.
DismissAnyTime ==
  /\ phase # "none"
  /\ phase' = "none"
  /\ UNCHANGED <<sub, events, presses, at, job, session, aborted, sending, renewed>>

Dismiss ==
  /\ phase \in Ends
  /\ phase' = "none"
  /\ UNCHANGED <<sub, events, presses, at, job, session, aborted, sending, renewed>>

\* A new engine knows nothing of a send.  send_files awaits nothing before it has
\* stored the handle, so no engine starts while a call is on its way there.
NewEngine ==
  /\ \A c \in Calls : at[c] \notin {"starting", "called", "checked", "spawned"}
  /\ phase' = "none" /\ sub' = None /\ events' = <<>> /\ presses' = {}
  /\ renewed' = TRUE
  /\ UNCHANGED <<at, job, session, aborted, sending>>

-----------------------------------------------------------------------------
(* send_files and send_cancel *)

SendCancel(c) ==
  /\ c \in presses
  /\ presses' = presses \ {c}
  /\ aborted' = IF sending = None THEN aborted ELSE aborted \cup {sending}
  /\ sending' = None
  /\ UNCHANGED <<phase, sub, events, at, job, session, renewed>>

\* A call goes on; the card hears of it only by events.
CallStep(c, from, to) == at[c] = from /\ Goto(c, to) /\ UNCHANGED <<card, session, aborted>>

\* A handle in SENDING: this call is refused.
Refuse(c) ==
  /\ CallStep(c, "called", "ended")
  /\ sending # None
  /\ Emit(c, "failed")
  /\ UNCHANGED <<job, sending>>

\* Mutant of Check: the handle is not looked at.
CheckNot(c) == CallStep(c, "called", "checked") /\ UNCHANGED <<events, job, sending>>

Check(c) ==
  /\ CallStep(c, "called", "checked")
  /\ sending = None
  /\ UNCHANGED <<events, job, sending>>

\* Mutant of FailEarly: the early return is missing.
FailEarlyOn(c) ==
  /\ CallStep(c, "checked", "checked")
  /\ Len(events) < MaxEvents
  /\ Emit(c, "failed")
  /\ UNCHANGED <<job, sending>>

\* The node is not running, or a file cannot be read.
FailEarly(c) ==
  /\ CallStep(c, "checked", "ended")
  /\ Emit(c, "failed")
  /\ UNCHANGED <<job, sending>>

Spawn(c) ==
  /\ CallStep(c, "checked", "spawned")
  /\ Becomes(c, "started")
  /\ UNCHANGED <<events, sending>>

StoreHandle(c) ==
  /\ CallStep(c, "spawned", "joining")
  /\ sending' = c
  /\ UNCHANGED <<events, job>>

\* Mutant of ClearHandle: the handle of a finished task stays.
ClearHandleNot(c) ==
  /\ CallStep(c, "joining", "cleared")
  /\ job[c] \notin Running
  /\ UNCHANGED <<events, job, sending>>

\* job.await has returned.
ClearHandle(c) ==
  /\ CallStep(c, "joining", "cleared")
  /\ job[c] \notin Running
  /\ sending' = None
  /\ UNCHANGED <<events, job>>

\* Mutant of CancelSession: the session is cancelled, the card not told.
CancelSessionOnly(c) ==
  /\ CallStep(c, "cleared", "ended")
  /\ job[c] = "aborted" /\ session[c]
  /\ UNCHANGED <<events, job, sending>>

\* An aborted transfer that had opened a session tells the peer first.
CancelSession(c) ==
  /\ CallStep(c, "cleared", "cancelling")
  /\ job[c] = "aborted" /\ session[c]
  /\ UNCHANGED <<events, job, sending>>

\* Mutant of Report: the result of the task is passed on as it is.
ReportResult(c) ==
  /\ CallStep(c, "cleared", "ended")
  /\ Emit(c, job[c])
  /\ UNCHANGED <<job, sending>>

Report(c) ==
  /\ \/ CallStep(c, "cancelling", "ended") /\ Emit(c, "canceled")
     \/ /\ CallStep(c, "cleared", "ended")
        /\ \/ job[c] = "ok" /\ Emit(c, "done")
           \/ job[c] = "failed" /\ Emit(c, "failed")
           \/ job[c] = "aborted" /\ ~session[c] /\ Emit(c, "canceled")
  /\ UNCHANGED <<job, sending>>

-----------------------------------------------------------------------------
(* The task; an abort strikes at an await, but not a task that returns *)

TaskStep(c, from, to) ==
  job[c] = from /\ Becomes(c, to) /\ UNCHANGED <<card, at, aborted, sending>>

Prepare(c) ==
  /\ TaskStep(c, "started", "preparing")
  /\ c \notin aborted
  /\ Emit(c, "waitingApproval")
  /\ UNCHANGED session

Prepared(c) ==
  /\ TaskStep(c, "preparing", "uploading")
  /\ c \notin aborted
  /\ session' = [session EXCEPT ![c] = TRUE]
  /\ Emit(c, "uploading")

\* The next file begins, or another megabyte has gone out.
Progress(c) ==
  /\ TaskStep(c, "uploading", "uploading")
  /\ c \notin aborted
  /\ Len(events) < MaxEvents
  /\ Emit(c, "uploading")
  /\ UNCHANGED session

\* An upload is refused or breaks off: the session is cancelled, then the task fails.
UploadFails(c) ==
  /\ TaskStep(c, "uploading", "failing")
  /\ c \notin aborted
  /\ UNCHANGED <<events, session>>

\* The peer refuses the transfer, answers the cancel, or has the last file.
Returns(c) ==
  /\ \/ TaskStep(c, "preparing", "failed")
     \/ TaskStep(c, "failing", "failed")
     \/ TaskStep(c, "uploading", "ok")
  /\ UNCHANGED <<events, session>>

Aborts(c) ==
  /\ c \in aborted
  /\ \E from \in Running : TaskStep(c, from, "aborted")
  /\ UNCHANGED <<events, session>>

-----------------------------------------------------------------------------
Job(c) ==
  Prepare(c) \/ Prepared(c) \/ Progress(c) \/ UploadFails(c) \/ Returns(c) \/ Aborts(c)

Call(c) ==
  \/ Refuse(c) \/ Check(c) \/ FailEarly(c) \/ Spawn(c) \/ StoreHandle(c)
  \/ ClearHandle(c) \/ CancelSession(c) \/ Report(c)

Next ==
  \/ \E c \in Calls : Send(c) \/ Listen(c) \/ Cancel(c) \/ SendCancel(c) \/ Call(c) \/ Job(c)
  \/ OnEvent \/ Dismiss \/ NewEngine

Spec == Init /\ [][Next]_vars

\* Threads run, events are delivered, and the peer answers or its connection breaks:
\* an upload is not in progress for ever.
Fairness ==
  /\ \A c \in Calls :
       /\ WF_vars(Listen(c)) /\ WF_vars(Call(c)) /\ WF_vars(SendCancel(c))
       /\ WF_vars(Prepare(c) \/ Prepared(c)) /\ WF_vars(Returns(c) \/ Aborts(c))
  /\ WF_vars(OnEvent)

FairSpec == Spec /\ Fairness

-----------------------------------------------------------------------------
Live(c) == job[c] \in Running /\ c \notin aborted

\* "One send at a time (R4)": no two transfers run that nobody has aborted, also past
\* a new engine, whose card knows of none.  (After a new engine and a cancel two may:
\* a call that was cancelled clears whatever handle it finds, that of a later call too.)
OneJob ==
  ~renewed \/ aborted = {} => \A b, c \in Calls : Live(b) /\ Live(c) => b = c

\* SENDING is "the abort handle of the job in progress": the handle never outlives
\* its call, so a refusal is never for ever.
HandleEnds == \A c \in Calls : sending = c => at[c] = "joining"

\* As long as there is one engine, a transfer that runs has its card, with a button
\* to cancel it.
CardShowsJob == ~renewed => \A c \in Calls : Live(c) => phase \in InFlight /\ sub = c

\* "Exactly one end event": a card in flight is owed one, by a call still under way
\* or by the queue, so it can neither stay locked nor end twice.
OneEnd ==
  LET ending == {i \in DOMAIN events : events[i][1] = sub /\ events[i][2] \in Ends}
      owing  == {c \in Calls : at[c] \notin {"unused", "ended"}}
  IN  ~renewed =>
        Cardinality(ending) + Cardinality(owing) = IF phase \in InFlight THEN 1 ELSE 0

\* The card comes to an end: the user can send again.
CardEnds == phase \in InFlight ~> phase \notin InFlight
=============================================================================
