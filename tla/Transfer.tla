------------------------------ MODULE Transfer ------------------------------
(***************************************************************************)
(* Senders and one receiver: every run of send_files                       *)
(* (app/rust/src/api/easy_send.rs, core/transfer/send.rs) against the      *)
(* Receiver of core/transfer/recv.rs, over connections that may break.     *)
(*                                                                         *)
(* Each request p is one run of send_files: prepare, then one upload call  *)
(* after the other, then exactly one of done, failed, canceled.  A request *)
(* stands for its own sender, so any number of senders overlap; that one   *)
(* device runs one transfer at a time only removes interleavings.          *)
(*                                                                         *)
(* A request on the wire still arrives after its client has given up; a    *)
(* cancel travels on a connection of its own and may arrive first.         *)
(***************************************************************************)
EXTENDS Naturals, FiniteSets

CONSTANTS
  Requests, FileIds, FilesOf, Peers, SenderOf, NoSession,
  NoFile,
  Aborters,       \* requests whose user may stop the transfer while it uploads
  EarlyAborters,  \* ... while it still waits for the approval
  Breakers,       \* requests whose calls may fail although the receiver lives
  Crashers,       \* requests whose sender process may die
  Restarts        \* whether the receiver's process may die and start again

ASSUME TransferAssumption ==
  /\ FilesOf \in [Requests -> SUBSET FileIds]
  /\ SenderOf \in [Requests -> Peers]
  /\ IsFiniteSet(FileIds)
  /\ NoSession \notin Requests
  /\ NoFile \notin FileIds
  /\ Aborters \cup EarlyAborters \cup Breakers \cup Crashers \subseteq Requests
  /\ Restarts \in BOOLEAN

VARIABLES
  state, session, received, trusted, prepare, uploads, reported,
  job,      \* what the task of send_files is doing, or how it ended
  at,       \* the file of the upload call being made, or NoFile
  call,     \* where that upload call is, or the status it got
  acked,    \* files whose upload call was answered 200
  cancels   \* cancel requests on their way

R == INSTANCE Receiver WITH Overtakers <- Requests, Vanishers <- Requests

receiverVars == <<state, session, received, trusted, prepare, uploads, reported>>
senderVars == <<job, at, call, acked, cancels>>
vars == <<receiverVars, senderVars>>

Final  == {"done", "failed", "canceled", "crashed"}
Active == {"preparing", "uploading", "failing", "canceling"}
Calls  == {"none", "sent", "running", "200", "404", "500"}

TypeOK ==
  /\ R!TypeOK
  /\ job \in [Requests -> {"idle"} \cup Active \cup Final]
  /\ at \in [Requests -> FileIds \cup {NoFile}]
  /\ call \in [Requests -> Calls]
  /\ acked \in [Requests -> SUBSET FileIds]
  /\ cancels \subseteq Requests

Init ==
  /\ R!Init
  /\ job = [p \in Requests |-> "idle"]
  /\ at = [p \in Requests |-> NoFile]
  /\ call = [p \in Requests |-> "none"]
  /\ acked = [p \in Requests |-> {}]
  /\ cancels = {}

Become(p, phase) == job' = [job EXCEPT ![p] = phase]
Called(p, where) == call' = [call EXCEPT ![p] = where]

-----------------------------------------------------------------------------
(* The sender's task *)

SendPrepare(p) ==
  /\ job[p] = "idle"
  /\ Become(p, "preparing")
  /\ UNCHANGED <<receiverVars, at, call, acked, cancels>>

\* Mutant of PrepareAnswered: a busy receiver's 409 is not treated as an end.
PrepareAnsweredNotBusy(p) ==
  /\ job[p] = "preparing"
  /\ prepare[p] \in R!Statuses \ {"409"}
  /\ Become(p, IF prepare[p] = "200" THEN "uploading" ELSE "failed")
  /\ UNCHANGED <<receiverVars, at, call, acked, cancels>>

\* 200 brings the session id, which fills the slot a cancellation reads; any
\* other status ends the transfer.
PrepareAnswered(p) ==
  /\ job[p] = "preparing"
  /\ prepare[p] \in R!Statuses
  /\ Become(p, IF prepare[p] = "200" THEN "uploading" ELSE "failed")
  /\ UNCHANGED <<receiverVars, at, call, acked, cancels>>

SendUpload(p, f) ==
  /\ job[p] = "uploading"
  /\ call[p] = "none"
  /\ f \in FilesOf[p] \ acked[p]
  /\ at' = [at EXCEPT ![p] = f]
  /\ Called(p, "sent")
  /\ UNCHANGED <<receiverVars, job, acked, cancels>>

\* Mutant of UploadAccepted: any answer is taken for success.
UploadAcceptedAnyway(p) ==
  /\ job[p] = "uploading"
  /\ call[p] \in {"200", "404", "500"}
  /\ acked' = [acked EXCEPT ![p] = @ \cup {at[p]}]
  /\ Become(p, IF acked'[p] = FilesOf[p] THEN "done" ELSE "uploading")
  /\ Called(p, "none")
  /\ at' = [at EXCEPT ![p] = NoFile]
  /\ UNCHANGED <<receiverVars, cancels>>

UploadAccepted(p) ==
  /\ job[p] = "uploading"
  /\ call[p] = "200"
  /\ acked' = [acked EXCEPT ![p] = @ \cup {at[p]}]
  /\ Become(p, IF acked'[p] = FilesOf[p] THEN "done" ELSE "uploading")
  /\ Called(p, "none")
  /\ at' = [at EXCEPT ![p] = NoFile]
  /\ UNCHANGED <<receiverVars, cancels>>

\* Mutant of FailUpload: the receiver is not told.
FailUploadSilently(p) ==
  /\ Become(p, "failed")
  /\ UNCHANGED <<receiverVars, at, call, acked, cancels>>

\* Any failure of an upload sends a cancel before the error is returned.
FailUpload(p) ==
  /\ Become(p, "failing")
  /\ cancels' = cancels \cup {p}
  /\ UNCHANGED <<receiverVars, at, call, acked>>

UploadRefused(p) ==
  /\ job[p] = "uploading"
  /\ call[p] \in {"404", "500"}
  /\ FailUpload(p)

\* Mutant of OpenFails: the failure cancels while a call is being served.
OpenFailsAnyTime(p) ==
  /\ job[p] = "uploading"
  /\ FailUpload(p)

\* The file can no longer be opened: no call is made.
OpenFails(p) ==
  /\ job[p] = "uploading"
  /\ call[p] = "none"
  /\ FailUpload(p)

\* The receiver's process died with the call in it.
PeerGone(p) ==
  \/ /\ job[p] = "preparing"
     /\ prepare[p] = "lost"
     /\ Become(p, "failed")
     /\ UNCHANGED <<receiverVars, at, call, acked, cancels>>
  \/ /\ job[p] = "uploading"
     /\ call[p] = "running"
     /\ <<p, at[p]>> \notin uploads
     /\ FailUpload(p)

\* The connection of a call breaks on the sender's side.
CallBroken(p) ==
  /\ p \in Breakers
  /\ \/ /\ job[p] = "preparing"
        /\ Become(p, "failed")
        /\ UNCHANGED <<receiverVars, at, call, acked, cancels>>
     \/ /\ job[p] = "uploading"
        /\ call[p] # "none"
        /\ FailUpload(p)

\* send_cancel aborts the task at its next await.  The session is cancelled if
\* its id had reached the slot.
AbortUploading(p) ==
  /\ p \in Aborters
  /\ job[p] \in {"uploading", "failing"}
  /\ Become(p, "canceling")
  /\ cancels' = cancels \cup {p}
  /\ UNCHANGED <<receiverVars, at, call, acked>>

AbortPreparing(p) ==
  /\ p \in EarlyAborters
  /\ job[p] = "preparing"
  /\ Become(p, "canceled")
  /\ UNCHANGED <<receiverVars, at, call, acked, cancels>>

Crash(p) ==
  /\ p \in Crashers
  /\ job[p] \in Active
  /\ Become(p, "crashed")
  /\ UNCHANGED <<receiverVars, at, call, acked, cancels>>

-----------------------------------------------------------------------------
(* The receiver's handlers, driven by the calls *)

PrepareArrives(p) ==
  /\ job[p] # "idle"
  /\ R!RejectEmpty(p) \/ R!RejectBusy(p) \/ R!Ask(p)
  /\ UNCHANGED senderVars

UserAnswers(p) ==
  /\ R!Rejected(p) \/ R!Approved(p)
  /\ UNCHANGED senderVars

ApprovalTimesOut(p) == R!TimedOut(p) /\ UNCHANGED senderVars
SessionOpens(p) == R!OpenSession(p) /\ UNCHANGED senderVars

\* Only a client that is gone lets hyper drop a handler.
PrepareAbandoned(p) ==
  /\ job[p] # "preparing"
  /\ R!PrepareDropped(p)
  /\ UNCHANGED senderVars

\* Mutant of UploadArrives: a file that is not expected is answered 409.
UploadArrivesBusy(p) ==
  /\ call[p] = "sent"
  /\ IF R!ValidUpload(p, at[p])
     THEN R!UploadStart(p, at[p]) /\ Called(p, "running")
     ELSE Called(p, "409") /\ UNCHANGED receiverVars
  /\ UNCHANGED <<job, at, acked, cancels>>

UploadArrives(p) ==
  /\ call[p] = "sent"
  /\ IF R!ValidUpload(p, at[p])
     THEN R!UploadStart(p, at[p]) /\ Called(p, "running")
     ELSE Called(p, "404") /\ UNCHANGED receiverVars
  /\ UNCHANGED <<job, at, acked, cancels>>

UploadStored(p) ==
  /\ R!UploadDone(p, at[p])
  /\ Called(p, "200")
  /\ UNCHANGED <<job, at, acked, cancels>>

UploadBreaks(p) ==
  /\ R!UploadFailed(p, at[p])
  /\ Called(p, "500")
  /\ UNCHANGED <<job, at, acked, cancels>>

UploadAbandoned(p) ==
  /\ job[p] # "uploading"
  /\ R!UploadDropped(p, at[p])
  /\ UNCHANGED senderVars

\* The task ends once its cancel request is answered, or has failed.
AfterCancel(p) ==
  /\ cancels' = cancels \ {p}
  /\ job' = [job EXCEPT ![p] = CASE @ = "failing"   -> "failed"
                                 [] @ = "canceling" -> "canceled"
                                 [] OTHER           -> @]
  /\ UNCHANGED <<at, call, acked>>

CancelArrives(p) ==
  /\ p \in cancels
  /\ IF session = p THEN R!Cancel(p) ELSE UNCHANGED receiverVars
  /\ AfterCancel(p)

CancelLost(p) ==
  /\ p \in cancels \cap Breakers
  /\ UNCHANGED receiverVars
  /\ AfterCancel(p)

TrustEdited(x) == R!EditTrust(x) /\ UNCHANGED senderVars

ReceiverRestarts ==
  /\ Restarts
  /\ R!Restart
  /\ UNCHANGED senderVars

-----------------------------------------------------------------------------
SenderStep(p) ==
  \/ SendPrepare(p) \/ PrepareAnswered(p)
  \/ UploadAccepted(p) \/ UploadRefused(p) \/ OpenFails(p)
  \/ \E f \in FileIds : SendUpload(p, f)
  \/ PeerGone(p) \/ CallBroken(p)
  \/ AbortUploading(p) \/ AbortPreparing(p) \/ Crash(p)

ReceiverStep(p) ==
  \/ PrepareArrives(p) \/ UserAnswers(p) \/ ApprovalTimesOut(p)
  \/ SessionOpens(p) \/ PrepareAbandoned(p)
  \/ UploadArrives(p) \/ UploadStored(p) \/ UploadBreaks(p) \/ UploadAbandoned(p)
  \/ CancelArrives(p) \/ CancelLost(p)

Next ==
  \/ \E p \in Requests : SenderStep(p) \/ ReceiverStep(p)
  \/ \E x \in Peers : TrustEdited(x)
  \/ ReceiverRestarts

Spec == Init /\ [][Next]_vars

(***************************************************************************)
(* Calls are carried and answered, handlers finish, the approval times out *)
(* after sixty seconds, and the sender's task is scheduled.  No user, no   *)
(* fault and no crash is fair.                                             *)
(***************************************************************************)
FairTo(p) ==
  /\ WF_vars(PrepareArrives(p))
  /\ WF_vars(ApprovalTimesOut(p))
  /\ WF_vars(SessionOpens(p))
  /\ WF_vars(PrepareAnswered(p))
  /\ WF_vars((\E f \in FileIds : SendUpload(p, f)) \/ OpenFails(p))
  /\ WF_vars(UploadArrives(p))
  /\ WF_vars(UploadStored(p) \/ UploadBreaks(p) \/ UploadAbandoned(p))
  /\ WF_vars(UploadAccepted(p) \/ UploadRefused(p))
  /\ WF_vars(PeerGone(p))
  /\ WF_vars(CancelArrives(p))

FairSpec == Spec /\ \A p \in Requests : FairTo(p)

-----------------------------------------------------------------------------
(***************************************************************************)
(* Under every fault: stops, broken calls, crashes, restarts.              *)
(***************************************************************************)

\* A sender that shows Done has every file stored, exactly those of its own
\* session, and has left the receiver free of that session.
DoneMeansSaved ==
  \A p \in Requests : job[p] = "done" =>
    /\ {p} \X FilesOf[p] \subseteq reported
    /\ session # p

\* send_files closes every transfer it started: nothing waits for ever, whatever
\* the user and the network do.
TransferEnds ==
  \A p \in Requests : job[p] \in Active ~> job[p] \in Final

\* A session nobody will end: its sender died, or its call or its cancel was lost,
\* or it was stopped before it knew the session.  Or a dialog whose handler is gone.
Orphaned ==
  \/ /\ state = "Sending"
     /\ job[session] \in Final
     /\ job[session] = "crashed" \/ session \in Breakers \cup EarlyAborters
  \/ /\ state = "Pending"
     /\ \A p \in Requests : prepare[p] \notin R!Dialogs

\* Nothing but such an orphan keeps the receiver from serving the next peer, even
\* where sessions get in each other's way: every other dialog and session ends.
ReceiverFreed == state # "Idle" ~> state = "Idle" \/ Orphaned

(***************************************************************************)
(* The clients Receiver assumes.  A cancel can overtake the upload it is   *)
(* about only if the sender was stopped, or a call of it broke, while it   *)
(* uploaded; every other one cancels after the answer.                     *)
(***************************************************************************)
Served == INSTANCE Receiver WITH
  Overtakers <- Aborters \cup Breakers, Vanishers <- Requests

ImplementsReceiver == Served!Spec

(***************************************************************************)
(* What the code says of a stopped transfer (see the findings).            *)
(***************************************************************************)

\* "A stop also cleans up the receiver's session."
StopFreesReceiver == \A p \in Requests : job[p] = "canceled" ~> session # p
=============================================================================
