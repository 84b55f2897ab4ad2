---------------------------- MODULE TransferProofs ----------------------------
(***************************************************************************)
(* Proofs about Transfer, for any number of senders and files and under    *)
(* every fault it models.                                                  *)
(***************************************************************************)
EXTENDS Transfer, TLAPS, FiniteSetTheorems

\* What the receiver keeps whoever its clients are (as in ReceiverProofs).
SessionShape ==
  IF state = "Sending" THEN session \in Requests /\ prepare[session] = "200"
                       ELSE session = NoSession /\ received = {}

ReportedCounted ==
  \A f \in FileIds :
    session \in Requests /\ <<session, f>> \in reported => f \in received

NothingEmpty == \A p \in Requests : prepare[p] \in R!Dialogs => FilesOf[p] # {}

CountsShort ==
  session \in Requests => Cardinality(received) < Cardinality(FilesOf[session])

ReceiverInv ==
  /\ R!TypeOK
  /\ SessionShape
  /\ R!OnlyApprovedFiles
  /\ ReportedCounted
  /\ NothingEmpty
  /\ CountsShort

SenderTypes ==
  /\ job \in [Requests -> {"idle"} \cup Active \cup Final]
  /\ at \in [Requests -> FileIds \cup {NoFile}]
  /\ call \in [Requests -> Calls]
  /\ acked \in [Requests -> SUBSET FileIds]
  /\ cancels \subseteq Requests

\* A handler that stores a file serves the call its sender last made.
UploadIsCall == \A u \in uploads : call[u[1]] = "running" /\ at[u[1]] = u[2]

\* A 200 is not lost between the receiver's report and the sender's count.
AnswerIsReport ==
  \A p \in Requests :
    /\ {p} \X acked[p] \subseteq reported
    /\ call[p] = "200" => <<p, at[p]>> \in reported

DoneIsAcked == \A p \in Requests : job[p] = "done" => acked[p] = FilesOf[p]

\* The cancel of a sender that was not stopped, and that lost no connection, is sent
\* after the last answer: no upload of it runs, nor will any.
CancelIsLast ==
  \A p \in cancels \ (Aborters \cup Breakers) :
    /\ job[p] \notin {"idle", "preparing", "uploading"}
    /\ call[p] # "sent"
    /\ R!NoUploadOf(p)

TransferInv ==
  /\ ReceiverInv
  /\ SenderTypes
  /\ UploadIsCall
  /\ AnswerIsReport
  /\ DoneIsAcked
  /\ CancelIsLast

-----------------------------------------------------------------------------
(* The receiver of a transfer is a Receiver *)

LEMMA FilesFinite == \A s \in Requests : FilesOf[s] \subseteq FileIds /\ IsFiniteSet(FilesOf[s])
<1> TAKE s \in Requests
<1>1. FilesOf[s] \subseteq FileIds
  BY TransferAssumption
<1>. QED
  BY <1>1, TransferAssumption, FS_Subset

\* Every step of Receiver but a cancel: those that do not depend on Overtakers.
Handled ==
  \/ \E p \in Requests :
       \/ R!RejectEmpty(p) \/ R!RejectBusy(p) \/ R!Ask(p)
       \/ R!Rejected(p) \/ R!TimedOut(p) \/ R!Approved(p) \/ R!OpenSession(p)
       \/ R!PrepareDropped(p)
  \/ \E s \in Requests, f \in FileIds :
       R!UploadStart(s, f) \/ R!UploadDone(s, f) \/ R!UploadFailed(s, f) \/ R!UploadDropped(s, f)
  \/ \E x \in Peers : R!EditTrust(x)
  \/ R!Restart

\* What the receiver does in a step of a transfer.
LEMMA ReceiverActs ==
  ASSUME R!TypeOK, [Next]_vars
  PROVE  Handled \/ (\E p \in cancels \cap Requests : R!Cancel(p)) \/ UNCHANGED R!vars
<1> DEFINE Acts == Handled \/ (\E p \in cancels \cap Requests : R!Cancel(p)) \/ UNCHANGED R!vars
<1>. USE DEF receiverVars, R!vars
<1>1. ASSUME NEW p \in Requests, SenderStep(p) PROVE Acts
  BY <1>1 DEF SenderStep, SendPrepare, PrepareAnswered, UploadAccepted, UploadRefused, OpenFails,
     SendUpload, PeerGone, CallBroken, AbortUploading, AbortPreparing, Crash, FailUpload
<1>2. ASSUME NEW p \in Requests, PrepareArrives(p) PROVE Acts
  BY <1>2 DEF PrepareArrives, Handled
<1>3. ASSUME NEW p \in Requests, UserAnswers(p) \/ ApprovalTimesOut(p) PROVE Acts
  BY <1>3 DEF UserAnswers, ApprovalTimesOut, Handled
<1>4. ASSUME NEW p \in Requests, SessionOpens(p) \/ PrepareAbandoned(p) PROVE Acts
  BY <1>4 DEF SessionOpens, PrepareAbandoned, Handled
<1>5. ASSUME NEW p \in Requests, UploadArrives(p) PROVE Acts
  <2>1. CASE R!ValidUpload(p, at[p])
    <3>1. at[p] \in FileIds
      BY <2>1, FilesFinite DEF R!ValidUpload
    <3>2. R!UploadStart(p, at[p])
      BY <1>5, <2>1 DEF UploadArrives
    <3>. QED
      BY <3>1, <3>2 DEF Handled
  <2>2. CASE ~R!ValidUpload(p, at[p])
    BY <1>5, <2>2 DEF UploadArrives
  <2>. QED
    BY <2>1, <2>2
<1>6. ASSUME NEW p \in Requests, UploadStored(p) \/ UploadBreaks(p) \/ UploadAbandoned(p) PROVE Acts
  <2>1. /\ <<p, at[p]>> \in uploads
        /\ R!UploadDone(p, at[p]) \/ R!UploadFailed(p, at[p]) \/ R!UploadDropped(p, at[p])
    BY <1>6 DEF UploadStored, UploadBreaks, UploadAbandoned,
                R!UploadDone, R!UploadFailed, R!UploadDropped
  <2>2. at[p] \in FileIds
    BY <2>1 DEF R!TypeOK
  <2>. QED
    BY <2>1, <2>2 DEF Handled
<1>7. ASSUME NEW p \in Requests, CancelArrives(p) \/ CancelLost(p) PROVE Acts
  BY <1>7 DEF CancelArrives, CancelLost
<1>8. ASSUME NEW x \in Peers, TrustEdited(x) PROVE Acts
  BY <1>8 DEF TrustEdited, Handled
<1>9. ASSUME ReceiverRestarts PROVE Acts
  BY <1>9 DEF ReceiverRestarts, Handled
<1>10. CASE UNCHANGED vars
  BY <1>10 DEF vars
<1>. QED
  BY <1>1, <1>2, <1>3, <1>4, <1>5, <1>6, <1>7, <1>8, <1>9, <1>10 DEF Next, ReceiverStep

\* The instance counts as this module does.
LEMMA SameCount == ASSUME NEW S PROVE R!Cardinality(S) = Cardinality(S)
  BY DEF R!Cardinality, Cardinality

LEMMA CountsUp ==
  ASSUME NEW A, IsFiniteSet(A), NEW f, NEW B, IsFiniteSet(B),
         Cardinality(A) < Cardinality(B), Cardinality(A \cup {f}) # Cardinality(B)
  PROVE  Cardinality(A \cup {f}) < Cardinality(B)
<1>1. Cardinality(A) \in Nat /\ Cardinality(B) \in Nat
  BY FS_CardinalityType
<1>2. Cardinality(A \cup {f}) \in {Cardinality(A), Cardinality(A) + 1}
  BY FS_AddElement
<1>. QED
  BY <1>1, <1>2

LEMMA ReceiverInit == Init => ReceiverInv
  BY TransferAssumption DEF Init, R!Init, ReceiverInv, R!TypeOK, R!Dialogs, R!Statuses, SessionShape,
     R!OnlyApprovedFiles, ReportedCounted, NothingEmpty, CountsShort

LEMMA ReceiverKeeps ==
  ASSUME ReceiverInv, Handled \/ (\E p \in Requests : R!Cancel(p)) \/ UNCHANGED R!vars
  PROVE  ReceiverInv'
<1>. USE TransferAssumption
     DEF ReceiverInv, R!TypeOK, SessionShape, R!OnlyApprovedFiles, ReportedCounted,
         NothingEmpty, CountsShort,
         R!Dialogs, R!Statuses, R!BecomeIdle, R!BecomePending, R!BecomeSending, R!KeepState, R!Answer
<1>1. ASSUME NEW p \in Requests,
             R!RejectEmpty(p) \/ R!RejectBusy(p) \/ R!Approved(p) \/ R!PrepareDropped(p)
      PROVE  ReceiverInv'
  BY <1>1 DEF R!RejectEmpty, R!RejectBusy, R!Approved, R!PrepareDropped
<1>2. ASSUME NEW p \in Requests, R!Ask(p) \/ R!Rejected(p) \/ R!TimedOut(p) PROVE ReceiverInv'
  BY <1>2 DEF R!Ask, R!Rejected, R!TimedOut, R!Decline
<1>3. ASSUME NEW p \in Requests, R!OpenSession(p) PROVE ReceiverInv'
  <2>1. R!TypeOK'
    BY <1>3 DEF R!OpenSession
  <2>2. \A f \in FileIds : <<p, f>> \notin reported
    BY <1>3 DEF R!OpenSession
  <2>3. CountsShort'
    <3>1. Cardinality({}) = 0 /\ Cardinality(FilesOf[p]) \in Nat /\ Cardinality(FilesOf[p]) # 0
      BY <1>3, FilesFinite, FS_EmptySet, FS_CardinalityType DEF R!OpenSession
    <3>. QED
      BY <1>3, <3>1 DEF R!OpenSession
  <2>. QED
    BY <1>3, <2>1, <2>2, <2>3 DEF R!OpenSession
<1>4. ASSUME NEW p \in Requests, R!Cancel(p) PROVE ReceiverInv'
  BY <1>4 DEF R!Cancel
<1>5. ASSUME NEW s \in Requests, NEW f \in FileIds, R!UploadStart(s, f) PROVE ReceiverInv'
  BY <1>5 DEF R!UploadStart, R!ValidUpload
<1>6. ASSUME NEW s \in Requests, NEW f \in FileIds, R!UploadDone(s, f) PROVE ReceiverInv'
  <2>1. R!TypeOK'
    BY <1>6 DEF R!UploadDone, R!CountFile
  <2>2. SessionShape' /\ R!OnlyApprovedFiles' /\ NothingEmpty'
    BY <1>6 DEF R!UploadDone, R!CountFile
  <2>3. ReportedCounted'
    BY <1>6 DEF R!UploadDone, R!CountFile
  <2>4. CountsShort'
    <3> SUFFICES ASSUME session' \in Requests
                 PROVE  Cardinality(received') < Cardinality(FilesOf[session'])
      OBVIOUS
    <3>1. state = "Sending"
      BY <1>6, TransferAssumption DEF R!UploadDone
    <3>2. /\ session' = session /\ received' = received \cup {f}
          /\ Cardinality(received \cup {f}) # Cardinality(FilesOf[session])
      BY <1>6, <3>1, SameCount DEF R!UploadDone, R!CountFile
    <3>3. IsFiniteSet(received) /\ IsFiniteSet(FilesOf[session])
      BY <3>2, FilesFinite, FS_Subset
    <3>. QED
      BY <3>2, <3>3, CountsUp
  <2>. QED
    BY <2>1, <2>2, <2>3, <2>4
<1>7. ASSUME NEW s \in Requests, NEW f \in FileIds, R!UploadFailed(s, f) PROVE ReceiverInv'
  BY <1>7 DEF R!UploadFailed
<1>8. ASSUME NEW s \in Requests, NEW f \in FileIds, R!UploadDropped(s, f) PROVE ReceiverInv'
  BY <1>8 DEF R!UploadDropped
<1>9. ASSUME NEW x \in Peers, R!EditTrust(x) PROVE ReceiverInv'
  BY <1>9 DEF R!EditTrust
<1>10. ASSUME R!Restart PROVE ReceiverInv'
  BY <1>10 DEF R!Restart
<1>11. CASE UNCHANGED R!vars
  BY <1>11 DEF R!vars
<1>. QED
  BY <1>1, <1>2, <1>3, <1>4, <1>5, <1>6, <1>7, <1>8, <1>9, <1>10, <1>11 DEF Handled

-----------------------------------------------------------------------------
(* The senders *)

LEMMA SendersInit == Init => SenderTypes /\ UploadIsCall /\ AnswerIsReport /\ DoneIsAcked /\ CancelIsLast
  BY DEF Init, R!Init, SenderTypes, UploadIsCall, AnswerIsReport, DoneIsAcked, CancelIsLast,
         Active, Final, Calls

LEMMA SendersKeep ==
  ASSUME TransferInv, ReceiverInv', [Next]_vars
  PROVE  TransferInv'
<1> DEFINE Senders == SenderTypes /\ UploadIsCall /\ AnswerIsReport /\ DoneIsAcked /\ CancelIsLast
<1>0. SUFFICES Senders'
  BY DEF TransferInv
<1>. USE DEF TransferInv, SenderTypes, UploadIsCall, AnswerIsReport, DoneIsAcked, CancelIsLast,
             Active, Final, Calls, Become, Called, receiverVars, senderVars, R!NoUploadOf
<1>a. uploads \subseteq Requests \X FileIds /\ reported \subseteq Requests \X FileIds
  BY DEF ReceiverInv, R!TypeOK
(* the sender's task *)
<1>1. ASSUME NEW p \in Requests, NEW phase \in {"preparing", "uploading", "failed", "canceled", "crashed"},
             phase \in {"preparing", "uploading"} => job[p] \in {"idle", "preparing"},
             Become(p, phase), UNCHANGED <<receiverVars, at, call, acked, cancels>>
      PROVE  Senders'
  BY <1>1
<1>2. ASSUME NEW p \in Requests, NEW f \in FileIds, SendUpload(p, f) PROVE Senders'
  BY <1>2 DEF SendUpload
<1>3. ASSUME NEW p \in Requests, UploadAccepted(p) PROVE Senders'
  <2>1. <<p, at[p]>> \in reported /\ at[p] \in FileIds
    BY <1>3 DEF UploadAccepted, ReceiverInv, R!TypeOK
  <2>2. acked' = [acked EXCEPT ![p] = @ \cup {at[p]}] /\ reported' = reported /\ uploads' = uploads
    BY <1>3 DEF UploadAccepted
  <2>3. SenderTypes'
    BY <1>3, <2>1 DEF UploadAccepted
  <2>4. AnswerIsReport'
    BY <1>3, <2>1, <2>2 DEF UploadAccepted
  <2>5. UploadIsCall'
    BY <1>a, <1>3, <2>2 DEF UploadAccepted
  <2>6. DoneIsAcked' /\ CancelIsLast'
    BY <1>3, <2>2 DEF UploadAccepted
  <2>. QED
    BY <2>3, <2>4, <2>5, <2>6
<1>4. ASSUME NEW p \in Requests, NEW phase \in {"failing", "canceling"},
             job[p] \in {"uploading", "failing"},
             p \in Aborters \cup Breakers \/ (call[p] # "sent" /\ R!NoUploadOf(p)),
             Become(p, phase), cancels' = cancels \cup {p}, UNCHANGED <<receiverVars, at, call, acked>>
      PROVE  Senders'
  BY <1>4
<1>5. ASSUME NEW p \in Requests, SenderStep(p) PROVE Senders'
  <2>1. CASE SendPrepare(p) \/ PrepareAnswered(p) \/ AbortPreparing(p) \/ Crash(p)
    BY <1>1, <2>1 DEF SendPrepare, PrepareAnswered, AbortPreparing, Crash
  <2>2. CASE UploadRefused(p) \/ OpenFails(p) \/ AbortUploading(p)
    BY <1>4, <2>2 DEF UploadRefused, OpenFails, AbortUploading, FailUpload
  <2>3. CASE PeerGone(p) \/ CallBroken(p)
    BY <1>1, <1>4, <2>3 DEF PeerGone, CallBroken, FailUpload
  <2>. QED
    BY <1>2, <1>3, <1>5, <2>1, <2>2, <2>3 DEF SenderStep
(* the receiver's handlers *)
<1>6. ASSUME UNCHANGED <<senderVars, uploads, reported>> PROVE Senders'
  BY <1>6
<1>7. ASSUME NEW p \in Requests, UploadArrives(p) PROVE Senders'
  <2>1. /\ call[p] = "sent" /\ reported' = reported /\ UNCHANGED <<job, at, acked, cancels>>
        /\ \/ uploads' = uploads \cup {<<p, at[p]>>} /\ Called(p, "running")
           \/ uploads' = uploads /\ Called(p, "404")
    BY <1>7 DEF UploadArrives, R!UploadStart
  <2>2. SenderTypes' /\ AnswerIsReport' /\ DoneIsAcked'
    BY <2>1
  <2>3. UploadIsCall'
    BY <1>a, <2>1
  <2>4. CancelIsLast'
    BY <1>a, <2>1
  <2>. QED
    BY <2>2, <2>3, <2>4
<1>8. ASSUME NEW p \in Requests, UploadStored(p) PROVE Senders'
  <2>1. /\ <<p, at[p]>> \in uploads /\ Called(p, "200") /\ UNCHANGED <<job, at, acked, cancels>>
        /\ uploads' = uploads \ {<<p, at[p]>>} /\ reported' = reported \cup {<<p, at[p]>>}
    BY <1>8 DEF UploadStored, R!UploadDone
  <2>2. SenderTypes' /\ AnswerIsReport' /\ DoneIsAcked'
    BY <2>1
  <2>3. UploadIsCall'
    BY <1>a, <2>1
  <2>4. CancelIsLast'
    BY <1>a, <2>1
  <2>. QED
    BY <2>2, <2>3, <2>4
<1>9. ASSUME NEW p \in Requests, UploadBreaks(p) PROVE Senders'
  <2>1. /\ <<p, at[p]>> \in uploads /\ Called(p, "500") /\ UNCHANGED <<job, at, acked, cancels>>
        /\ uploads' = uploads \ {<<p, at[p]>>} /\ reported' = reported
    BY <1>9 DEF UploadBreaks, R!UploadFailed
  <2>2. SenderTypes' /\ AnswerIsReport' /\ DoneIsAcked'
    BY <2>1
  <2>3. UploadIsCall'
    BY <1>a, <2>1
  <2>4. CancelIsLast'
    BY <1>a, <2>1
  <2>. QED
    BY <2>2, <2>3, <2>4
<1>10. ASSUME uploads' \subseteq uploads, reported' = reported, UNCHANGED senderVars PROVE Senders'
  BY <1>10
<1>11. ASSUME NEW p \in Requests, CancelArrives(p) \/ CancelLost(p) PROVE Senders'
  <2>1. UNCHANGED <<uploads, reported>> /\ AfterCancel(p)
    BY <1>11 DEF CancelArrives, CancelLost, R!Cancel
  <2>. QED
    BY <2>1 DEF AfterCancel
<1>12. ASSUME NEW p \in Requests, ReceiverStep(p) PROVE Senders'
  <2>1. CASE PrepareArrives(p) \/ UserAnswers(p) \/ ApprovalTimesOut(p) \/ SessionOpens(p)
             \/ PrepareAbandoned(p)
    BY <1>6, <2>1 DEF PrepareArrives, UserAnswers, ApprovalTimesOut, SessionOpens, PrepareAbandoned,
       R!RejectEmpty, R!RejectBusy, R!Ask, R!Rejected, R!TimedOut, R!Decline, R!Approved,
       R!OpenSession, R!PrepareDropped
  <2>2. CASE UploadAbandoned(p)
    BY <1>10, <2>2 DEF UploadAbandoned, R!UploadDropped
  <2>. QED
    BY <1>7, <1>8, <1>9, <1>11, <1>12, <2>1, <2>2 DEF ReceiverStep
<1>13. ASSUME NEW x \in Peers, TrustEdited(x) PROVE Senders'
  BY <1>6, <1>13 DEF TrustEdited, R!EditTrust
<1>14. ASSUME ReceiverRestarts PROVE Senders'
  BY <1>10, <1>14 DEF ReceiverRestarts, R!Restart
<1>15. CASE UNCHANGED vars
  BY <1>6, <1>15 DEF vars
<1>. QED
  BY <1>5, <1>12, <1>13, <1>14, <1>15 DEF Next

LEMMA TransferInvariant == Spec => []TransferInv
<1>1. Init => TransferInv
  BY ReceiverInit, SendersInit DEF TransferInv
<1>2. TransferInv /\ [Next]_vars => TransferInv'
  <2> SUFFICES ASSUME TransferInv, [Next]_vars PROVE TransferInv'
    OBVIOUS
  <2>1. ReceiverInv'
    BY ReceiverActs, ReceiverKeeps DEF TransferInv, ReceiverInv
  <2>. QED
    BY <2>1, SendersKeep
<1>. QED
  BY <1>1, <1>2, PTL DEF Spec

\* Both sides keep every variable in its type.
THEOREM TransferTypeCorrect == Spec => []TypeOK
<1>1. TransferInv => TypeOK
  BY DEF TransferInv, ReceiverInv, SenderTypes, TypeOK
<1>. QED
  BY <1>1, TransferInvariant, PTL

\* Whatever is stopped, breaks, crashes or restarts: a sender that shows Done has all
\* its files stored as its own, and the receiver is no longer in its session.
THEOREM DoneMeansSavedAlways == Spec => []DoneMeansSaved
<1>1. TransferInv => DoneMeansSaved
  <2> SUFFICES ASSUME TransferInv, NEW p \in Requests, job[p] = "done"
               PROVE  {p} \X FilesOf[p] \subseteq reported /\ session # p
    BY DEF DoneMeansSaved
  <2>1. {p} \X FilesOf[p] \subseteq reported
    BY DEF TransferInv, DoneIsAcked, AnswerIsReport
  <2>2. ASSUME session = p PROVE FALSE
    <3>1. FilesOf[p] \subseteq FileIds /\ IsFiniteSet(FileIds)
      BY FilesFinite, TransferAssumption
    <3>2. FilesOf[p] \subseteq received
      BY <2>1, <2>2, <3>1 DEF TransferInv, ReceiverInv, ReportedCounted
    <3>3. IsFiniteSet(received)
      BY <3>1, FS_Subset DEF TransferInv, ReceiverInv, R!TypeOK
    <3>4. /\ Cardinality(FilesOf[p]) <= Cardinality(received)
          /\ Cardinality(FilesOf[p]) \in Nat /\ Cardinality(received) \in Nat
      BY <3>1, <3>2, <3>3, FS_Subset, FS_CardinalityType
    <3>. QED
      BY <2>2, <3>4 DEF TransferInv, ReceiverInv, CountsShort
  <2>. QED
    BY <2>1, <2>2
<1>. QED
  BY <1>1, TransferInvariant, PTL

-----------------------------------------------------------------------------
(* The receiver of a transfer is a Receiver with few Overtakers *)

LEMMA ServedInit == Init => Served!Init
BY DEF Init, R!Init, Served!Init

LEMMA SameCountServed == ASSUME NEW S PROVE R!Cardinality(S) = Served!Cardinality(S)
  BY DEF R!Cardinality, Served!Cardinality

\* A handler does the same whoever overtakes.
LEMMA ServedHandles == Handled => Served!Next
<1> SUFFICES ASSUME Handled PROVE Served!Next
  OBVIOUS
<1>. USE DEF R!Answer, Served!Answer, R!KeepState, Served!KeepState, R!BecomeIdle, Served!BecomeIdle
<1>1. ASSUME NEW p \in Requests,
             \/ R!RejectEmpty(p) \/ R!RejectBusy(p) \/ R!Ask(p)
             \/ R!Rejected(p) \/ R!TimedOut(p) \/ R!Approved(p) \/ R!OpenSession(p)
             \/ R!PrepareDropped(p)
      PROVE  Served!Next
  <2>1. \/ Served!RejectEmpty(p) \/ Served!RejectBusy(p) \/ Served!Ask(p)
        \/ Served!Rejected(p) \/ Served!TimedOut(p) \/ Served!Approved(p) \/ Served!OpenSession(p)
        \/ Served!PrepareDropped(p)
    BY <1>1 DEF R!RejectEmpty, R!RejectBusy, R!Ask, R!Rejected, R!TimedOut, R!Decline, R!Approved,
       R!OpenSession, R!PrepareDropped, R!BecomePending, R!BecomeSending,
       Served!RejectEmpty, Served!RejectBusy, Served!Ask, Served!Rejected, Served!TimedOut,
       Served!Decline, Served!Approved, Served!OpenSession, Served!PrepareDropped,
       Served!BecomePending, Served!BecomeSending
  <2>. QED
    BY <2>1 DEF Served!Next
<1>2. ASSUME NEW s \in Requests, NEW f \in FileIds, R!UploadStart(s, f) PROVE Served!Next
  <2>1. Served!UploadStart(s, f)
    BY <1>2 DEF R!UploadStart, R!ValidUpload, R!NoUploadOf,
       Served!UploadStart, Served!ValidUpload, Served!NoUploadOf
  <2>. QED
    BY <2>1 DEF Served!Next
<1>3. ASSUME NEW s \in Requests, NEW f \in FileIds, R!UploadDone(s, f) PROVE Served!Next
  <2>1. R!CountFile(f) => Served!CountFile(f)
    BY SameCountServed DEF R!CountFile, Served!CountFile
  <2>2. Served!UploadDone(s, f)
    BY <1>3, <2>1 DEF R!UploadDone, Served!UploadDone
  <2>. QED
    BY <2>2 DEF Served!Next
<1>4. ASSUME NEW s \in Requests, NEW f \in FileIds, R!UploadFailed(s, f) \/ R!UploadDropped(s, f)
      PROVE  Served!Next
  <2>1. Served!UploadFailed(s, f) \/ Served!UploadDropped(s, f)
    BY <1>4 DEF R!UploadFailed, R!UploadDropped, Served!UploadFailed, Served!UploadDropped
  <2>. QED
    BY <2>1 DEF Served!Next
<1>5. ASSUME NEW x \in Peers, R!EditTrust(x) PROVE Served!Next
  <2>1. Served!EditTrust(x)
    BY <1>5 DEF R!EditTrust, Served!EditTrust
  <2>. QED
    BY <2>1 DEF Served!Next
<1>6. ASSUME R!Restart PROVE Served!Next
  <2>1. Served!Restart
    BY <1>6 DEF R!Restart, Served!Restart, R!Dialogs, Served!Dialogs
  <2>. QED
    BY <2>1 DEF Served!Next
<1>. QED
  BY <1>1, <1>2, <1>3, <1>4, <1>5, <1>6 DEF Handled

\* A cancel that ends a session comes from an Overtaker or after the last answer.
LEMMA ServedCancels ==
  ASSUME TransferInv, NEW p \in cancels \cap Requests, R!Cancel(p)
  PROVE  Served!Cancel(p)
<1>1. p \in Aborters \cup Breakers \/ R!NoUploadOf(p)
  BY DEF TransferInv, CancelIsLast
<1>. QED
  BY <1>1 DEF R!Cancel, Served!Cancel, R!NoUploadOf, Served!NoUploadOf,
     R!BecomeIdle, Served!BecomeIdle

\* Of the clients in this repository, only those whose user stops them, or whose
\* connection breaks, in an upload let a cancel overtake it: against all others, and
\* under any crash, the receiver behaves as one with orderly clients.
THEOREM TransferImplementsReceiver == Spec => ImplementsReceiver
<1>1. TransferInv /\ [Next]_vars => [Served!Next]_(Served!vars)
  <2> SUFFICES ASSUME TransferInv, [Next]_vars PROVE [Served!Next]_(Served!vars)
    OBVIOUS
  <2>1. Handled \/ (\E p \in cancels \cap Requests : R!Cancel(p)) \/ UNCHANGED R!vars
    BY ReceiverActs DEF TransferInv, ReceiverInv
  <2>2. CASE Handled
    BY <2>2, ServedHandles
  <2>3. ASSUME NEW p \in cancels \cap Requests, R!Cancel(p) PROVE Served!Next
    BY <2>3, ServedCancels DEF Served!Next
  <2>4. CASE UNCHANGED R!vars
    BY <2>4 DEF R!vars, Served!vars
  <2>. QED
    BY <2>1, <2>2, <2>3, <2>4
<1>. QED
  BY <1>1, ServedInit, TransferInvariant, PTL DEF Spec, ImplementsReceiver, Served!Spec
=============================================================================
