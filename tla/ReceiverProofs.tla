--------------------------- MODULE ReceiverProofs ---------------------------
(***************************************************************************)
(* Proofs about Receiver, for any number of requests, files and peers.     *)
(***************************************************************************)
EXTENDS Receiver, TLAPS, FiniteSetTheorems

\* The three assignments to State, and the memory that belongs to each variant.
SessionShape ==
  IF state = "Sending" THEN session \in Requests /\ prepare[session] = "200"
                       ELSE session = NoSession /\ received = {}

\* A file of the open session that was stored is counted.
ReportedCounted ==
  \A f \in FileIds :
    session \in Requests /\ <<session, f>> \in reported => f \in received

\* Only requests with files open a dialog or a session.
NothingEmpty == \A p \in Requests : prepare[p] \in Dialogs => FilesOf[p] # {}

\* The open session has not counted as many files as it announced, also when some
\* it counted are another session's.
CountsShort ==
  session \in Requests => Cardinality(received) < Cardinality(FilesOf[session])

CoreInv ==
  /\ TypeOK
  /\ SessionShape
  /\ OnlyApprovedFiles
  /\ ReportedCounted
  /\ SavedOnce
  /\ NothingEmpty
  /\ CountsShort

-----------------------------------------------------------------------------
(* The count that handle_upload compares *)

\* It decides whether all files are there, if those counted are among them.
LEMMA CountDecides ==
  ASSUME NEW A, NEW B, A \subseteq B, IsFiniteSet(B)
  PROVE  Cardinality(A) = Cardinality(B) <=> A = B
BY FS_Subset

LEMMA FilesFinite == \A s \in Requests : FilesOf[s] \subseteq FileIds /\ IsFiniteSet(FilesOf[s])
<1> TAKE s \in Requests
<1>1. FilesOf[s] \subseteq FileIds
  BY RequestsAssumption
<1>. QED
  BY <1>1, RequestsAssumption, FS_Subset

\* Counted one by one, whatever the files are, the number cannot be passed over.
LEMMA CountsUp ==
  ASSUME NEW A, IsFiniteSet(A), NEW f, NEW B, IsFiniteSet(B),
         Cardinality(A) < Cardinality(B), Cardinality(A \cup {f}) # Cardinality(B)
  PROVE  Cardinality(A \cup {f}) < Cardinality(B)
<1>1. Cardinality(A) \in Nat /\ Cardinality(B) \in Nat
  BY FS_CardinalityType
<1>2. Cardinality(A \cup {f}) \in {Cardinality(A), Cardinality(A) + 1}
  BY FS_AddElement
<1>. QED
  BY <1>1, <1>2

-----------------------------------------------------------------------------
(* Type correctness *)

\* The handlers keep every variable in its type.
THEOREM TypeCorrect == Spec => []TypeOK
<1>. USE RequestsAssumption DEF TypeOK, Dialogs, Statuses
<1>1. Init => TypeOK
  BY DEF Init
<1>2. TypeOK /\ [Next]_vars => TypeOK'
  <2> SUFFICES ASSUME TypeOK, [Next]_vars PROVE TypeOK'
    OBVIOUS
  <2>. USE DEF BecomeIdle, BecomePending, BecomeSending, KeepState, Answer
  <2>1. ASSUME NEW p \in Requests, RejectEmpty(p) PROVE TypeOK'
    BY <2>1 DEF RejectEmpty
  <2>2. ASSUME NEW p \in Requests, RejectBusy(p) PROVE TypeOK'
    BY <2>2 DEF RejectBusy
  <2>3. ASSUME NEW p \in Requests, Ask(p) PROVE TypeOK'
    BY <2>3 DEF Ask
  <2>4. ASSUME NEW p \in Requests, Rejected(p) \/ TimedOut(p) PROVE TypeOK'
    BY <2>4 DEF Rejected, TimedOut, Decline
  <2>5. ASSUME NEW p \in Requests, Approved(p) PROVE TypeOK'
    BY <2>5 DEF Approved
  <2>6. ASSUME NEW p \in Requests, OpenSession(p) PROVE TypeOK'
    BY <2>6 DEF OpenSession
  <2>7. ASSUME NEW p \in Requests, PrepareDropped(p) PROVE TypeOK'
    BY <2>7 DEF PrepareDropped
  <2>8. ASSUME NEW p \in Requests, Cancel(p) PROVE TypeOK'
    BY <2>8 DEF Cancel
  <2>9. ASSUME NEW s \in Requests, NEW f \in FileIds, UploadStart(s, f) PROVE TypeOK'
    BY <2>9 DEF UploadStart
  <2>10. ASSUME NEW s \in Requests, NEW f \in FileIds, UploadDone(s, f) PROVE TypeOK'
    BY <2>10 DEF UploadDone, CountFile
  <2>11. ASSUME NEW s \in Requests, NEW f \in FileIds, UploadFailed(s, f) PROVE TypeOK'
    BY <2>11 DEF UploadFailed
  <2>12. ASSUME NEW s \in Requests, NEW f \in FileIds, UploadDropped(s, f) PROVE TypeOK'
    BY <2>12 DEF UploadDropped
  <2>13. ASSUME NEW x \in Peers, EditTrust(x) PROVE TypeOK'
    BY <2>13 DEF EditTrust
  <2>14. ASSUME Restart PROVE TypeOK'
    BY <2>14 DEF Restart
  <2>15. CASE UNCHANGED vars
    BY <2>15 DEF vars
  <2>. QED
    BY <2>1, <2>2, <2>3, <2>4, <2>5, <2>6, <2>7, <2>8, <2>9, <2>10, <2>11,
       <2>12, <2>13, <2>14, <2>15 DEF Next
<1>. QED
  BY <1>1, <1>2, PTL DEF Spec

-----------------------------------------------------------------------------
(* The invariant behind the properties of every client *)

LEMMA CoreInit == Init => CoreInv
  BY RequestsAssumption DEF Init, CoreInv, TypeOK, Dialogs, Statuses, SessionShape,
     OnlyApprovedFiles, ReportedCounted, SavedOnce, NothingEmpty, CountsShort

LEMMA CoreStep == CoreInv /\ TypeOK' /\ [Next]_vars => CoreInv'
<1> SUFFICES ASSUME CoreInv, TypeOK', [Next]_vars PROVE CoreInv'
  OBVIOUS
<1>. USE RequestsAssumption
     DEF CoreInv, TypeOK, SessionShape, OnlyApprovedFiles, ReportedCounted, SavedOnce,
         NothingEmpty, CountsShort,
         Dialogs, Statuses, BecomeIdle, BecomePending, BecomeSending, KeepState, Answer
<1>1. ASSUME NEW p \in Requests,
             RejectEmpty(p) \/ RejectBusy(p) \/ Approved(p) \/ PrepareDropped(p)
      PROVE  CoreInv'
  BY <1>1 DEF RejectEmpty, RejectBusy, Approved, PrepareDropped
<1>2. ASSUME NEW p \in Requests, Ask(p) \/ Rejected(p) \/ TimedOut(p) PROVE CoreInv'
  BY <1>2 DEF Ask, Rejected, TimedOut, Decline
<1>3. ASSUME NEW p \in Requests, OpenSession(p) PROVE CoreInv'
  <2>1. \A f \in FileIds : <<p, f>> \notin reported
    BY <1>3 DEF OpenSession
  <2>2. CountsShort'
    <3>1. Cardinality({}) = 0 /\ Cardinality(FilesOf[p]) \in Nat /\ Cardinality(FilesOf[p]) # 0
      BY <1>3, FilesFinite, FS_EmptySet, FS_CardinalityType DEF OpenSession
    <3>. QED
      BY <1>3, <3>1 DEF OpenSession
  <2>. QED
    BY <1>3, <2>1, <2>2 DEF OpenSession
<1>4. ASSUME NEW p \in Requests, Cancel(p) PROVE CoreInv'
  BY <1>4 DEF Cancel
<1>5. ASSUME NEW s \in Requests, NEW f \in FileIds, UploadStart(s, f) PROVE CoreInv'
  <2>1. <<s, f>> \notin reported
    BY <1>5 DEF UploadStart, ValidUpload
  <2>. QED
    BY <1>5, <2>1 DEF UploadStart, ValidUpload
<1>6. ASSUME NEW s \in Requests, NEW f \in FileIds, UploadDone(s, f) PROVE CoreInv'
  <2>1. SessionShape' /\ OnlyApprovedFiles' /\ SavedOnce' /\ NothingEmpty'
    BY <1>6 DEF UploadDone, CountFile
  <2>2. ReportedCounted'
    BY <1>6 DEF UploadDone, CountFile
  <2>3. CountsShort'
    <3> SUFFICES ASSUME session' \in Requests
                 PROVE  Cardinality(received') < Cardinality(FilesOf[session'])
      OBVIOUS
    <3>1. /\ state = "Sending" /\ session' = session
          /\ received' = received \cup {f}
          /\ Cardinality(received \cup {f}) # Cardinality(FilesOf[session])
      BY <1>6 DEF UploadDone, CountFile
    <3>2. IsFiniteSet(received) /\ IsFiniteSet(FilesOf[session])
      BY <3>1, FilesFinite, FS_Subset
    <3>. QED
      BY <3>1, <3>2, CountsUp
  <2>. QED
    BY <2>1, <2>2, <2>3
<1>7. ASSUME NEW s \in Requests, NEW f \in FileIds, UploadFailed(s, f) PROVE CoreInv'
  BY <1>7 DEF UploadFailed
<1>8. ASSUME NEW s \in Requests, NEW f \in FileIds, UploadDropped(s, f) PROVE CoreInv'
  BY <1>8 DEF UploadDropped
<1>9. ASSUME NEW x \in Peers, EditTrust(x) PROVE CoreInv'
  BY <1>9 DEF EditTrust
<1>10. ASSUME Restart PROVE CoreInv'
  BY <1>10 DEF Restart
<1>11. CASE UNCHANGED vars
  BY <1>11 DEF vars
<1>. QED
  BY <1>1, <1>2, <1>3, <1>4, <1>5, <1>6, <1>7, <1>8, <1>9, <1>10, <1>11 DEF Next

LEMMA CoreInvariant == Spec => []CoreInv
<1>. QED
  BY CoreInit, CoreStep, TypeCorrect, PTL DEF Spec

\* Whatever the clients do, no file is received again once it was reported.
THEOREM SavedOnceAlways == Spec => []SavedOnce
<1>1. CoreInv => SavedOnce
  BY DEF CoreInv
<1>. QED
  BY <1>1, CoreInvariant, PTL

\* Whatever the clients do, only files of approved requests are stored.
THEOREM ApprovedFilesAlways == Spec => []OnlyApprovedFiles
<1>1. CoreInv => OnlyApprovedFiles
  BY DEF CoreInv
<1>. QED
  BY <1>1, CoreInvariant, PTL

\* A session is open because a file of it is not stored yet.
OpenLacksFile ==
  session \in Requests => ~(({session} \X FilesOf[session]) \subseteq reported)

\* Whatever the clients do, even where files are counted for the wrong session: no
\* session stays open that has all its files.
THEOREM OpenLacksFileAlways == Spec => []OpenLacksFile
<1>1. CoreInv => OpenLacksFile
  <2> SUFFICES ASSUME CoreInv, session \in Requests,
                      ({session} \X FilesOf[session]) \subseteq reported
               PROVE  FALSE
    BY DEF OpenLacksFile
  <2>1. FilesOf[session] \subseteq FileIds /\ IsFiniteSet(FileIds)
    BY FilesFinite, RequestsAssumption
  <2>2. FilesOf[session] \subseteq received
    BY <2>1 DEF CoreInv, ReportedCounted
  <2>3. IsFiniteSet(received)
    BY <2>1, FS_Subset DEF CoreInv, TypeOK
  <2>4. /\ Cardinality(FilesOf[session]) <= Cardinality(received)
        /\ Cardinality(FilesOf[session]) \in Nat /\ Cardinality(received) \in Nat
    BY <2>1, <2>2, <2>3, FS_Subset, FS_CardinalityType
  <2>. QED
    BY <2>4 DEF CoreInv, CountsShort
<1>. QED
  BY <1>1, CoreInvariant, PTL

-----------------------------------------------------------------------------
(***************************************************************************)
(* Clients that wait for the answer of an upload before they cancel make   *)
(* it a single-session receiver.                                           *)
(***************************************************************************)

\* A session has one upload at a time, of a file it announced.
OneUploadEach ==
  /\ \A u \in uploads : u[2] \in FilesOf[u[1]]
  /\ \A u, v \in uploads : u[1] = v[1] => u = v

\* What the open session has counted is what was stored for it, and it is open
\* because something is missing.
CountedIsReported ==
  session \in Requests =>
    /\ received = {f \in FileIds : <<session, f>> \in reported}
    /\ received \subseteq FilesOf[session]
    /\ received # FilesOf[session]

OrderlyInv ==
  /\ CoreInv
  /\ OneSession
  /\ NoStrayUpload
  /\ OneUploadEach
  /\ CountedIsReported

-----------------------------------------------------------------------------
\* What UploadDone does in an orderly receiver: the file is its own session's
\* and new to it, and the session ends exactly when it was the last.
LEMMA OwnFile ==
  ASSUME OrderlyInv, NEW s \in Requests, NEW f \in FileIds, UploadDone(s, f)
  PROVE  /\ state = "Sending" /\ session = s
         /\ f \in FilesOf[s] \ received
         /\ reported' = reported \cup {<<s, f>>}
         /\ uploads' = {}
         /\ IF received \cup {f} = FilesOf[s]
            THEN BecomeIdle
            ELSE received' = received \cup {f} /\ UNCHANGED <<state, session>>
<1>1. session = s
  BY DEF OrderlyInv, NoStrayUpload, UploadDone
<1>2. state = "Sending"
  BY <1>1, RequestsAssumption DEF OrderlyInv, CoreInv, SessionShape
<1>3. f \in FilesOf[s]
  BY DEF OrderlyInv, OneUploadEach, UploadDone
<1>4. f \notin received
  BY <1>1 DEF OrderlyInv, CoreInv, SavedOnce, CountedIsReported, UploadDone
<1>5. uploads' = {}
  <2>1. \A u \in uploads : u = <<s, f>>
    BY <1>1 DEF OrderlyInv, NoStrayUpload, OneUploadEach, UploadDone
  <2>. QED
    BY <2>1 DEF UploadDone
<1>6. received \cup {f} \subseteq FilesOf[s]
  BY <1>1, <1>3 DEF OrderlyInv, CountedIsReported
<1>7. Cardinality(received \cup {f}) = Cardinality(FilesOf[s]) <=> received \cup {f} = FilesOf[s]
  BY <1>6, FilesFinite, CountDecides
<1>. QED
  BY <1>1, <1>2, <1>3, <1>4, <1>5, <1>7 DEF UploadDone, CountFile

-----------------------------------------------------------------------------
LEMMA OrderlyInit == Init => OrderlyInv
<1> SUFFICES ASSUME Init PROVE OrderlyInv
  OBVIOUS
<1>1. CoreInv
  BY CoreInit
<1>2. OneSession /\ NoStrayUpload /\ OneUploadEach /\ CountedIsReported
  BY RequestsAssumption
     DEF Init, OneSession, NoStrayUpload, OneUploadEach, CountedIsReported, Dialogs
<1>. QED
  BY <1>1, <1>2 DEF OrderlyInv

LEMMA OrderlyStep ==
  ASSUME Overtakers = {}
  PROVE  OrderlyInv /\ CoreInv' /\ [Next]_vars => OrderlyInv'
<1> SUFFICES ASSUME OrderlyInv, CoreInv', [Next]_vars PROVE OrderlyInv'
  OBVIOUS
<1> DEFINE Orderly == OneSession /\ NoStrayUpload /\ OneUploadEach
                      /\ CountedIsReported
<1>0. SUFFICES Orderly'
  BY DEF OrderlyInv
<1>. USE RequestsAssumption
     DEF OrderlyInv, OneSession, NoStrayUpload, OneUploadEach, CountedIsReported, NothingEmpty,
         CoreInv, TypeOK, SessionShape, OnlyApprovedFiles,
         Dialogs, Statuses, BecomeIdle, BecomePending, BecomeSending, KeepState, Answer
<1>1. ASSUME NEW p \in Requests,
             RejectEmpty(p) \/ RejectBusy(p) \/ Approved(p) \/ PrepareDropped(p)
      PROVE  Orderly'
  BY <1>1 DEF RejectEmpty, RejectBusy, Approved, PrepareDropped
<1>2. ASSUME NEW p \in Requests, Ask(p) PROVE Orderly'
  BY <1>2 DEF Ask
<1>3. ASSUME NEW p \in Requests, Rejected(p) \/ TimedOut(p) PROVE Orderly'
  BY <1>3 DEF Rejected, TimedOut, Decline
<1>4. ASSUME NEW p \in Requests, OpenSession(p) PROVE Orderly'
  <2>1. state = "Pending" /\ session = NoSession /\ uploads = {}
    BY <1>4 DEF OpenSession
  <2>2. \A f \in FileIds : <<p, f>> \notin reported
    BY <1>4 DEF OpenSession
  <2>3. OneSession' /\ NoStrayUpload' /\ OneUploadEach'
    BY <1>4, <2>1 DEF OpenSession
  <2>4. CountedIsReported'
    BY <1>4, <2>2 DEF OpenSession
  <2>. QED
    BY <2>3, <2>4
<1>5. ASSUME NEW p \in Requests, Cancel(p) PROVE Orderly'
  <2>1. uploads = {}
    BY <1>5 DEF Cancel, NoUploadOf
  <2>. QED
    BY <1>5, <2>1 DEF Cancel
<1>6. ASSUME NEW s \in Requests, NEW f \in FileIds, UploadStart(s, f) PROVE Orderly'
  BY <1>6 DEF UploadStart, ValidUpload, NoUploadOf
<1>7. ASSUME NEW s \in Requests, NEW f \in FileIds, UploadDone(s, f) PROVE Orderly'
  <2>1. prepare' = prepare
    BY <1>7 DEF UploadDone
  <2>2. NoStrayUpload' /\ OneUploadEach' /\ OneSession'
    BY <1>7, <2>1, OwnFile
  <2>3. CountedIsReported'
    <3>1. CASE received \cup {f} = FilesOf[s]
      BY <1>7, <3>1, OwnFile
    <3>2. CASE received \cup {f} # FilesOf[s]
      <4>1. session' = s /\ session = s /\ received' = received \cup {f}
        BY <1>7, <3>2, OwnFile
      <4>2. received' = {g \in FileIds : <<session', g>> \in reported'}
        BY <1>7, <4>1, OwnFile
      <4>. QED
        BY <1>7, <3>2, <4>1, <4>2, OwnFile
    <3>. QED
      BY <3>1, <3>2
  <2>. QED
    BY <2>2, <2>3
<1>8. ASSUME NEW s \in Requests, NEW f \in FileIds, UploadFailed(s, f) PROVE Orderly'
  <2>1. uploads' = {}
    BY <1>8 DEF UploadFailed
  <2>2. state = "Sending"
    BY <1>8 DEF UploadFailed
  <2>. QED
    BY <1>8, <2>1, <2>2 DEF UploadFailed
<1>9. ASSUME NEW s \in Requests, NEW f \in FileIds, UploadDropped(s, f) PROVE Orderly'
  BY <1>9 DEF UploadDropped
<1>10. ASSUME NEW x \in Peers, EditTrust(x) PROVE Orderly'
  BY <1>10 DEF EditTrust
<1>11. ASSUME Restart PROVE Orderly'
  BY <1>11 DEF Restart
<1>12. CASE UNCHANGED vars
  BY <1>12 DEF vars
<1>. QED
  BY <1>1, <1>2, <1>3, <1>4, <1>5, <1>6, <1>7, <1>8, <1>9, <1>10, <1>11, <1>12 DEF Next

LEMMA OrderlyInvariant ==
  ASSUME Overtakers = {}
  PROVE  Spec => []OrderlyInv
<1>. QED
  BY OrderlyInit, OrderlyStep, CoreInvariant, PTL DEF Spec

\* R4: two dialogs are never open, and none is open while files arrive.
THEOREM OneSessionAlways ==
  ASSUME Overtakers = {}
  PROVE  Spec => []OneSession
<1>1. OrderlyInv => OneSession
  BY DEF OrderlyInv
<1>. QED
  BY <1>1, OrderlyInvariant, PTL

\* A handler that stores a file stores it for the session that is open.
THEOREM NoStrayUploadAlways ==
  ASSUME Overtakers = {}
  PROVE  Spec => []NoStrayUpload
<1>1. OrderlyInv => NoStrayUpload
  BY DEF OrderlyInv
<1>. QED
  BY <1>1, OrderlyInvariant, PTL

\* A session ends with its last file, and a stored file that is not the last
\* one leaves it open.
THEOREM EndsWithLastFileAlways ==
  ASSUME Overtakers = {}
  PROVE  Spec => SessionEndsWithLastFile
<1>1. OrderlyInv /\ [Next]_vars => [EndsWithLastFile]_vars
  <2> SUFFICES ASSUME OrderlyInv, Next, session \in Requests, reported' # reported
               PROVE  session' = NoSession
                        <=> ({session} \X FilesOf[session]) \subseteq reported'
    BY DEF EndsWithLastFile
  <2>1. PICK s \in Requests, f \in FileIds : UploadDone(s, f)
    BY DEF Next, RejectEmpty, RejectBusy, Ask, Rejected, TimedOut, Decline, Approved,
           OpenSession, PrepareDropped, Cancel, UploadStart, UploadFailed, UploadDropped,
           EditTrust, Restart
  <2>2. session = s /\ received = {g \in FileIds : <<s, g>> \in reported}
    BY <2>1, OwnFile DEF OrderlyInv, CountedIsReported
  <2>3. received \cup {f} = FilesOf[s] <=> ({s} \X FilesOf[s]) \subseteq reported'
    <3>1. reported' = reported \cup {<<s, f>>}
      BY <2>1, OwnFile
    <3>2. \A g \in FileIds : g \in received \cup {f} <=> <<s, g>> \in reported'
      BY <2>2, <3>1
    <3>3. received \cup {f} \subseteq FilesOf[s]
      BY <2>1, <2>2, OwnFile DEF OrderlyInv, CountedIsReported
    <3>4. ({s} \X FilesOf[s]) \subseteq reported' <=> \A g \in FilesOf[s] : <<s, g>> \in reported'
      OBVIOUS
    <3>5. FilesOf[s] \subseteq FileIds
      BY FilesFinite
    <3>. QED
      BY <3>2, <3>3, <3>4, <3>5
  <2>4. session' = NoSession <=> received \cup {f} = FilesOf[s]
    BY <2>1, <2>2, OwnFile, RequestsAssumption DEF BecomeIdle
  <2>. QED
    BY <2>2, <2>3, <2>4
<1>. QED
  BY <1>1, OrderlyInvariant, PTL DEF Spec, SessionEndsWithLastFile

-----------------------------------------------------------------------------
(* The receiver implements SingleSession *)

opened == {p \in Requests : prepare[p] = "200"}

\* A handler that opens no session leaves the opened requests as they are.
LEMMA SameOpened ==
  ASSUME TypeOK, NEW p \in Requests, prepare[p] # "200", NEW status, status # "200",
         Answer(p, status)
  PROVE  opened' = opened
BY DEF opened, TypeOK, Answer

LEMMA SingleInit == Init => Single!Init
BY DEF Init, Single!Init

LEMMA SingleStep ==
  ASSUME Overtakers = {}
  PROVE  OrderlyInv /\ [Next]_vars => [Single!Next]_(Single!absVars)
<1> SUFFICES ASSUME OrderlyInv, [Next]_vars
             PROVE  Single!Next \/ UNCHANGED Single!absVars
  OBVIOUS
<1> DEFINE Step == Single!Next \/ UNCHANGED Single!absVars
<1>0. TypeOK /\ SessionShape
  BY DEF OrderlyInv, CoreInv
<1>. USE DEF Single!absVars, opened
<1>1. ASSUME NEW p \in Requests,
             RejectEmpty(p) \/ RejectBusy(p) \/ Approved(p) \/ PrepareDropped(p)
      PROVE  Step
  <2>1. opened' = opened
    BY <1>0, <1>1, SameOpened DEF RejectEmpty, RejectBusy, Approved, PrepareDropped
  <2>. QED
    BY <1>1, <2>1 DEF RejectEmpty, RejectBusy, Approved, PrepareDropped, KeepState
<1>2. ASSUME NEW p \in Requests, Ask(p) PROVE Step
  <2>1. opened' = opened
    BY <1>0, <1>2, SameOpened DEF Ask
  <2>2. Single!Begin
    BY <1>0, <1>2, <2>1 DEF Ask, BecomePending, Single!Begin, SessionShape
  <2>. QED
    BY <2>2 DEF Single!Next
<1>3. ASSUME NEW p \in Requests, Rejected(p) \/ TimedOut(p) PROVE Step
  <2>1. opened' = opened
    BY <1>0, <1>3, SameOpened DEF Rejected, TimedOut, Decline
  <2>2. state = "Pending"
    BY <1>3 DEF Rejected, TimedOut, Decline, OrderlyInv, OneSession, Dialogs
  <2>3. Single!GiveUp
    BY <1>3, <2>1, <2>2 DEF Rejected, TimedOut, Decline, BecomeIdle, Single!GiveUp, Single!Free
  <2>. QED
    BY <2>3 DEF Single!Next
<1>4. ASSUME NEW p \in Requests, OpenSession(p) PROVE Step
  <2>1. state = "Pending" /\ p \notin opened
    BY <1>4 DEF OpenSession, OrderlyInv, OneSession, Dialogs
  <2>2. opened' = opened \cup {p}
    BY <1>0, <1>4 DEF OpenSession, Answer, TypeOK
  <2>3. Single!Open(p)
    BY <1>4, <2>1, <2>2 DEF OpenSession, BecomeSending, Single!Open
  <2>. QED
    BY <2>3 DEF Single!Next
<1>5. ASSUME NEW p \in Requests, Cancel(p) PROVE Step
  <2>1. Single!GiveUp
    BY <1>5 DEF Cancel, BecomeIdle, Single!GiveUp, Single!Free
  <2>. QED
    BY <2>1 DEF Single!Next
<1>6. ASSUME NEW s \in Requests, NEW f \in FileIds, UploadStart(s, f) PROVE Step
  BY <1>6 DEF UploadStart, KeepState
<1>7. ASSUME NEW s \in Requests, NEW f \in FileIds, UploadDone(s, f) PROVE Step
  <2>1. opened' = opened
    BY <1>7 DEF UploadDone
  <2>2. state = "Sending" /\ session = s /\ f \in FilesOf[s] \ received
    BY <1>7, OwnFile
  <2>3. Single!Take(f) \/ Single!TakeLast(f)
    <3>1. CASE received \cup {f} = FilesOf[s]
      BY <1>7, <2>1, <2>2, <3>1, OwnFile DEF BecomeIdle, Single!TakeLast, Single!Free
    <3>2. CASE received \cup {f} # FilesOf[s]
      BY <1>7, <2>1, <2>2, <3>2, OwnFile DEF Single!Take
    <3>. QED
      BY <3>1, <3>2
  <2>4. f \in UNION {FilesOf[p] : p \in Requests}
    BY <2>2
  <2>. QED
    BY <2>3, <2>4 DEF Single!Next
<1>8. ASSUME NEW s \in Requests, NEW f \in FileIds, UploadFailed(s, f) PROVE Step
  <2>1. state = "Sending"
    BY <1>0, <1>8, RequestsAssumption DEF UploadFailed, OrderlyInv, NoStrayUpload, SessionShape
  <2>2. Single!GiveUp
    BY <1>8, <2>1 DEF UploadFailed, BecomeIdle, Single!GiveUp, Single!Free
  <2>. QED
    BY <2>2 DEF Single!Next
<1>9. ASSUME NEW s \in Requests, NEW f \in FileIds, UploadDropped(s, f) PROVE Step
  BY <1>9 DEF UploadDropped, KeepState
<1>10. ASSUME NEW x \in Peers, EditTrust(x) PROVE Step
  BY <1>10 DEF EditTrust, KeepState
<1>11. ASSUME Restart PROVE Step
  <2>1. opened' = opened
    BY <1>0, <1>11 DEF Restart, Dialogs, TypeOK
  <2>2. CASE state = "Idle"
    BY <1>0, <1>11, <2>1, <2>2 DEF Restart, BecomeIdle, SessionShape
  <2>3. CASE state # "Idle"
    <3>1. Single!GiveUp
      BY <1>11, <2>1, <2>3 DEF Restart, BecomeIdle, Single!GiveUp, Single!Free
    <3>. QED
      BY <3>1 DEF Single!Next
  <2>. QED
    BY <2>2, <2>3
<1>12. CASE UNCHANGED vars
  BY <1>12 DEF vars
<1>. QED
  BY <1>1, <1>2, <1>3, <1>4, <1>5, <1>6, <1>7, <1>8, <1>9, <1>10, <1>11, <1>12 DEF Next

\* Handlers that interleave as they may still behave, to every peer, like one
\* receiver that serves one request at a time.
THEOREM ReceiverImplementsSingleSession ==
  ASSUME Overtakers = {}
  PROVE  Spec => ImplementsSingleSession
<1>. QED
  BY SingleInit, SingleStep, OrderlyInvariant, PTL
     DEF Spec, ImplementsSingleSession, Single!Spec
=============================================================================
