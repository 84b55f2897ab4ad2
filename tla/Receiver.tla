------------------------------ MODULE Receiver ------------------------------
(***************************************************************************)
(* The receiving side of a transfer: the session state machine behind the  *)
(* HTTPS routes of app/rust/src/core/transfer/recv.rs.                     *)
(*                                                                         *)
(* The only memory the handlers share is the enum State (Idle, Pending,    *)
(* Sending(Session)) behind a mutex.  No handler holds the mutex across an *)
(* await: handle_prepare releases it while the approval dialog is open,    *)
(* handle_upload while it reads a body to disk.  Every action below is one *)
(* such critical section with the handler code up to the next await, so    *)
(* handlers of different connections interleave as they do on tokio.       *)
(*                                                                         *)
(* A request that only reads the state and answers 404 is a stuttering     *)
(* step and has no action of its own.                                      *)
(***************************************************************************)
EXTENDS Naturals, FiniteSets

CONSTANTS
  Requests,     \* prepare-upload calls; a call that is accepted names its session
  FileIds,      \* "f1", "f2", ...: numbered from 1 again in every request
  FilesOf,      \* the files each request announces
  Peers,        \* certificate fingerprints
  SenderOf,     \* the peer that makes each request
  Overtakers,   \* requests whose client cancels over a second connection while
                \* the receiver may still be busy with its last upload
  Vanishers,    \* requests whose client may close a connection before the answer
  NoSession

ASSUME RequestsAssumption ==
  /\ FilesOf \in [Requests -> SUBSET FileIds]
  /\ SenderOf \in [Requests -> Peers]
  /\ IsFiniteSet(FileIds)
  /\ NoSession \notin Requests
  /\ Overtakers \subseteq Requests
  /\ Vanishers \subseteq Requests

VARIABLES
  state,      \* the variant of the enum State
  session,    \* Session.id of State::Sending
  received,   \* Session.received of State::Sending
  trusted,    \* fingerprints in the TrustStore
  prepare,    \* where each prepare-upload call is, or the status it got
  uploads,    \* <<s, f>> whose upload handler is past the token check
  reported    \* <<s, f>> stored, answered 200 and handed to on_saved

vars == <<state, session, received, trusted, prepare, uploads, reported>>

Dialogs  == {"asking", "granted"}
Statuses == {"200", "400", "403", "408", "409"}

TypeOK ==
  /\ state \in {"Idle", "Pending", "Sending"}
  /\ session \in Requests \cup {NoSession}
  /\ received \subseteq FileIds
  /\ trusted \subseteq Peers
  /\ prepare \in [Requests -> Dialogs \cup Statuses \cup {"unsent", "lost"}]
  /\ uploads \subseteq Requests \X FileIds
  /\ reported \subseteq Requests \X FileIds

Init ==
  /\ state = "Idle"
  /\ session = NoSession
  /\ received = {}
  /\ trusted \in SUBSET Peers
  /\ prepare = [p \in Requests |-> "unsent"]
  /\ uploads = {}
  /\ reported = {}

-----------------------------------------------------------------------------
(* The lock-protected assignments to State *)

BecomeIdle ==
  /\ state' = "Idle"
  /\ session' = NoSession
  /\ received' = {}

BecomePending ==
  /\ state' = "Pending"
  /\ session' = NoSession
  /\ received' = {}

BecomeSending(p) ==
  /\ state' = "Sending"
  /\ session' = p
  /\ received' = {}

KeepState == UNCHANGED <<state, session, received>>

Answer(p, status) == prepare' = [prepare EXCEPT ![p] = status]

-----------------------------------------------------------------------------
(* handle_prepare *)

\* A request without files is turned away before the state is looked at.
RejectEmpty(p) ==
  /\ prepare[p] = "unsent"
  /\ FilesOf[p] = {}
  /\ Answer(p, "400")
  /\ KeepState
  /\ UNCHANGED <<trusted, uploads, reported>>

\* Any state but Idle answers 409.
RejectBusy(p) ==
  /\ prepare[p] = "unsent"
  /\ FilesOf[p] # {}
  /\ state # "Idle"
  /\ Answer(p, "409")
  /\ KeepState
  /\ UNCHANGED <<trusted, uploads, reported>>

\* Mutants of Ask: the state is not looked at; only a second dialog is refused.
AskAnyTime(p) ==
  /\ prepare[p] = "unsent"
  /\ FilesOf[p] # {}
  /\ BecomePending
  /\ Answer(p, "asking")
  /\ UNCHANGED <<trusted, uploads, reported>>

AskUnlessPending(p) == state # "Pending" /\ AskAnyTime(p)

\* Idle becomes Pending; the mutex is released and the dialog opens.
Ask(p) ==
  /\ prepare[p] = "unsent"
  /\ FilesOf[p] # {}
  /\ state = "Idle"
  /\ BecomePending
  /\ Answer(p, "asking")
  /\ UNCHANGED <<trusted, uploads, reported>>

\* The user declines (403) or sixty seconds pass (408): Idle again, whatever
\* the state has become in the meantime.
Decline(p, status) ==
  /\ prepare[p] = "asking"
  /\ BecomeIdle
  /\ Answer(p, status)
  /\ UNCHANGED <<trusted, uploads, reported>>

\* Mutant of TimedOut: the session opens all the same.
TimedOutOpens(p) ==
  /\ prepare[p] = "asking"
  /\ BecomeSending(p)
  /\ Answer(p, "408")
  /\ UNCHANGED <<trusted, uploads, reported>>

Rejected(p) == Decline(p, "403")
TimedOut(p) == Decline(p, "408")

\* Mutant of Approved: the request is remembered in place of its peer.
ApprovedByRequest(p) ==
  /\ prepare[p] = "asking"
  /\ trusted' = trusted \cup {p}
  /\ Answer(p, "granted")
  /\ KeepState
  /\ UNCHANGED <<uploads, reported>>

\* The user accepts: the peer is remembered; the state is assigned later, under
\* another acquisition of the mutex.
Approved(p) ==
  /\ prepare[p] = "asking"
  /\ trusted' = trusted \cup {SenderOf[p]}
  /\ Answer(p, "granted")
  /\ KeepState
  /\ UNCHANGED <<uploads, reported>>

OpenSession(p) ==
  /\ prepare[p] = "granted"
  /\ BecomeSending(p)
  /\ Answer(p, "200")
  /\ UNCHANGED <<trusted, uploads, reported>>

\* hyper drops the handler of a connection its client closes.  The only await
\* of the handler is the dialog, and nothing runs when it is dropped there.
PrepareDropped(p) ==
  /\ p \in Vanishers
  /\ prepare[p] = "asking"
  /\ Answer(p, "lost")
  /\ KeepState
  /\ UNCHANGED <<trusted, uploads, reported>>

-----------------------------------------------------------------------------
(* handle_upload *)

\* Mutant of ValidUpload: a file that is there already is accepted again.
ValidUploadAgain(s, f) ==
  /\ state = "Sending"
  /\ session = s
  /\ f \in FilesOf[s]

ValidUpload(s, f) ==
  /\ state = "Sending"
  /\ session = s
  /\ f \in FilesOf[s]
  /\ f \notin received

\* The client of a session sends its files one after the other (send_files).
NoUploadOf(s) == \A f \in FileIds : <<s, f>> \notin uploads

\* The token is checked under the mutex, then save_body starts to read.
UploadStart(s, f) ==
  /\ ValidUpload(s, f)
  /\ NoUploadOf(s)
  /\ uploads' = uploads \cup {<<s, f>>}
  /\ KeepState
  /\ UNCHANGED <<trusted, prepare, reported>>

\* Mutant of CountFile: the files are compared before the new one is counted.
CountFileLate(f) ==
  IF Cardinality(received) = Cardinality(FilesOf[session])
  THEN BecomeIdle
  ELSE received' = received \cup {f} /\ UNCHANGED <<state, session>>

\* The file is stored.  It is counted for the session that is open now.
CountFile(f) ==
  LET counted == received \cup {f}
  IN  IF Cardinality(counted) = Cardinality(FilesOf[session])
      THEN BecomeIdle
      ELSE received' = counted /\ UNCHANGED <<state, session>>

UploadDone(s, f) ==
  /\ <<s, f>> \in uploads
  /\ IF state = "Sending" THEN CountFile(f) ELSE KeepState
  /\ uploads' = uploads \ {<<s, f>>}
  /\ reported' = reported \cup {<<s, f>>}
  /\ UNCHANGED <<trusted, prepare>>

\* Disk full, size mismatch or a broken body: 500, and Idle whatever the state is.
UploadFailed(s, f) ==
  /\ <<s, f>> \in uploads
  /\ BecomeIdle
  /\ uploads' = uploads \ {<<s, f>>}
  /\ UNCHANGED <<trusted, prepare, reported>>

\* The connection closes while the handler awaits the disk.
UploadDropped(s, f) ==
  /\ s \in Vanishers
  /\ <<s, f>> \in uploads
  /\ uploads' = uploads \ {<<s, f>>}
  /\ KeepState
  /\ UNCHANGED <<trusted, prepare, reported>>

-----------------------------------------------------------------------------
(* handle_cancel, the user's edits of the trust list, process death *)

\* Mutant of Cancel: any session id ends the session.
CancelAny(s) ==
  /\ state = "Sending"
  /\ s \in Overtakers \/ NoUploadOf(s)
  /\ BecomeIdle
  /\ UNCHANGED <<trusted, prepare, uploads, reported>>

Cancel(s) ==
  /\ state = "Sending"
  /\ session = s
  /\ s \in Overtakers \/ NoUploadOf(s)
  /\ BecomeIdle
  /\ UNCHANGED <<trusted, prepare, uploads, reported>>

\* The settings tab forgets a peer; the send tab remembers one it sends to.
EditTrust(x) ==
  /\ trusted' \in {trusted \ {x}, trusted \cup {x}}
  /\ KeepState
  /\ UNCHANGED <<prepare, uploads, reported>>

\* A new process starts Idle.  It reopens the trust store, in which an entry
\* whose save failed is missing; every handler is gone.
Restart ==
  /\ BecomeIdle
  /\ trusted' \in SUBSET trusted
  /\ prepare' = [p \in Requests |-> IF prepare[p] \in Dialogs THEN "lost" ELSE prepare[p]]
  /\ uploads' = {}
  /\ UNCHANGED reported

-----------------------------------------------------------------------------
Next ==
  \/ \E p \in Requests :
       \/ RejectEmpty(p) \/ RejectBusy(p) \/ Ask(p)
       \/ Rejected(p) \/ TimedOut(p) \/ Approved(p) \/ OpenSession(p)
       \/ PrepareDropped(p)
       \/ Cancel(p)
  \/ \E s \in Requests, f \in FileIds :
       \/ UploadStart(s, f) \/ UploadDone(s, f) \/ UploadFailed(s, f)
       \/ UploadDropped(s, f)
  \/ \E x \in Peers : EditTrust(x)
  \/ Restart

Spec == Init /\ [][Next]_vars

\* Sixty seconds always pass, and a granted handler has no await left.
Fairness ==
  \A p \in Requests : WF_vars(TimedOut(p)) /\ WF_vars(OpenSession(p))

FairSpec == Spec /\ Fairness

-----------------------------------------------------------------------------
(***************************************************************************)
(* Properties that hold whatever clients cancel, drop or overtake.         *)
(***************************************************************************)

\* A file the user was told is saved is not being received again: the check of
\* Session.received and its update lie on the two sides of save_body's awaits.
SavedOnce == uploads \cap reported = {}

\* No byte is stored for a request that was declined, timed out, answered 409
\* or is still waiting for its user: whatever handlers overlap, the tokens come
\* with an approval only.
OnlyApprovedFiles ==
  \A u \in uploads \cup reported : prepare[u[1]] = "200"

\* Once the client does not go away, no dialog leaves the receiver Pending: it
\* answers within the timeout and can be asked again.
PendingEnds == state = "Pending" ~> state # "Pending"

(***************************************************************************)
(* Properties of clients that wait for an upload's answer before they      *)
(* cancel (Overtakers = {}).                                               *)
(***************************************************************************)

\* One session at a time (R4): one dialog at most, and none while files arrive.
OneSession ==
  /\ \A p, q \in Requests : prepare[p] \in Dialogs /\ prepare[q] \in Dialogs => p = q
  /\ \A p \in Requests : prepare[p] \in Dialogs => state = "Pending"

\* Every handler that is storing a file stores it for the open session, so what
\* it later does to the state it does to its own session.
NoStrayUpload == \A u \in uploads : session = u[1]

\* A stored file ends its session if and only if it was the last one missing.
EndsWithLastFile ==
  session \in Requests /\ reported' # reported =>
    (session' = NoSession <=> ({session} \X FilesOf[session]) \subseteq reported')

SessionEndsWithLastFile == [][EndsWithLastFile]_vars

\* The receiver is a single-session receiver: see SingleSession.
Single == INSTANCE SingleSession
  WITH phase <- state, owner <- session, got <- received,
       opened <- {p \in Requests : prepare[p] = "200"}

ImplementsSingleSession == Single!Spec
=============================================================================
