--------------------------- MODULE SingleSession ---------------------------
(***************************************************************************)
(* What a receiver promises its peers, whatever threads and connections it *)
(* is made of: it deals with one request at a time; a request becomes a    *)
(* session at most once; a session takes each of its files once and ends   *)
(* with the last of them, or earlier when it is given up.                  *)
(***************************************************************************)
CONSTANTS Requests, FilesOf, NoSession

VARIABLES
  phase,    \* "Idle", "Pending" (the user is being asked) or "Sending"
  owner,    \* the session that is being served
  got,      \* the files it has delivered
  opened    \* the requests that have become sessions

absVars == <<phase, owner, got, opened>>

Free == phase' = "Idle" /\ owner' = NoSession /\ got' = {}

Init ==
  /\ phase = "Idle"
  /\ owner = NoSession
  /\ got = {}
  /\ opened = {}

Begin ==
  /\ phase = "Idle"
  /\ phase' = "Pending"
  /\ UNCHANGED <<owner, got, opened>>

Open(p) ==
  /\ phase = "Pending"
  /\ p \notin opened
  /\ phase' = "Sending"
  /\ owner' = p
  /\ got' = {}
  /\ opened' = opened \cup {p}

Take(f) ==
  /\ phase = "Sending"
  /\ f \in FilesOf[owner] \ got
  /\ got \cup {f} # FilesOf[owner]
  /\ got' = got \cup {f}
  /\ UNCHANGED <<phase, owner, opened>>

TakeLast(f) ==
  /\ phase = "Sending"
  /\ f \in FilesOf[owner] \ got
  /\ got \cup {f} = FilesOf[owner]
  /\ Free
  /\ UNCHANGED opened

\* Declined, timed out, cancelled, failed or crashed.
GiveUp ==
  /\ phase # "Idle"
  /\ Free
  /\ UNCHANGED opened

Next ==
  \/ Begin \/ GiveUp
  \/ \E p \in Requests : Open(p)
  \/ \E f \in UNION {FilesOf[p] : p \in Requests} : Take(f) \/ TakeLast(f)

Spec == Init /\ [][Next]_absVars
=============================================================================
