----------------------------- MODULE MCTransfer -----------------------------
(* Small instances of Transfer.  Two files make a session that is partly    *)
(* delivered; a third request follows a session that was lost to another.   *)
EXTENDS Transfer, TLC

CONSTANTS p1, p2, p3, f1, f2, alice

\* Two senders, and one with nothing to send.
MCFilesOf == (p1 :> {f1, f2}) @@ (p2 :> {f1}) @@ (p3 :> {})

\* Three senders, two of them with a single file.
AllFiles == (p1 :> {f1, f2}) @@ (p2 :> {f1}) @@ (p3 :> {f1})

OneSender == [p \in Requests |-> alice]
=============================================================================
