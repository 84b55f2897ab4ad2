---------------------------- MODULE MCReceiver ----------------------------
(* A small instance of Receiver: two senders, two files; one of the        *)
(* requests has nothing to send.                                           *)
EXTENDS Receiver, TLC

CONSTANTS p1, p2, p3, p4, f1, f2, alice, bob

MCFilesOf == (p1 :> {f1, f2}) @@ (p2 :> {f1, f2}) @@ (p3 :> {f1}) @@ (p4 :> {})
MCSenderOf == (p1 :> alice) @@ (p2 :> bob) @@ (p3 :> alice) @@ (p4 :> bob)
=============================================================================
