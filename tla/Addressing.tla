----------------------------- MODULE Addressing -----------------------------
(***************************************************************************)
(* Whom a send reaches: the addresses a device learns of the others        *)
(* (app/rust/src/core/discovery.rs, protocol.rs) while they come, go and   *)
(* move, the choice of one of them (tabs/send_tab.dart of the app,         *)
(* resolve_target of bin/easy_send_rs.rs), and the connections that are    *)
(* pinned to the fingerprint that was chosen (core/transfer/send.rs).      *)
(*                                                                         *)
(* One device looks at the others; it is not among them.  Its own          *)
(* datagrams, those of other applications and of other major versions are  *)
(* dropped when they arrive, like those the network loses.  An address is  *)
(* a host and a port: the host is where a datagram comes from, the port    *)
(* what it says.                                                           *)
(***************************************************************************)
EXTENDS Naturals, FiniteSets

CONSTANTS
  Devices,     \* the others, each with the fingerprint of its certificate
  Hosts,
  Service,     \* the service port
  Fallback,    \* a port the system picks
  Tools,       \* devices whose command line is also run for ls and send
  Nowhere, Nobody,
  MaxMoves,    \* bound: arrivals, and announcements of command lines
  MaxOnWay     \* bound: datagrams under way to this device

ASSUME AddressingAssumption ==
  /\ IsFiniteSet(Devices) /\ Tools \subseteq Devices
  /\ Service # Fallback
  /\ Nobody \notin Devices
  /\ Nowhere \notin Hosts \X {Service, Fallback}
  /\ {MaxMoves, MaxOnWay} \subseteq Nat

Addresses == Hosts \X {Service, Fallback}

VARIABLES
  home,      \* where each device serves
  moves,
  been,      \* every <<device, address>> so far
  tooled,    \* devices that were announced by a command line that does not serve
  onWay,     \* datagrams under way to it, <<device, address>> each
  list,      \* Inner.devices
  trusted,   \* the trust list of this device
  revoked,   \* history: the chosen device was forgotten since it is sent to
  phase,     \* of the transfer that is being made
  target,    \* the device and the address that were chosen
  pool       \* the device at the other end of its connection, if it is open

netVars  == <<home, moves, been, tooled>>
listVars == <<onWay, list>>
trustVars == <<trusted, revoked>>
sendVars == <<phase, target, pool>>
vars == <<netVars, listVars, trustVars, sendVars>>

Places == Addresses \cup {Nowhere}

TypeOK ==
  /\ home \in [Devices -> Places]
  /\ moves \in 0 .. MaxMoves
  /\ been \subseteq Devices \X Addresses
  /\ tooled \subseteq Tools
  /\ onWay \subseteq Devices \X Addresses /\ Cardinality(onWay) <= MaxOnWay
  /\ list \in [Devices -> Places]
  /\ trusted \subseteq Devices /\ revoked \in BOOLEAN
  /\ phase \in {"idle", "picking", "confirming", "sending"}
  /\ target \in (Devices \X Addresses) \cup {<<Nobody, Nowhere>>}
  /\ pool \in Devices \cup {Nobody}

Init ==
  /\ home = [d \in Devices |-> Nowhere]
  /\ moves = 0 /\ been = {} /\ tooled = {}
  /\ onWay = {}
  /\ list = [d \in Devices |-> Nowhere]
  /\ trusted = {} /\ revoked = FALSE
  /\ phase = "idle" /\ target = <<Nobody, Nowhere>> /\ pool = Nobody

At(a) == {d \in Devices : home[d] = a}

-----------------------------------------------------------------------------
(* The other devices *)

\* Receiver::start takes the service port, or another one if that is in use: by a
\* device of this module, another process, or the listener it had before.
Arrive(d, host) ==
  /\ home[d] = Nowhere
  /\ moves < MaxMoves
  /\ \E port \in {Service, Fallback} :
       /\ At(<<host, port>>) = {}
       /\ home' = [home EXCEPT ![d] = <<host, port>>]
  /\ been' = been \cup {<<d, home'[d]>>}
  /\ moves' = moves + 1
  /\ UNCHANGED <<tooled, listVars, trustVars, sendVars>>

\* It is closed, or its host gets another address.
Leave(d) ==
  /\ home[d] # Nowhere
  /\ home' = [home EXCEPT ![d] = Nowhere]
  /\ UNCHANGED <<moves, been, tooled, listVars, trustVars, sendVars>>

\* Mutants of Announced: the port is the one that was asked for; it is the one of
\* before the bind.
AnnouncedService(d) == <<home[d][1], Service>>
AnnouncedUnbound(d) == <<home[d][1], 0>>

\* The host a datagram of d comes from and the port in it.
Announced(d) == home[d]

Post(d, a) ==
  /\ onWay' = onWay \cup {<<d, a>>}
  /\ Cardinality(onWay') <= MaxOnWay

\* announce, every five seconds and when the user asks for it; and the read loop's
\* answer to an announcement of this device, which differs from one in a flag only.
Announce(d) ==
  /\ home[d] # Nowhere
  /\ Post(d, Announced(d))
  /\ UNCHANGED <<netVars, list, trustVars, sendVars>>

\* cmd_ls and cmd_send announce the service port of their host, and serve nobody.
AnnounceTool(d, host) ==
  /\ d \in Tools
  /\ moves < MaxMoves
  /\ moves' = moves + 1
  /\ tooled' = tooled \cup {d}
  /\ Post(d, <<host, Service>>)
  /\ UNCHANGED <<home, been, list, trustVars, sendVars>>

-----------------------------------------------------------------------------
(* This device's list *)

Hear(d, a) ==
  /\ <<d, a>> \in onWay
  /\ onWay' = onWay \ {<<d, a>>}
  /\ list' = [list EXCEPT ![d] = a]
  /\ UNCHANGED <<netVars, trustVars, sendVars>>

Lose(d, a) ==
  /\ <<d, a>> \in onWay
  /\ onWay' = onWay \ {<<d, a>>}
  /\ UNCHANGED <<netVars, list, trustVars, sendVars>>

\* Mutant of Expire: the list is not pruned.
ExpireNever(d) == FALSE /\ UNCHANGED vars

\* Not heard of for 15 s (or this device restarted).
Expire(d) ==
  /\ list[d] # Nowhere
  /\ list' = [list EXCEPT ![d] = Nowhere]
  /\ UNCHANGED <<netVars, onWay, trustVars, sendVars>>

-----------------------------------------------------------------------------
(* The trust list beside it *)

\* handle_prepare enters a peer whose own request was approved.
Enter(d) ==
  /\ trusted' = trusted \cup {d}
  /\ UNCHANGED <<netVars, listVars, revoked, sendVars>>

\* trust_remove: the user forgets a device, at any moment; or the list is opened again
\* and what could not be saved is gone.  A transfer that is under way goes on.
Forget(d) ==
  /\ trusted' = trusted \ {d}
  /\ revoked' = (revoked \/ (phase = "sending" /\ d = target[1]))
  /\ UNCHANGED <<netVars, listVars, sendVars>>

-----------------------------------------------------------------------------
(* A transfer *)

\* An address the user typed: exchange_info takes who answers there for who its
\* certificate says it is, and what it found never expires in the app.
Typed(d) == {a \in Addresses : <<d, a>> \in been}

\* What the send tab shows: the list first, then what was added by hand.
Shown(d) == IF list[d] # Nowhere THEN {list[d]} ELSE Typed(d)

\* The user taps a device, or gives resolve_target its name or its address: the
\* transfer keeps the address known at this moment.
Choose(d, a) ==
  /\ phase = "idle"
  /\ a \in Shown(d) \/ home[d] = a
  /\ target' = <<d, a>>
  /\ phase' = "picking"
  /\ UNCHANGED <<netVars, listVars, trustVars, pool>>

\* Mutant of CheckTrust: nobody is asked.
CheckTrustNot ==
  /\ phase = "picking"
  /\ phase' = "sending"
  /\ UNCHANGED <<netVars, listVars, trustVars, target, pool>>

\* The file picker returns; a device that is not trusted by now is asked about.
CheckTrust ==
  /\ phase = "picking"
  /\ phase' = IF target[1] \in trusted THEN "sending" ELSE "confirming"
  /\ UNCHANGED <<netVars, listVars, trustVars, target, pool>>

\* The user trusts it.  (If that cannot be saved, it is entered all the same, and the
\* transfer ends.)
Confirm ==
  /\ phase = "confirming"
  /\ phase' = "sending"
  /\ trusted' = trusted \cup {target[1]}
  /\ UNCHANGED <<netVars, listVars, revoked, target, pool>>

\* The transfer ends: no file or no trust was given, everything was sent, a request
\* failed or nobody serves there.  Its client goes with it.
End ==
  /\ phase # "idle"
  /\ phase' = "idle"
  /\ target' = <<Nobody, Nowhere>>
  /\ pool' = Nobody
  /\ revoked' = FALSE
  /\ UNCHANGED <<netVars, listVars, trusted>>

\* Mutant of Pinned: any certificate will do.
PinnedNot(d) == TRUE

\* FingerprintVerifier: the certificate is the chosen device's.
Pinned(d) == d = target[1]

\* The client's idle connection, or a new one to the address that was chosen.
Connects(d) == d = pool \/ (pool = Nobody /\ d \in At(target[2]) /\ Pinned(d))

\* prepare, upload or cancel.
Request ==
  /\ phase = "sending"
  /\ \E d \in Devices : Connects(d) /\ pool' = d
  /\ UNCHANGED <<netVars, listVars, trustVars, phase, target>>

\* An idle connection is closed.  Until then the device serves it, also when it has
\* moved on.
Disconnect ==
  /\ pool # Nobody
  /\ pool' = Nobody
  /\ UNCHANGED <<netVars, listVars, trustVars, phase, target>>

-----------------------------------------------------------------------------
Next ==
  \/ \E d \in Devices, host \in Hosts : Arrive(d, host) \/ AnnounceTool(d, host)
  \/ \E d \in Devices :
       \/ Leave(d) \/ Announce(d) \/ Expire(d) \/ Enter(d) \/ Forget(d)
  \/ \E d \in Devices, a \in Addresses : Hear(d, a) \/ Lose(d, a) \/ Choose(d, a)
  \/ CheckTrust \/ Confirm \/ End \/ Request \/ Disconnect

(***************************************************************************)
(* A device that serves announces itself, and entries that are not renewed *)
(* expire.  A device's datagrams are lost, but not all of them for ever,   *)
(* and none stays under way for ever.                                      *)
(***************************************************************************)
Fairness ==
  \A d \in Devices :
    /\ SF_vars(Announce(d)) /\ WF_vars(Expire(d))
    /\ SF_vars(\E a \in Addresses : Hear(d, a))
    /\ \A a \in Addresses : WF_vars(Hear(d, a) \/ Lose(d, a))

Spec == Init /\ [][Next]_vars /\ Fairness

-----------------------------------------------------------------------------
\* Whoever serves at an address by the time it is used, a transfer talks to the device
\* that was chosen and to nobody else.  That device is trusted, also if it was forgotten
\* between the tap and the end of the file picker; only one that is forgotten after the
\* trust list was read for the transfer, or the user was asked, goes on being sent to.
ReachesChosen ==
  pool # Nobody => pool = target[1] /\ (pool \in trusted \/ revoked)

\* What is listed is an address where that very device serves or has served, unless
\* a command line spoke for it.
ListedServed ==
  \A d \in Devices \ tooled : list[d] # Nowhere => <<d, list[d]>> \in been

\* A device that stays where it is gets listed there, again and again, and in the
\* end nowhere else; one that is gone disappears.  Datagrams that were delayed, and
\* those of a command line that spoke for it, do not last.
CatchesUp ==
  \A d \in Devices :
    <>[][home'[d] = home[d]]_home => /\ []<>(list[d] = home[d])
                                     /\ <>[](list[d] \in {home[d], Nowhere})
=============================================================================
