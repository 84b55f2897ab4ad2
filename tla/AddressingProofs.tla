-------------------------- MODULE AddressingProofs --------------------------
(***************************************************************************)
(* Proofs about Addressing, for any devices, addresses and bounds.         *)
(***************************************************************************)
EXTENDS Addressing, TLAPS, FiniteSetTheorems

\* A connection is open only while sending, to the device that was chosen, which was
\* trusted when that began.
Confirmed ==
  /\ phase # "idle" => target \in Devices \X Addresses
  /\ phase = "sending" => target[1] \in trusted \/ revoked
  /\ pool # Nobody => phase = "sending" /\ pool = target[1]

\* Where a device serves, what it says of itself, and what is listed, are places it
\* has been to.
Honest ==
  \A d \in Devices :
    /\ home[d] # Nowhere => <<d, home[d]>> \in been
    /\ d \notin tooled =>
         /\ \A a \in Addresses : <<d, a>> \in onWay => <<d, a>> \in been
         /\ list[d] # Nowhere => <<d, list[d]>> \in been

AddressingInv == TypeOK /\ IsFiniteSet(onWay) /\ Confirmed /\ Honest

-----------------------------------------------------------------------------
LEMMA AddressingInit == Init => AddressingInv
<1>. USE AddressingAssumption DEF Init, Addresses, Places
<1>1. Init => TypeOK /\ IsFiniteSet(onWay)
  <2> SUFFICES ASSUME Init PROVE TypeOK /\ IsFiniteSet(onWay)
    OBVIOUS
  <2>1. IsFiniteSet(onWay) /\ Cardinality(onWay) = 0
    BY FS_EmptySet
  <2>2. home \in [Devices -> Places] /\ list \in [Devices -> Places]
    OBVIOUS
  <2>3. /\ moves \in 0 .. MaxMoves /\ Cardinality(onWay) <= MaxOnWay
        /\ phase \in {"idle", "picking", "confirming", "sending"}
    BY <2>1
  <2>4. /\ been \subseteq Devices \X Addresses /\ tooled \subseteq Tools
        /\ onWay \subseteq Devices \X Addresses
        /\ trusted \subseteq Devices /\ revoked \in BOOLEAN
        /\ target \in (Devices \X Addresses) \cup {<<Nobody, Nowhere>>}
        /\ pool \in Devices \cup {Nobody}
    OBVIOUS
  <2>. QED
    BY ONLY <2>1, <2>2, <2>3, <2>4 DEF TypeOK, Addresses, Places
<1>2. Init => Confirmed /\ Honest
  BY DEF Confirmed, Honest
<1>. QED
  BY <1>1, <1>2 DEF AddressingInv

\* A datagram that is posted finds room, and leaves finitely many.
LEMMA PostKeepsFinite ==
  ASSUME TypeOK, IsFiniteSet(onWay), NEW d \in Devices, NEW a \in Addresses, Post(d, a)
  PROVE  /\ IsFiniteSet(onWay') /\ Cardinality(onWay') <= MaxOnWay
         /\ onWay' \subseteq Devices \X Addresses
<1>1. onWay' = onWay \cup {<<d, a>>} /\ Cardinality(onWay') <= MaxOnWay
  BY DEF Post
<1>2. IsFiniteSet(onWay \cup {<<d, a>>})
  BY FS_AddElement
<1>. QED
  BY <1>1, <1>2 DEF TypeOK

\* One that is read or lost makes room.
LEMMA TakenKeepsFinite ==
  ASSUME TypeOK, IsFiniteSet(onWay), NEW x \in onWay, onWay' = onWay \ {x}
  PROVE  /\ IsFiniteSet(onWay') /\ Cardinality(onWay') <= MaxOnWay
         /\ onWay' \subseteq Devices \X Addresses
<1>1. IsFiniteSet(onWay') /\ Cardinality(onWay') = Cardinality(onWay) - 1
  BY FS_RemoveElement
<1>2. Cardinality(onWay) \in Nat
  BY FS_CardinalityType
<1>. QED
  BY <1>1, <1>2, AddressingAssumption DEF TypeOK

LEMMA AddressingStep == AddressingInv /\ [Next]_vars => AddressingInv'
<1> SUFFICES ASSUME AddressingInv, [Next]_vars PROVE AddressingInv'
  OBVIOUS
<1>. USE AddressingAssumption
     DEF AddressingInv, TypeOK, Confirmed, Honest, Addresses, Places,
         netVars, listVars, trustVars, sendVars
<1>1. ASSUME NEW d \in Devices, NEW host \in Hosts, Arrive(d, host) PROVE AddressingInv'
  <2>1. PICK port \in {Service, Fallback} : home' = [home EXCEPT ![d] = <<host, port>>]
    BY <1>1 DEF Arrive
  <2>2. home'[d] \in Addresses /\ home' \in [Devices -> Places]
    BY <2>1
  <2>3. been' = been \cup {<<d, home'[d]>>} /\ been' \subseteq Devices \X Addresses
    BY <1>1, <2>2 DEF Arrive
  <2>4. moves' \in 0 .. MaxMoves
    BY <1>1 DEF Arrive
  <2>5. UNCHANGED <<tooled, listVars, trustVars, sendVars>>
    BY <1>1 DEF Arrive
  <2>6. Honest'
    BY <2>1, <2>3, <2>5
  <2>. QED
    BY <2>2, <2>3, <2>4, <2>5, <2>6
<1>2. ASSUME NEW d \in Devices, NEW host \in Hosts, AnnounceTool(d, host)
      PROVE  AddressingInv'
  <2>1. d \in tooled' /\ tooled' = tooled \cup {d} /\ tooled' \subseteq Tools
    BY <1>2 DEF AnnounceTool
  <2>2. <<host, Service>> \in Addresses /\ Post(d, <<host, Service>>)
    BY <1>2 DEF AnnounceTool
  <2>3. /\ IsFiniteSet(onWay') /\ Cardinality(onWay') <= MaxOnWay
        /\ onWay' \subseteq Devices \X Addresses
    BY <2>2, PostKeepsFinite
  <2>4. moves' \in 0 .. MaxMoves /\ UNCHANGED <<home, been, list, trustVars, sendVars>>
    BY <1>2 DEF AnnounceTool
  <2>5. Honest'
    BY <2>1, <2>2, <2>4 DEF Post
  <2>. QED
    BY <2>1, <2>3, <2>4, <2>5
<1>3. ASSUME NEW d \in Devices, Leave(d) PROVE AddressingInv'
  BY <1>3 DEF Leave
<1>4. ASSUME NEW d \in Devices, Announce(d) PROVE AddressingInv'
  BY <1>4, PostKeepsFinite DEF Announce, Announced, Post
<1>5. ASSUME NEW d \in Devices, Expire(d) PROVE AddressingInv'
  BY <1>5 DEF Expire
<1>6. ASSUME NEW d \in Devices, NEW a \in Addresses, Hear(d, a) PROVE AddressingInv'
  BY <1>6, TakenKeepsFinite DEF Hear
<1>7. ASSUME NEW d \in Devices, NEW a \in Addresses, Lose(d, a) PROVE AddressingInv'
  BY <1>7, TakenKeepsFinite DEF Lose
<1>8. ASSUME NEW d \in Devices, NEW a \in Addresses, Choose(d, a) PROVE AddressingInv'
  BY <1>8 DEF Choose
<1>9. ASSUME CheckTrust PROVE AddressingInv'
  BY <1>9 DEF CheckTrust
<1>10. ASSUME Confirm PROVE AddressingInv'
  BY <1>10 DEF Confirm
<1>11. ASSUME End PROVE AddressingInv'
  BY <1>11 DEF End
<1>12. ASSUME Request PROVE AddressingInv'
  BY <1>12 DEF Request, Connects, Pinned
<1>13. ASSUME Disconnect PROVE AddressingInv'
  BY <1>13 DEF Disconnect
<1>14. ASSUME NEW d \in Devices, Enter(d) PROVE AddressingInv'
  BY <1>14 DEF Enter
<1>15. ASSUME NEW d \in Devices, Forget(d) PROVE AddressingInv'
  BY <1>15 DEF Forget
<1>16. CASE UNCHANGED vars
  BY <1>16 DEF vars
<1>. QED
  BY <1>1, <1>2, <1>3, <1>4, <1>5, <1>6, <1>7, <1>8, <1>9, <1>10, <1>11, <1>12,
     <1>13, <1>14, <1>15, <1>16 DEF Next

LEMMA AddressingInvAlways == Spec => []AddressingInv
  BY AddressingInit, AddressingStep, PTL DEF Spec

-----------------------------------------------------------------------------
\* Every variable of the module keeps its type.
THEOREM AddressingTypeCorrect == Spec => []TypeOK
<1>1. AddressingInv => TypeOK
  BY DEF AddressingInv
<1>. QED
  BY <1>1, AddressingInvAlways, PTL

\* Wherever devices move between the choice and the transfer, it talks to the one that
\* was chosen; and whenever devices are forgotten, that one is trusted, unless it was
\* forgotten after the trust list was read for this transfer.
THEOREM ReachesChosenAlways == Spec => []ReachesChosen
<1>1. AddressingInv => ReachesChosen
  BY DEF AddressingInv, Confirmed, ReachesChosen
<1>. QED
  BY <1>1, AddressingInvAlways, PTL

\* However datagrams are delayed, what is listed is a place where that device serves
\* or has served, unless a command line spoke for it.
THEOREM ListedServedAlways == Spec => []ListedServed
<1>1. AddressingInv => ListedServed
  BY DEF AddressingInv, Honest, ListedServed
<1>. QED
  BY <1>1, AddressingInvAlways, PTL
=============================================================================
