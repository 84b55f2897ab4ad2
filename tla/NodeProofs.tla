----------------------------- MODULE NodeProofs -----------------------------
(***************************************************************************)
(* Proofs about Node, for any settings and any number of starts.           *)
(***************************************************************************)
EXTENDS Node, TLAPS, FiniteSetTheorems

\* Peers have seen at most the fingerprint of cert.pem, and a start that is past
\* the identity has one.
Identified ==
  /\ shown \subseteq {cert}
  /\ \A n \in Starts :
       at[n] \in {"cert", "trust", "listening", "discovering", "publishing"} => cert # None

\* Where starts and loops can be, whatever overlaps or fails.
Loops ==
  /\ \A n \in Starts : n > last => at[n] = "unused"
  /\ ~up => node = None /\ \A n \in Starts : at[n] \in {"unused", "dead"}
  /\ node # None => node \in serving \ told /\ at[node] = "done"
  /\ \A n \in Starts : at[n] \in {"discovering", "publishing"} => n \in serving \ told
  /\ \A n \in told : at[n] = "done"
  /\ \A n \in serving : at[n] \in {"discovering", "publishing", "done", "failed"}

\* When calls do not overlap, one start at a time is under way, from settings that were
\* saved; NODE is empty until it is done, and then it runs under those.
InTurn ==
  ~overlapping =>
    /\ \A m, n \in Starts : at[m] \in Busy /\ at[n] \in Busy => m = n
    /\ \A n \in Starts : at[n] \in Busy => settings = file
    /\ \A n \in Starts : at[n] \in Busy \ {"stopping"} => node = None
    /\ \A n \in Starts :
         at[n] \in Busy \ {"stopping", "starting"} => config[n] = settings
    /\ node # None /\ Readable =>
         config[node] = file \/ \E n \in Starts : at[n] = "stopping"

\* A start cannot succeed only for its folder, or for an identity that was torn.
Unfit(n) == at[n] = "unfit" => torn \/ config[n] \in BadSettings

\* cert.pem is written once, and waits for its key; there is no other start until then.
Unkeyed == cert = None \/ at[cert] = "cert"

Whole ==
  /\ \A n \in Starts : at[n] = "cert" => cert = n
  /\ Unkeyed => /\ \A n \in Starts : at[n] # "done"
                /\ \A m, n \in Starts : at[m] \in Busy /\ at[n] \in Busy => m = n
  /\ cert # None /\ key # cert => torn \/ at[cert] = "cert"
  /\ \A n \in Starts : Unfit(n)

NodeInv == TypeOK /\ Identified /\ Loops /\ Whole /\ InTurn /\ OwnedOnly

-----------------------------------------------------------------------------
LEMMA NodeInit == Init => NodeInv
<1> SUFFICES ASSUME Init PROVE NodeInv
  OBVIOUS
<1>. USE NodeAssumption DEF Init, Starts, None, Busy
<1>1. TypeOK
  <2>1. at \in [Starts -> Busy \cup {"unused", "done", "unfit", "failed", "dead"}]
    OBVIOUS
  <2>2. config \in [Starts -> Settings] /\ settings \in Settings /\ file \in Settings
    OBVIOUS
  <2>3. up \in BOOLEAN /\ torn \in BOOLEAN /\ overlapping \in BOOLEAN
    OBVIOUS
  <2>4. last \in 0 .. MaxStarts /\ {cert, key, node} \subseteq Starts \cup {None}
    OBVIOUS
  <2>5. told \subseteq Starts /\ serving \subseteq Starts /\ shown \subseteq Starts
    OBVIOUS
  <2>. QED
    BY <2>1, <2>2, <2>3, <2>4, <2>5 DEF TypeOK
<1>2. Identified /\ Loops /\ Whole /\ OwnedOnly
  BY DEF Identified, Loops, Whole, Unfit, Unkeyed, OwnedOnly
<1>3. InTurn
  BY DEF InTurn
<1>. QED
  BY <1>1, <1>2, <1>3 DEF NodeInv

\* Each step of a start, of the user or of a fault keeps the invariant.
LEMMA NodeStep == NodeInv /\ [Next]_vars => NodeInv'
<1> SUFFICES ASSUME NodeInv, [Next]_vars PROVE NodeInv'
  OBVIOUS
<1>. USE NodeAssumption
     DEF NodeInv, TypeOK, Identified, Loops, Whole, Unfit, Unkeyed, InTurn, OwnedOnly,
         Readable, Starts, None, Busy, Goto, New, StopNode, dartVars, diskVars, liveVars
<1>1. ASSUME Boot PROVE NodeInv'
  BY <1>1 DEF Boot
<1>2. ASSUME NEW s \in Settings, Apply(s) PROVE NodeInv'
  BY <1>2 DEF Apply, MayApply, Quiet
<1>3. ASSUME NEW n \in Starts, StopServices(n) PROVE NodeInv'
  <2>. USE <1>3 DEF StopServices
  <2>1. TypeOK'
    <3>1. at' \in [Starts -> Busy \cup {"unused", "done", "unfit", "failed", "dead"}]
      OBVIOUS
    <3>2. told' \subseteq Starts /\ node' = None
      OBVIOUS
    <3>. QED
      BY <3>1, <3>2
  <2>2. Identified'
    OBVIOUS
  <2>3. Loops'
    OBVIOUS
  <2>4. InTurn' /\ Whole'
    OBVIOUS
  <2>5. OwnedOnly'
    OBVIOUS
  <2>. QED
    BY <2>1, <2>2, <2>3, <2>4, <2>5
<1>4. ASSUME NEW n \in Starts, Begin(n) PROVE NodeInv'
  <2>. USE <1>4 DEF Begin
  <2>1. TypeOK'
    <3>1. /\ at' \in [Starts -> Busy \cup {"unused", "done", "unfit", "failed", "dead"}]
          /\ config' \in [Starts -> Settings]
      OBVIOUS
    <3>2. told' \subseteq Starts /\ node' = None
      OBVIOUS
    <3>. QED
      BY <3>1, <3>2
  <2>2. Identified'
    OBVIOUS
  <2>3. Loops'
    OBVIOUS
  <2>4. InTurn' /\ Whole'
    OBVIOUS
  <2>5. OwnedOnly'
    OBVIOUS
  <2>. QED
    BY <2>1, <2>2, <2>3, <2>4, <2>5
<1>5. ASSUME NEW n \in Starts, LoadIdentity(n) PROVE NodeInv'
  <2>. USE <1>5 DEF LoadIdentity, Saved
  <2>1. /\ at[n] = "identity" /\ cert # None
        /\ at' = [at EXCEPT ![n] = IF key = cert THEN "trust" ELSE "unfit"]
    OBVIOUS
  <2>2. TypeOK' /\ Identified'
    BY <2>1
  <2>3. Loops' /\ InTurn' /\ OwnedOnly'
    BY <2>1
  <2>4. Whole'
    <3>1. key # cert => torn
      BY <2>1
    <3>. QED
      BY <2>1, <3>1
  <2>. QED
    BY <2>2, <2>3, <2>4
<1>6. ASSUME NEW n \in Starts, WriteCert(n) PROVE NodeInv'
  <2>. USE <1>6 DEF WriteCert, Saved
  <2>1. cert = None /\ cert' = n /\ at' = [at EXCEPT ![n] = "cert"]
    OBVIOUS
  <2>2. TypeOK' /\ Identified'
    BY <2>1
  <2>3. Loops' /\ Whole'
    BY <2>1
  <2>4. InTurn' /\ OwnedOnly'
    BY <2>1
  <2>. QED
    BY <2>2, <2>3, <2>4
<1>7. ASSUME NEW n \in Starts, WriteKey(n) PROVE NodeInv'
  BY <1>7 DEF WriteKey
<1>8. ASSUME NEW n \in Starts, Listen(n) PROVE NodeInv'
  BY <1>8 DEF Listen
<1>9. ASSUME NEW n \in Starts, Discover(n) PROVE NodeInv'
  BY <1>9 DEF Discover
<1>10. ASSUME NEW n \in Starts, IoFails(n) PROVE NodeInv'
  <2>. USE <1>10 DEF IoFails, Saved
  <2>1. /\ at[n] \in {"identity", "cert", "trust", "listening", "discovering"}
        /\ at' = [at EXCEPT ![n] = "failed"]
        /\ cert' \in {cert, n} /\ (cert' # cert => at[n] = "identity" /\ cert = None)
        /\ torn' \in BOOLEAN
    OBVIOUS
  <2>2. TypeOK'
    BY <2>1
  <2>3. Identified'
    BY <2>1
  <2>4. Loops' /\ Whole'
    BY <2>1
  <2>5. InTurn' /\ OwnedOnly'
    BY <2>1
  <2>. QED
    BY <2>2, <2>3, <2>4, <2>5
<1>11. ASSUME NEW n \in Starts, Publish(n) PROVE NodeInv'
  BY <1>11 DEF Publish
<1>12. ASSUME NEW n \in Starts, LoopEnds(n) PROVE NodeInv'
  BY <1>12 DEF LoopEnds
<1>13. ASSUME NEW left \in Settings \cup {Damaged}, Crash(left) PROVE NodeInv'
  <2>. USE <1>13 DEF Crash
  <2>1. TypeOK'
    <3>1. at' \in [Starts -> Busy \cup {"unused", "done", "unfit", "failed", "dead"}]
      OBVIOUS
    <3>2. up' \in BOOLEAN /\ torn' \in BOOLEAN
      OBVIOUS
    <3>. QED
      BY <3>1, <3>2
  <2>2. Identified'
    OBVIOUS
  <2>3. Loops'
    OBVIOUS
  <2>4. InTurn' /\ OwnedOnly'
    OBVIOUS
  <2>5. Whole'
    <3>1. /\ UNCHANGED <<cert, key, config>>
          /\ torn' = (torn \/ \E n \in Starts : at[n] = "cert")
          /\ \A n \in Starts : at'[n] \in {"unused", "dead"}
      OBVIOUS
    <3>2. cert # None /\ key # cert => torn'
      BY <3>1
    <3>. QED
      BY ONLY <3>1, <3>2 DEF Whole, Unfit, Unkeyed, Busy
  <2>. QED
    BY <2>1, <2>2, <2>3, <2>4, <2>5
<1>14. ASSUME NEW s \in Settings, ApplyFails(s) PROVE NodeInv'
  BY <1>14 DEF ApplyFails, MayApply, Quiet
<1>15. ASSUME NEW n \in Starts, OpenTrust(n) PROVE NodeInv'
  BY <1>15 DEF OpenTrust
<1>16. CASE UNCHANGED vars
  BY <1>16 DEF vars
<1>. QED
  BY <1>1, <1>2, <1>3, <1>4, <1>5, <1>6, <1>7, <1>8, <1>9, <1>10, <1>11, <1>12,
     <1>13, <1>14, <1>15, <1>16 DEF Next, StartStep, CrashInApply

LEMMA NodeInvAlways == Spec => []NodeInv
  BY NodeInit, NodeStep, PTL DEF Spec

-----------------------------------------------------------------------------
\* Every variable of the module keeps its type.
THEOREM NodeTypeCorrect == Spec => []TypeOK
<1>1. NodeInv => TypeOK
  BY DEF NodeInv
<1>. QED
  BY <1>1, NodeInvAlways, PTL

\* A device keeps its fingerprint through every restart, also when starts overlap, and
\* errors and crashes come while the identity is written.
THEOREM KeepsFingerprintAlways == Spec => []KeepsFingerprint
<1>1. NodeInv => KeepsFingerprint
  <2> SUFFICES ASSUME NodeInv PROVE Cardinality(shown) <= 1
    BY DEF KeepsFingerprint
  <2>1. IsFiniteSet({cert}) /\ Cardinality({cert}) = 1
    BY FS_Singleton
  <2>2. shown \subseteq {cert}
    BY DEF NodeInv, Identified
  <2>. QED
    BY <2>1, <2>2, FS_Subset
<1>. QED
  BY <1>1, NodeInvAlways, PTL

\* What NODE holds serves; where calls do not overlap, nothing else is left running but
\* loops of starts that failed, whenever the app crashes.
THEOREM OwnedOnlyAlways == Spec => []OwnedOnly
<1>1. NodeInv => OwnedOnly
  BY DEF NodeInv
<1>. QED
  BY <1>1, NodeInvAlways, PTL

\* Where calls do not overlap, what runs is what settings.json says, although it may be
\* written in vain.
THEOREM NewestSettingsAlways == Spec => []NewestSettings
<1>1. NodeInv => NewestSettings
  BY DEF NodeInv, InTurn, TypeOK, NewestSettings, Quiet, Busy
<1>. QED
  BY <1>1, NodeInvAlways, PTL

\* A start that neither succeeded nor met an error of its own had a folder that cannot
\* be created, or an identity an error or a crash tore (what StartSucceeds says of the
\* way it ends; that it ends is for TLC).
THEOREM UnfitForAReason == Spec => [](\A n \in Starts : Unfit(n))
<1>1. NodeInv => \A n \in Starts : Unfit(n)
  BY DEF NodeInv, Whole
<1>. QED
  BY <1>1, NodeInvAlways, PTL
=============================================================================
