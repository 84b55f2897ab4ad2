-------------------------------- MODULE Node --------------------------------
(***************************************************************************)
(* The node of the app: node_start and node_stop of                        *)
(* app/rust/src/api/easy_send.rs with Identity::load_or_create             *)
(* (core/security.rs), Receiver::start and stop (core/transfer/recv.rs),   *)
(* as AppController.start and applySettings call them                      *)
(* (app/lib/src/app_controller.dart), through crashes of the app.          *)
(*                                                                         *)
(* A start is numbered; it stands for its Receiver (an accept loop) and    *)
(* its Discoverer, which begin and stop together.  NODE holds the start    *)
(* that node_stop would stop.                                              *)
(*                                                                         *)
(* Any file or socket may fail a start, and settings.json applySettings.   *)
(* cert.pem and key.pem are written one after the other, and one that is   *)
(* only partly written is as useless as one that is missing: the identity  *)
(* is torn by an error or a crash between the first write and the last.    *)
(***************************************************************************)
EXTENDS Naturals, FiniteSets

CONSTANTS
  Settings,      \* what the user may set (alias and folder)
  BadSettings,   \* those whose folder cannot be created
  Default,       \* the settings of an app that has no settings.json
  Damaged,       \* a settings.json that does not parse
  MaxStarts      \* bound: calls of node_start

ASSUME NodeAssumption ==
  /\ BadSettings \subseteq Settings
  /\ Default \in Settings
  /\ Damaged \notin Settings
  /\ MaxStarts \in Nat

Starts == 1 .. MaxStarts
None == 0

VARIABLES
  up,         \* whether the app's process lives
  file,       \* settings.json
  settings,   \* AppController._settings
  last,       \* the number of starts so far
  at,         \* where each start is
  config,     \* the settings each was called with
  cert, key,  \* the start that wrote cert.pem and key.pem
  serving,    \* starts whose loops run
  told,       \* starts whose loops were told to stop
  node,       \* NODE
  shown,      \* fingerprints peers have seen
  torn,       \* history: an error or a crash cut off the writing of the identity
  overlapping \* whether calls of applySettings overlap in this run (never changes)

dartVars == <<up, file, settings>>
diskVars == <<cert, key, torn>>
liveVars == <<serving, told, node>>
vars == <<dartVars, diskVars, liveVars, last, at, config, shown, overlapping>>

Busy == {"stopping", "starting", "identity", "cert", "trust", "listening",
         "discovering", "publishing"}

TypeOK ==
  /\ up \in BOOLEAN /\ torn \in BOOLEAN
  /\ file \in Settings \cup {Damaged}
  /\ settings \in Settings
  /\ last \in 0 .. MaxStarts
  /\ at \in [Starts -> Busy \cup {"unused", "done", "unfit", "failed", "dead"}]
  /\ config \in [Starts -> Settings]
  /\ {cert, key, node} \subseteq Starts \cup {None}
  /\ told \subseteq Starts /\ serving \subseteq Starts
  /\ shown \subseteq Starts
  /\ overlapping \in BOOLEAN

Init ==
  /\ up = FALSE /\ torn = FALSE
  /\ file = Default /\ settings = Default
  /\ last = 0
  /\ at = [n \in Starts |-> "unused"]
  /\ config = [n \in Starts |-> Default]
  /\ cert = None /\ key = None /\ node = None
  /\ serving = {} /\ told = {} /\ shown = {}
  /\ overlapping \in BOOLEAN

Goto(n, place) == at' = [at EXCEPT ![n] = place]
Quiet == \A n \in Starts : at[n] \notin Busy

\* The next call of node_start.
New(place) ==
  /\ last < MaxStarts
  /\ last' = last + 1
  /\ Goto(last', place)

-----------------------------------------------------------------------------
(* AppController *)

\* Mutant of Readable: the error is not noticed.
ReadableAlways == TRUE

Readable == file # Damaged

\* AppController.start; one that finds a damaged file throws.
Boot ==
  /\ ~up
  /\ up' = TRUE
  /\ Readable
  /\ settings' = file
  /\ New("starting")
  /\ UNCHANGED <<file, diskVars, liveVars, config, shown, overlapping>>

\* applySettings is called by a UI that the first start brought up.
MayApply ==
  /\ up
  /\ \E n \in Starts : at[n] = "done"
  /\ Quiet \/ overlapping

Apply(s) ==
  /\ MayApply
  /\ settings' = s
  /\ file' = s
  /\ New("stopping")
  /\ UNCHANGED <<up, diskVars, liveVars, config, shown, overlapping>>

\* The file cannot be written, or not all of it: what runs goes on, though _settings
\* has changed.
ApplyFails(s) ==
  /\ MayApply
  /\ settings' = s
  /\ file' \in {file, Damaged}
  /\ UNCHANGED <<up, diskVars, liveVars, last, at, config, shown, overlapping>>

\* Mutants of StopNode: nothing is stopped; NODE is only emptied.
StopNothing == UNCHANGED liveVars
StopTakes == node' = None /\ UNCHANGED <<serving, told>>

\* node_stop: take what NODE holds, and tell its loops to stop.
StopNode ==
  /\ node' = None
  /\ told' = told \cup ({node} \ {None})
  /\ UNCHANGED serving

StopServices(n) ==
  /\ at[n] = "stopping"
  /\ StopNode
  /\ Goto(n, "starting")
  /\ UNCHANGED <<dartVars, diskVars, last, config, shown, overlapping>>

-----------------------------------------------------------------------------
(* node_start *)

\* _startServices reads the settings of this moment; node_start stops what runs
\* and creates the folder.
Begin(n) ==
  /\ at[n] = "starting"
  /\ StopNode
  /\ config' = [config EXCEPT ![n] = settings]
  /\ Goto(n, IF settings \in BadSettings THEN "unfit" ELSE "identity")
  /\ UNCHANGED <<dartVars, diskVars, last, shown, overlapping>>

\* Mutant of Saved: the files are looked for in the wrong place.
SavedNowhere == FALSE

Saved == cert # None

\* An identity that was saved is used if both files are there.
LoadIdentity(n) ==
  /\ at[n] = "identity"
  /\ Saved
  /\ Goto(n, IF key = cert THEN "trust" ELSE "unfit")
  /\ UNCHANGED <<dartVars, diskVars, liveVars, last, config, shown, overlapping>>

\* Otherwise one is made.
WriteCert(n) ==
  /\ at[n] = "identity"
  /\ ~Saved
  /\ cert' = n
  /\ Goto(n, "cert")
  /\ UNCHANGED <<dartVars, key, torn, liveVars, last, config, shown, overlapping>>

\* Mutant of WriteKey: the key stays in memory.
WriteKeyNot(n) ==
  /\ at[n] = "cert"
  /\ Goto(n, "trust")
  /\ UNCHANGED <<dartVars, diskVars, liveVars, last, config, shown, overlapping>>

WriteKey(n) ==
  /\ at[n] = "cert"
  /\ key' = n
  /\ Goto(n, "trust")
  /\ UNCHANGED <<dartVars, cert, torn, liveVars, last, config, shown, overlapping>>

\* TrustStore::open; what it reads is in TrustStore.
OpenTrust(n) ==
  /\ at[n] = "trust"
  /\ Goto(n, "listening")
  /\ UNCHANGED <<dartVars, diskVars, liveVars, last, config, shown, overlapping>>

\* Receiver::start: the service port, or any other, and the accept loop.
Listen(n) ==
  /\ at[n] = "listening"
  /\ serving' = serving \cup {n}
  /\ Goto(n, "discovering")
  /\ UNCHANGED <<dartVars, diskVars, told, node, last, config, shown, overlapping>>

Discover(n) ==
  /\ at[n] = "discovering"
  /\ Goto(n, "publishing")
  /\ UNCHANGED <<dartVars, diskVars, liveVars, last, config, shown, overlapping>>

\* A folder, the identity or the trust list cannot be read or written, neither port can
\* be bound, or Discoverer::start fails.  What was written of an identity stays; and
\* dropping the Receiver does not stop its loop.
IoFails(n) ==
  /\ \/ /\ at[n] \in {"identity", "trust", "listening", "discovering"}
        /\ UNCHANGED <<cert, torn>>
     \/ /\ at[n] = "identity" /\ ~Saved
        /\ cert' = n /\ torn' = TRUE
     \/ /\ at[n] = "cert"
        /\ torn' = TRUE /\ UNCHANGED cert
  /\ Goto(n, "failed")
  /\ UNCHANGED <<dartVars, key, liveVars, last, config, shown, overlapping>>

\* Whatever NODE held is dropped.
Publish(n) ==
  /\ at[n] = "publishing"
  /\ node' = n
  /\ shown' = shown \cup {cert}
  /\ Goto(n, "done")
  /\ UNCHANGED <<dartVars, diskVars, serving, told, last, config, overlapping>>

\* The runtime drops an aborted loop, some time later.
LoopEnds(n) ==
  /\ n \in told \cap serving
  /\ serving' = serving \ {n}
  /\ UNCHANGED <<dartVars, diskVars, told, node, last, at, config, shown, overlapping>>

-----------------------------------------------------------------------------
\* The app is closed or killed, and leaves a settings.json.
Crash(left) ==
  /\ up
  /\ up' = FALSE
  /\ file' = left
  /\ torn' = (torn \/ \E n \in Starts : at[n] = "cert")
  /\ at' = [n \in Starts |-> IF n <= last THEN "dead" ELSE at[n]]
  /\ serving' = {} /\ told' = {} /\ node' = None
  /\ UNCHANGED <<settings, cert, key, last, config, shown, overlapping>>

\* It is killed while applySettings overwrites the file.
CrashInApply == MayApply /\ Crash(Damaged)

StartStep(n) ==
  \/ StopServices(n) \/ Begin(n) \/ LoadIdentity(n) \/ WriteCert(n) \/ WriteKey(n)
  \/ OpenTrust(n) \/ Listen(n) \/ Discover(n) \/ Publish(n)

Next ==
  \/ Boot
  \/ \E s \in Settings : Apply(s) \/ ApplyFails(s)
  \/ \E n \in Starts : StartStep(n) \/ IoFails(n) \/ LoopEnds(n)
  \/ Crash(file) \/ CrashInApply

\* A call that was made goes on; nothing else is owed.
Spec == Init /\ [][Next]_vars /\ \A n \in Starts : WF_vars(StartStep(n))

-----------------------------------------------------------------------------
\* The node the app shows serves: nobody told its loops to stop.  And where settings
\* are applied one after the other, the only other loops that nobody told to stop belong
\* to a start under way, or to one that failed (whose loops nobody can stop any more:
\* node_start drops the Receiver when Discoverer::start fails).
OwnedOnly ==
  /\ node # None => node \in serving \ told
  /\ ~overlapping =>
       \A n \in serving \ told : n = node \/ at[n] \in Busy \/ at[n] = "failed"

\* Peers know a device by its fingerprint: it is the same after every restart.
KeepsFingerprint == Cardinality(shown) <= 1

\* What runs is what settings.json says, so that a restart comes up the same, and what
\* the user set last if that was saved (applySettings changes _settings before it
\* writes, and stops and starts nothing when the write fails).
NewestSettings ==
  ~overlapping /\ Quiet /\ node # None /\ Readable => config[node] = file

\* A start that meets no error of its own succeeds, through any crashes and errors
\* before it, unless its folder cannot be created or one of those tore the identity.
StartSucceeds ==
  \A n \in Starts :
    at[n] = "starting" ~>
      \/ at[n] \in {"done", "dead", "failed"}
      \/ at[n] = "unfit" /\ (torn \/ config[n] \in BadSettings)
=============================================================================
