----------------------------- MODULE TrustStore -----------------------------
(***************************************************************************)
(* Who is trusted: the TrustStore of app/rust/src/core/security.rs in      *)
(* memory and in trusted.json, and the list the app keeps of it            *)
(* (AppController.trusted in app/lib/src/app_controller.dart).             *)
(*                                                                         *)
(* Every node_start and every run of the command line opens a store of its *)
(* own on the same file.  A store is read once, when it is opened, and     *)
(* writes its whole map back after a change.  Its operations run under its *)
(* mutex; nothing keeps two stores apart.                                  *)
(*                                                                         *)
(* fs::write truncates and then writes, and either may fail; a process may *)
(* die between the two.  A file that was truncated does not parse.  (One   *)
(* that is missing is read as one that lists nobody.)                      *)
(***************************************************************************)
EXTENDS Naturals, FiniteSets

CONSTANTS
  Peers,        \* fingerprints
  MaxStores,    \* bound: stores opened
  MaxTime,      \* bound: devices entered; the n-th is entered at time n
  MaxCalls,     \* bound: calls of trust_list under way
  Damaged, Unsure

ASSUME TrustStoreAssumption ==
  /\ {MaxStores, MaxTime, MaxCalls} \subseteq Nat
  /\ Damaged \notin [Peers -> 0 .. MaxTime]
  /\ Unsure \notin 0 .. MaxTime

Overlaps == {"nothing", "stores", "dialogs", "hurry"}
Never == 0
Stores == 1 .. MaxStores
Maps == [Peers -> 0 .. MaxTime]     \* trusted_at of each device, or Never
Nobody == [p \in Peers |-> Never]

VARIABLES
  file,       \* trusted.json
  store,      \* the store opened last
  memory,     \* TrustStore.devices of each
  at,         \* what each store is doing
  saving,     \* <<device, who asked>> of the change it saves
  clock,
  asked,      \* <<store, device>>: the user approved, the handler has not added yet
  calls,      \* calls of trust_list that have not read the store
  answers,    \* lists on their way back to the app
  cache,      \* AppController.trusted
  settled,    \* history: since when each device is trusted (Never: it is not), as the
              \* last save of it left it; Unsure if that failed or was cut off
  lost,       \* history: devices that were trusted when a damaged file was opened
  mixing      \* what overlaps in this run, if anything (never changes):
              \*   "stores": a store goes on after the next one was opened,
              \*   "dialogs": requests are approved,
              \*   "hurry": the user makes a change before the last one shows

fileVars  == <<file, store, memory, at, saving, clock, settled, lost>>
cacheVars == <<asked, calls, answers, cache>>
vars == <<fileVars, cacheVars, mixing>>

TypeOK ==
  /\ file \in Maps \cup {Damaged}
  /\ store \in 0 .. MaxStores
  /\ memory \in [Stores -> Maps]
  /\ at \in [Stores -> {"unopened", "open", "changed", "truncated", "dead"}]
  /\ saving \in [Stores -> Peers \X {"user", "dialog"} \cup {<<>>}]
  /\ clock \in 0 .. MaxTime
  /\ asked \subseteq Stores \X Peers
  /\ calls \in 0 .. MaxCalls
  /\ answers \subseteq SUBSET Peers
  /\ cache \subseteq Peers
  /\ settled \in [Peers -> 0 .. MaxTime \cup {Unsure}]
  /\ lost \subseteq Peers
  /\ mixing \in Overlaps

Init ==
  /\ file = Nobody
  /\ store = 0
  /\ memory = [k \in Stores |-> Nobody]
  /\ at = [k \in Stores |-> "unopened"]
  /\ saving = [k \in Stores |-> <<>>]
  /\ clock = 0
  /\ asked = {} /\ calls = 0 /\ answers = {} /\ cache = {}
  /\ settled = [p \in Peers |-> Never]
  /\ lost = {}
  /\ mixing \in Overlaps

Usable(k) == k \in Stores /\ at[k] = "open" /\ (k = store \/ mixing = "stores")
Busy(k)   == at[k] \in {"changed", "truncated"}
Finished(k) == ~Busy(k) /\ \A p \in Peers : <<k, p>> \notin asked
Known(k)  == {p \in Peers : memory[k][p] # Never}

Goto(k, place) == at' = [at EXCEPT ![k] = place]

Shown == calls = 0 /\ answers = {}
MayChange == Shown \/ mixing = "hurry"

\* _refreshTrusted calls trust_list.
Refresh == calls + Cardinality(answers) < MaxCalls /\ calls' = calls + 1

-----------------------------------------------------------------------------
(* TrustStore::open *)

\* Mutants of Read: the error is not replaced; any file is replaced.
ReadRaw(f) == f
ReadNone(f) == Nobody

\* A file that does not parse is an empty list ("unwrap_or_default").
Read(f) == IF f = Damaged THEN Nobody ELSE f

\* node_start, or another process.  An open that cannot read the file leaves no store.
Open ==
  /\ store < MaxStores
  /\ mixing = "stores" \/ \A k \in 1 .. store : Finished(k)
  /\ store' = store + 1
  /\ memory' = [memory EXCEPT ![store'] = Read(file)]
  /\ Goto(store', "open")
  /\ lost' = IF file = Damaged THEN lost \cup {p \in Peers : settled[p] \notin {Never, Unsure}}
                                ELSE lost
  /\ Refresh
  /\ UNCHANGED <<file, saving, clock, settled, asked, answers, cache, mixing>>

-----------------------------------------------------------------------------
(* add, remove and save *)

\* The change is made in memory first, then the file is written.
Change(k, p, who, time) ==
  /\ memory' = [memory EXCEPT ![k][p] = time]
  /\ saving' = [saving EXCEPT ![k] = <<p, who>>]
  /\ Goto(k, "changed")

\* Mutant of NeedsAdding: a known device is entered again.
NeedsAddingAlways(k, p) == TRUE

NeedsAdding(k, p) == memory[k][p] = Never

\* handle_prepare adds a peer whose request was approved.
AddApproved(k, p) ==
  /\ Usable(k)
  /\ <<k, p>> \in asked
  /\ asked' = asked \ {<<k, p>>}
  /\ IF NeedsAdding(k, p)
     THEN /\ clock < MaxTime
          /\ clock' = clock + 1
          /\ Change(k, p, "dialog", clock')
     ELSE UNCHANGED <<memory, saving, at, clock>>
  /\ UNCHANGED <<file, store, settled, lost, calls, answers, cache, mixing>>

\* The handler timed out, or its connection was dropped: the answer adds nobody.
AnswerTooLate(k, p) ==
  /\ <<k, p>> \in asked
  /\ asked' = asked \ {<<k, p>>}
  /\ UNCHANGED <<fileVars, calls, answers, cache, mixing>>

\* trust_add: the user sends to a device, and confirms it.
Add(k, p) ==
  /\ Usable(k)
  /\ MayChange
  /\ NeedsAdding(k, p)
  /\ clock < MaxTime
  /\ clock' = clock + 1
  /\ Change(k, p, "user", clock')
  /\ UNCHANGED <<file, store, settled, lost, cacheVars, mixing>>

\* trust_remove: the user forgets a device.
Remove(k, p) ==
  /\ Usable(k)
  /\ MayChange
  /\ p \in Known(k)
  /\ Change(k, p, "user", Never)
  /\ UNCHANGED <<file, store, clock, settled, lost, cacheVars, mixing>>

Truncate(k) ==
  /\ at[k] = "changed"
  /\ file' = Damaged
  /\ Goto(k, "truncated")
  /\ UNCHANGED <<store, memory, saving, clock, settled, lost, cacheVars, mixing>>

\* Since when a device is trusted after all.
Word(p) == IF p \in lost THEN Never ELSE settled[p]

\* A save settles the change it is for, the time being that of the first approval, and
\* whatever had failed before, as it writes the whole map.
Settled(k) ==
  [p \in Peers |->
     IF \/ p = saving[k][1] /\ (p \notin Known(k) \/ Word(p) = Never)
        \/ settled[p] = Unsure
     THEN memory[k][p] ELSE settled[p]]

\* Mutant of RefreshAfter: the app keeps the list it has.
RefreshAfterNot(k) == UNCHANGED calls

\* addTrusted and removeTrusted read the list again once the call has returned.
RefreshAfter(k) == IF saving[k][2] = "user" THEN Refresh ELSE UNCHANGED calls

Write(k) ==
  /\ at[k] = "truncated"
  /\ file' = memory[k]
  /\ settled' = Settled(k)
  /\ lost' = {p \in lost : p # saving[k][1] /\ settled[p] # Unsure}
  /\ Goto(k, "open")
  /\ RefreshAfter(k)
  /\ UNCHANGED <<store, memory, saving, clock, asked, answers, cache, mixing>>

\* The folder or the file cannot be written, or not all of it; the change stays in
\* memory.  trust_add and trust_remove fail; handle_prepare takes no notice.
SaveFails(k) ==
  /\ Busy(k)
  /\ settled' = [settled EXCEPT ![saving[k][1]] = Unsure]
  /\ Goto(k, "open")
  /\ UNCHANGED <<file, store, memory, saving, clock, lost, cacheVars, mixing>>

\* The process dies, in the middle of a save or not.
Crash ==
  /\ store > 0 /\ at[store] # "dead"
  /\ at' = [k \in Stores |-> IF k <= store THEN "dead" ELSE at[k]]
  /\ settled' = [p \in Peers |-> IF \E k \in Stores : Busy(k) /\ saving[k][1] = p
                                 THEN Unsure ELSE settled[p]]
  /\ asked' = {} /\ calls' = 0 /\ answers' = {} /\ cache' = {}
  /\ UNCHANGED <<file, store, memory, saving, clock, lost, mixing>>

-----------------------------------------------------------------------------
(* AppController.trusted *)

\* _onApproval: the dialog's answer.  The list is asked for before the answer goes
\* back to the handler that will add the device.
Approve(p) ==
  /\ mixing = "dialogs"
  /\ Usable(store)
  /\ asked' = asked \cup {<<store, p>>}
  /\ Refresh
  /\ UNCHANGED <<fileVars, answers, cache, mixing>>

ReadList ==
  /\ calls > 0
  /\ Usable(store)
  /\ calls' = calls - 1
  /\ answers' = answers \cup {Known(store)}
  /\ UNCHANGED <<fileVars, asked, cache, mixing>>

ShowList(list) ==
  /\ list \in answers
  /\ answers' = answers \ {list}
  /\ cache' = list
  /\ UNCHANGED <<fileVars, asked, calls, mixing>>

Next ==
  \/ Open \/ Crash \/ ReadList
  \/ \E k \in Stores : Truncate(k) \/ Write(k) \/ SaveFails(k)
  \/ \E k \in Stores, p \in Peers : 
       AddApproved(k, p) \/ AnswerTooLate(k, p) \/ Add(k, p) \/ Remove(k, p)
  \/ \E p \in Peers : Approve(p)
  \/ \E list \in SUBSET Peers : ShowList(list)

Spec == Init /\ [][Next]_vars

-----------------------------------------------------------------------------
(***************************************************************************)
(* A save writes everything back, so the change of one device may disturb  *)
(* another's.  When stores follow one another, one thing only does: a save *)
(* that is cut off, by an error or a crash, leaves trusted.json damaged.   *)
(* The store goes on and repairs it with its next save; but a store that   *)
(* is opened first takes the file for an empty list, and forgets everyone. *)
(***************************************************************************)

\* A readable file, and the store in use through every restart, list each device as its
\* last save left it: with the time of its first approval, or not, and not if it was lost.
\* A change that failed is settled by the next save of any device.  The file is damaged,
\* so that opening it would lose devices, only within a save or while some device's last
\* save has failed or was cut off and none has succeeded since (security.rs, save, open).
KeepsWord ==
  /\ mixing # "stores" =>
       \A p \in Peers : settled[p] # Unsure =>
         /\ file # Damaged => file[p] = Word(p)
         /\ Usable(store) => memory[store][p] = Word(p)
  /\ file = Damaged => \/ \E k \in Stores : at[k] = "truncated"
                       \/ \E p \in Peers : settled[p] = Unsure

\* Where the user alone changes the list, one change at a time, the app shows what
\* the store has once nothing is under way, whichever saves failed before the last
\* one that succeeded.  (After an approval it need not: the list is read again
\* before the device is entered.)
CacheFollows ==
  mixing = "nothing" /\ Shown /\ Usable(store)
    /\ (\A p \in Peers : settled[p] # Unsure)
    => cache = Known(store)
=============================================================================
