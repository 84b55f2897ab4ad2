------------------------------ MODULE SavedFiles ------------------------------
(***************************************************************************)
(* The save folder (save_body and resolve_collision of                     *)
(* app/rust/src/core/transfer/recv.rs).                                    *)
(*                                                                         *)
(* A path is the name a file was sent under, followed by the number that   *)
(* was added to it, so the names a.txt, a (1).txt and a (1) (1).txt are    *)
(* <<"a">>, <<"a", 1>> and <<"a", 1, 1>>.  The content of a file is the    *)
(* set of those who have written to it since it was created.               *)
(*                                                                         *)
(* resolve_collision looks for a name and does not take it: two handlers   *)
(* may find the same one.  Those that did are in raced, a history variable *)
(* (no action depends on it).                                              *)
(***************************************************************************)
EXTENDS Naturals, Sequences, FiniteSets

CONSTANTS
  Uploads,    \* uploads that pass handle_upload's checks
  NameOf,     \* the name each comes under
  Kept,       \* paths that hold a file of the user at the start
  User,       \* who wrote those
  Droppers    \* uploads whose connection may break: the handler is dropped

Names == {NameOf[u] : u \in Uploads}
Numbers == 1 .. Cardinality(Uploads) + Cardinality(Kept)
Paths == Names \cup Kept \cup {Append(name, n) : name \in Names, n \in Numbers}

ASSUME SavedFilesAssumption ==
  /\ IsFiniteSet(Uploads) /\ IsFiniteSet(Kept)
  /\ User \notin Uploads
  /\ NameOf \in [Uploads -> Paths]
  /\ Droppers \subseteq Uploads

VARIABLES
  dir,      \* who wrote the file at each path; {} if there is none
  at,       \* where each handler is
  target,   \* the path it has chosen
  raced     \* history: those that chose a path while another was using it

vars == <<dir, at, target, raced>>

TypeOK ==
  /\ dir \in [Paths -> SUBSET (Uploads \cup {User})]
  /\ at \in [Uploads -> {"begun", "resolved", "creating", "writing", "removing",
                         "unlinking", "saved", "failed", "dropped", "taken"}]
  /\ target \in [Uploads -> Paths]
  /\ raced \subseteq Uploads

Init ==
  /\ dir = [p \in Paths |-> IF p \in Kept THEN {User} ELSE {}]
  /\ at = [u \in Uploads |-> "begun"]
  /\ target = NameOf
  /\ raced = {}

\* A handler goes on, and this becomes of the folder.
Step(u, from, to, folder) ==
  /\ at[u] = from
  /\ at' = [at EXCEPT ![u] = to]
  /\ dir' = folder

Created(u) == [dir EXCEPT ![target[u]] = @ \cup {u}]
Removed(u) == [dir EXCEPT ![target[u]] = {}]

-----------------------------------------------------------------------------
\* The name itself, or the name with the first number that is free.
FirstFree(name, p) ==
  /\ dir[p] = {}
  /\ \/ p = name
     \/ /\ dir[name] # {}
        /\ \E n \in Numbers : /\ p = Append(name, n)
                              /\ \A m \in 1 .. n - 1 : dir[Append(name, m)] # {}

Using(u, p) ==
  /\ target[u] = p
  /\ at[u] \in {"resolved", "creating", "writing", "removing", "unlinking", "saved"}

\* What u has found is its own, unless another uses it.
Chooses(u, p) ==
  LET others == {v \in Uploads : Using(v, p)}
  IN  /\ target' = [target EXCEPT ![u] = p]
      /\ raced' = IF others = {} THEN raced ELSE raced \cup others \cup {u}

\* Mutant of Resolve: the numbered name is not looked up.
ResolveOnce(u) ==
  /\ Step(u, "begun", "resolved", dir)
  /\ LET name == NameOf[u]
     IN  /\ target' = [target EXCEPT ![u] = IF dir[name] = {} THEN name ELSE Append(name, 1)]
         /\ raced' = raced

\* Mutant of Resolve: the numbers start at 0.
ResolveFromZero(u) ==
  /\ Step(u, "begun", "resolved", dir)
  /\ LET name == NameOf[u]
     IN  Chooses(u, IF dir[name] = {} THEN name ELSE Append(name, 0))

\* resolve_collision looks without creating.
Resolve(u) ==
  /\ Step(u, "begun", "resolved", dir)
  /\ \E p \in Paths : FirstFree(NameOf[u], p) /\ Chooses(u, p)

\* File::create truncates a file that has come to be there in the meantime.
Create(u) == Step(u, "resolved", "writing", Created(u)) /\ UNCHANGED <<target, raced>>

CreateFails(u) == Step(u, "resolved", "failed", dir) /\ UNCHANGED <<target, raced>>

\* All bytes are written, as many as announced: the file is reported.
Saved(u) == Step(u, "writing", "saved", dir) /\ UNCHANGED <<target, raced>>

\* Mutant of Breaks: the error is returned at once.
BreaksOnly(u) == Step(u, "writing", "failed", dir) /\ UNCHANGED <<target, raced>>

\* A write fails, the body breaks off, or the size is not the announced one.
Breaks(u) == Step(u, "writing", "removing", dir) /\ UNCHANGED <<target, raced>>

\* Mutant of Remove: the file of the announced name is removed.
RemoveNamed(u) ==
  Step(u, "removing", "failed", [dir EXCEPT ![NameOf[u]] = {}]) /\ UNCHANGED <<target, raced>>

\* (That remove_file itself fails, which nobody looks at, is left out.)
Remove(u) == Step(u, "removing", "failed", Removed(u)) /\ UNCHANGED <<target, raced>>

\* hyper drops the handler with its connection, at any of its awaits.  A create or a
\* remove that was handed to the blocking pool takes place later all the same.
Dropped(u) ==
  /\ u \in Droppers
  /\ \/ \E to \in {"dropped", "creating"} : Step(u, "resolved", to, dir)
     \/ Step(u, "writing", "dropped", dir)
     \/ \E to \in {"dropped", "unlinking"} : Step(u, "removing", to, dir)
  /\ UNCHANGED <<target, raced>>

LateCreate(u) ==
  /\ \E folder \in {dir, Created(u)} : Step(u, "creating", "dropped", folder)
  /\ UNCHANGED <<target, raced>>

LateRemove(u) == Step(u, "unlinking", "dropped", Removed(u)) /\ UNCHANGED <<target, raced>>

\* The user moves a received file away; its name is free again.
Take(u) == Step(u, "saved", "taken", Removed(u)) /\ UNCHANGED <<target, raced>>

Next ==
  \E u \in Uploads :
    \/ Resolve(u) \/ Create(u) \/ CreateFails(u) \/ Saved(u)
    \/ Breaks(u) \/ Remove(u) \/ Take(u)
    \/ Dropped(u) \/ LateCreate(u) \/ LateRemove(u)

Spec == Init /\ [][Next]_vars

-----------------------------------------------------------------------------
\* "No overwriting": the user's own files stay, and no two uploads write to one file,
\* unless each chose its name beside one that was using it (resolve_collision).
NoOverwrite ==
  /\ \A p \in Paths : \A x, y \in dir[p] : x = y \/ {x, y} \subseteq raced
  /\ \A p \in Kept : dir[p] = {User}

\* A file that was reported, of an upload that shared its name with none, is there and
\* holds what was sent and nothing else, whatever becomes of the uploads beside it: of
\* those that break, that are dropped, and that race for another name.
KeptWhole == \A u \in Uploads \ raced : at[u] = "saved" => dir[target[u]] = {u}

\* "No damaged file is left behind in silence": unless its handler was dropped,
\* nothing of an upload that failed remains under a name like a received file's.
NoRemains ==
  \A u \in Uploads : at[u] = "failed" => \A p \in Paths : u \notin dir[p]
=============================================================================
