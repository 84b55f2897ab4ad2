--------------------------- MODULE SavedFilesProofs ---------------------------
(***************************************************************************)
(* For any uploads under any names: the save folder keeps the user's own   *)
(* files, and those of uploads that did not find the same name as another  *)
(* that was using it, and nothing remains of an upload that failed.        *)
(***************************************************************************)
EXTENDS SavedFiles, TLAPS

\* Bytes of an upload are only at its own path, once it has created the file and
\* unless it has removed it.
Traceable ==
  \A p \in Paths, u \in Uploads : u \in dir[p] =>
    target[u] = p /\ at[u] \in {"writing", "removing", "unlinking", "saved", "dropped"}

\* Nobody uses a path where the user has a file.
OthersKept ==
  \A p \in Kept : dir[p] = {User} /\ \A u \in Uploads : ~Using(u, p)

\* Where the user has none, nobody but uploads wrote.
Received == \A p \in Paths \ Kept : User \notin dir[p]

\* Who has raced with nobody has its path to itself, as long as it uses it and as long
\* as something of it is there.
Alone(u) ==
  /\ at[u] \in {"resolved", "creating"} => dir[target[u]] = {}
  /\ at[u] \in {"writing", "removing", "unlinking", "saved"} => dir[target[u]] = {u}
  /\ u \in dir[target[u]] => dir[target[u]] = {u}
  /\ Using(u, target[u]) \/ u \in dir[target[u]] =>
       \A v \in Uploads \ {u} : ~Using(v, target[u])

Apart == \A u \in Uploads \ raced : Alone(u)

FolderInv == TypeOK /\ Traceable /\ OthersKept /\ Received /\ Apart

-----------------------------------------------------------------------------
LEMMA FolderInit == Init => FolderInv
<1> SUFFICES ASSUME Init PROVE FolderInv
  OBVIOUS
<1>1. TypeOK
  BY SavedFilesAssumption DEF Init, TypeOK
<1>2. Traceable /\ OthersKept /\ Received /\ Apart
  BY SavedFilesAssumption DEF Init, Traceable, OthersKept, Received, Apart, Alone, Using, Paths
<1> QED
  BY <1>1, <1>2 DEF FolderInv

\* A path that was found free becomes the upload's own, or all that use it have raced.
LEMMA ChoosesStep ==
  ASSUME FolderInv, NEW u \in Uploads, Resolve(u)
  PROVE  FolderInv'
<1> USE DEF FolderInv, TypeOK, Step
<1>1. PICK p \in Paths : dir[p] = {} /\ Chooses(u, p)
  BY DEF Resolve, FirstFree
<1>2. /\ at[u] = "begun" /\ at' = [at EXCEPT ![u] = "resolved"] /\ dir' = dir
      /\ target' = [target EXCEPT ![u] = p]
  BY <1>1 DEF Resolve, Chooses
<1> DEFINE others == {v \in Uploads : Using(v, p)}
<1>3. raced' = IF others = {} THEN raced ELSE raced \cup others \cup {u}
  BY <1>1 DEF Chooses
<1>4. \A v \in Uploads \ {u}, q \in Paths : Using(v, q)' <=> Using(v, q)
  BY <1>2 DEF Using
<1>5. TypeOK'
  BY <1>2, <1>3
<1>6. Traceable'
  BY <1>2 DEF Traceable
<1>7. OthersKept' /\ Received'
  <2>1. \A q \in Kept : dir'[q] = {User} /\ q # p
    BY <1>1, <1>2 DEF OthersKept
  <2>2. ASSUME NEW q \in Kept, NEW v \in Uploads PROVE ~Using(v, q)'
    BY <1>2, <2>1 DEF OthersKept, Using
  <2> QED
    BY <1>2, <2>1, <2>2 DEF OthersKept, Received
<1>8. Apart'
  <2> SUFFICES ASSUME NEW v \in Uploads, v \notin raced' PROVE Alone(v)'
    BY DEF Apart
  <2>1. CASE v = u
    <3>1. others = {} /\ target'[v] = p
      BY <1>2, <1>3, <2>1
    <3>2. \A w \in Uploads \ {u} : ~Using(w, p)'
      BY <1>4, <3>1
    <3> QED
      BY <1>1, <1>2, <2>1, <3>1, <3>2 DEF Alone
  <2>2. CASE v # u
    <3>1. v \notin raced /\ target'[v] = target[v] /\ at'[v] = at[v] /\ target[v] \in Paths
      BY <1>2, <1>3, <2>2
    <3>2. Using(v, target[v]) \/ v \in dir[target[v]] => target[v] # p
      BY <1>1, <1>3, <3>1
    <3> QED
      BY <1>2, <2>2, <3>1, <3>2 DEF Apart, Alone, Using
  <2> QED
    BY <2>1, <2>2
<1> QED
  BY <1>5, <1>6, <1>7, <1>8

\* A file is created at the path that was chosen.
LEMMA CreatedStep ==
  ASSUME FolderInv, NEW u \in Uploads, NEW from \in {"resolved", "creating"},
         NEW to \in {"writing", "dropped"}, Step(u, from, to, Created(u)),
         UNCHANGED <<target, raced>>
  PROVE  FolderInv'
<1> DEFINE p == target[u]
<1> USE DEF FolderInv, TypeOK, Step
<1>1. /\ at[u] \in {"resolved", "creating"} /\ at' = [at EXCEPT ![u] = to]
      /\ p \in Paths /\ Using(u, p)
      /\ dir' = [dir EXCEPT ![p] = @ \cup {u}]
  BY DEF Created, Using
<1>2. \A v \in Uploads, q \in Paths : Using(v, q)' => Using(v, q)
  BY <1>1 DEF Using
<1>3. TypeOK'
  BY <1>1
<1>4. Traceable'
  BY <1>1 DEF Traceable
<1>5. OthersKept' /\ Received'
  BY <1>1, <1>2, SavedFilesAssumption DEF OthersKept, Received, Paths
<1>6. Apart'
  <2> SUFFICES ASSUME NEW v \in Uploads, v \notin raced PROVE Alone(v)'
    BY DEF Apart
  <2>1. CASE v = u
    <3>1. dir[p] = {} /\ dir'[p] = {u}
      BY <1>1, <2>1 DEF Apart, Alone
    <3>2. \A w \in Uploads \ {u} : ~Using(w, p)
      BY <1>1, <2>1 DEF Apart, Alone
    <3> QED
      BY <1>1, <1>2, <2>1, <3>1, <3>2 DEF Alone
  <2>2. CASE v # u
    <3>1. at'[v] = at[v] /\ target[v] \in Paths
      BY <1>1, <2>2
    <3>2. CASE target[v] = p
      <4>1. ~Using(v, p) /\ v \notin dir[p]
        BY <1>1, <2>2, <3>2 DEF Apart, Alone
      <4>2. v \notin dir'[p] /\ ~Using(v, p)'
        BY <1>1, <1>2, <2>2, <4>1
      <4> QED
        BY <3>1, <3>2, <4>1, <4>2 DEF Using, Alone
    <3>3. CASE target[v] # p
      <4>1. dir'[target[v]] = dir[target[v]]
        BY <1>1, <3>1, <3>3
      <4> QED
        BY <1>2, <3>1, <4>1 DEF Apart, Alone
    <3> QED
      BY <3>2, <3>3
  <2> QED
    BY <2>1, <2>2
<1> QED
  BY <1>3, <1>4, <1>5, <1>6

\* Whatever is at the path is removed.
LEMMA RemovedStep ==
  ASSUME FolderInv, NEW u \in Uploads, NEW from \in {"removing", "unlinking", "saved"},
         NEW to \in {"failed", "dropped", "taken"}, Step(u, from, to, Removed(u)),
         UNCHANGED <<target, raced>>
  PROVE  FolderInv'
<1> DEFINE p == target[u]
<1> USE DEF FolderInv, TypeOK, Step
<1>1. /\ at[u] \in {"removing", "unlinking", "saved"} /\ at' = [at EXCEPT ![u] = to]
      /\ p \in Paths /\ Using(u, p)
      /\ dir' = [dir EXCEPT ![p] = {}]
  BY DEF Removed, Using
<1>2. \A v \in Uploads, q \in Paths : Using(v, q)' => Using(v, q) /\ v # u
  BY <1>1 DEF Using
<1>3. TypeOK'
  BY <1>1
<1>4. Traceable'
  BY <1>1 DEF Traceable
<1>5. OthersKept' /\ Received'
  BY <1>1, <1>2, SavedFilesAssumption DEF OthersKept, Received, Paths
<1>6. Apart'
  <2> SUFFICES ASSUME NEW v \in Uploads, v \notin raced PROVE Alone(v)'
    BY DEF Apart
  <2>1. CASE v = u
    BY <1>1, <1>2, <2>1 DEF Alone
  <2>2. CASE v # u
    <3>1. at'[v] = at[v] /\ target[v] \in Paths
      BY <1>1, <2>2
    <3>2. CASE target[v] = p
      <4>1. ~Using(v, p)
        BY <1>1, <2>2, <3>2 DEF Apart, Alone
      <4> QED
        BY <1>1, <1>2, <3>1, <3>2, <4>1 DEF Using, Alone
    <3>3. CASE target[v] # p
      <4>1. dir'[target[v]] = dir[target[v]]
        BY <1>1, <3>1, <3>3
      <4> QED
        BY <1>2, <3>1, <4>1 DEF Apart, Alone
    <3> QED
      BY <3>2, <3>3
  <2> QED
    BY <2>1, <2>2
<1> QED
  BY <1>3, <1>4, <1>5, <1>6

\* The folder stays as it is, and the handler goes on.
LEMMA GoneOnStep ==
  ASSUME FolderInv, NEW u \in Uploads, UNCHANGED <<target, raced>>,
         \/ Step(u, "resolved", "failed", dir)  \/ Step(u, "resolved", "dropped", dir)
         \/ Step(u, "resolved", "creating", dir) \/ Step(u, "creating", "dropped", dir)
         \/ Step(u, "writing", "saved", dir)    \/ Step(u, "writing", "removing", dir)
         \/ Step(u, "writing", "dropped", dir)  \/ Step(u, "removing", "dropped", dir)
         \/ Step(u, "removing", "unlinking", dir)
  PROVE  FolderInv'
<1> USE DEF FolderInv, TypeOK, Step
<1>1. \A v \in Uploads, q \in Paths : Using(v, q)' => Using(v, q)
  BY DEF Using
<1>2. dir' = dir /\ UNCHANGED <<target, raced>> /\ \A v \in Uploads \ {u} : at'[v] = at[v]
  OBVIOUS
<1>3. TypeOK' /\ Traceable'
  BY DEF Traceable
<1>4. OthersKept' /\ Received'
  BY <1>1, <1>2, SavedFilesAssumption DEF OthersKept, Received, Paths
<1>5. Apart'
  <2> SUFFICES ASSUME NEW v \in Uploads, v \notin raced PROVE Alone(v)'
    BY DEF Apart
  <2>1. /\ at'[v] \in {"resolved", "creating"} => at[v] \in {"resolved", "creating"}
        /\ at'[v] \in {"writing", "removing", "unlinking", "saved"}
             => at[v] \in {"writing", "removing", "unlinking", "saved"}
    OBVIOUS
  <2> QED
    BY <1>1, <2>1 DEF Apart, Alone
<1> QED
  BY <1>3, <1>4, <1>5

LEMMA FolderStep == FolderInv /\ [Next]_vars => FolderInv'
<1> SUFFICES ASSUME FolderInv, [Next]_vars PROVE FolderInv'
  OBVIOUS
<1>1. ASSUME NEW u \in Uploads, Resolve(u) PROVE FolderInv'
  BY <1>1, ChoosesStep
<1>2. ASSUME NEW u \in Uploads, Create(u) PROVE FolderInv'
  BY <1>2, CreatedStep DEF Create
<1>3. ASSUME NEW u \in Uploads, CreateFails(u) \/ Saved(u) \/ Breaks(u) PROVE FolderInv'
  BY <1>3, GoneOnStep DEF CreateFails, Saved, Breaks
<1>4. ASSUME NEW u \in Uploads, Remove(u) \/ Take(u) \/ LateRemove(u) PROVE FolderInv'
  BY <1>4, RemovedStep DEF Remove, Take, LateRemove
<1>5. ASSUME NEW u \in Uploads, Dropped(u) PROVE FolderInv'
  BY <1>5, GoneOnStep DEF Dropped
<1>6. ASSUME NEW u \in Uploads, LateCreate(u) PROVE FolderInv'
  BY <1>6, CreatedStep, GoneOnStep DEF LateCreate
<1>7. CASE UNCHANGED vars
  BY <1>7 DEF vars, FolderInv, TypeOK, Traceable, OthersKept, Received, Apart, Alone, Using
<1> QED
  BY <1>1, <1>2, <1>3, <1>4, <1>5, <1>6, <1>7 DEF Next

LEMMA FolderAlways == Spec => []FolderInv
  BY FolderInit, FolderStep, PTL DEF Spec

-----------------------------------------------------------------------------
\* Every variable keeps its type: resolve_collision only ever chooses the name itself
\* or a numbered one.
THEOREM SavedTypeCorrect == Spec => []TypeOK
<1>1. FolderInv => TypeOK
  BY DEF FolderInv
<1> QED
  BY <1>1, FolderAlways, PTL

\* save_body never touches what the user had in the folder, and writes over what it
\* received in one way only: two handlers found the same name while one was using it.
THEOREM NoOverwriteAlways == Spec => []NoOverwrite
<1>1. FolderInv => NoOverwrite
  <2> SUFFICES ASSUME FolderInv PROVE NoOverwrite
    OBVIOUS
  <2>1. \A p \in Kept : dir[p] = {User}
    BY DEF FolderInv, OthersKept
  <2>2. ASSUME NEW p \in Paths \ Kept, NEW x \in dir[p], NEW y \in dir[p]
        PROVE  x = y \/ {x, y} \subseteq raced
    <3>1. x \in Uploads /\ y \in Uploads
      BY <2>2 DEF FolderInv, TypeOK, Received
    <3>2. x \notin raced => dir[p] = {x}
      BY <2>2, <3>1 DEF FolderInv, Traceable, Apart, Alone
    <3>3. y \notin raced => dir[p] = {y}
      BY <2>2, <3>1 DEF FolderInv, Traceable, Apart, Alone
    <3> QED
      BY <2>2, <3>2, <3>3
  <2> QED
    BY <2>1, <2>2 DEF NoOverwrite
<1> QED
  BY <1>1, FolderAlways, PTL

\* And a file it has reported stays as it was sent, whichever uploads fail, are
\* removed, are dropped or race beside it, unless its own raced.
THEOREM KeptWholeAlways == Spec => []KeptWhole
<1>1. FolderInv => KeptWhole
  BY DEF FolderInv, Apart, Alone, KeptWhole
<1> QED
  BY <1>1, FolderAlways, PTL

\* save_body leaves nothing of an upload that failed, also when uploads race.
THEOREM NoRemainsAlways == Spec => []NoRemains
<1>1. FolderInv => NoRemains
  BY DEF FolderInv, Traceable, NoRemains
<1> QED
  BY <1>1, FolderAlways, PTL
=============================================================================
