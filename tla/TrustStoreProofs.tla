-------------------------- MODULE TrustStoreProofs --------------------------
(***************************************************************************)
(* Proofs about TrustStore, for any devices and bounds.                    *)
(***************************************************************************)
EXTENDS TrustStore, TLAPS, FiniteSetTheorems

Sure(p) == settled[p] # Unsure

\* A store that saves knows what; answers can be counted.
Shape ==
  /\ \A k \in Stores : Busy(k) => saving[k] \in Peers \X {"user", "dialog"}
  /\ \A k \in Stores : k > store <=> at[k] = "unopened"
  /\ IsFiniteSet(answers)

\* Where stores follow one another, only the last one saves; it has in memory what the
\* last saves left, but for the device being saved; and so has the file.
Follows ==
  mixing # "stores" =>
    /\ \A k \in Stores : Busy(k) => k = store
    /\ \A k \in Stores, p \in Peers :
         k = store /\ at[k] # "dead" /\ Sure(p) =>
           \/ memory[k][p] = Word(p)
           \/ Busy(k) /\ p = saving[k][1]
    /\ file # Damaged => \A p \in Peers : Sure(p) => file[p] = Word(p)

\* A device being entered is not one that was entered and saved before.
FirstTime ==
  mixing # "stores" =>
    \A k \in Stores :
      Busy(k) /\ memory[k][saving[k][1]] # Never =>
        Word(saving[k][1]) \in {Never, Unsure}

\* A file is damaged by a save that goes on, or that left its device unsure.
CutOff ==
  file = Damaged => \/ \E k \in Stores : at[k] = "truncated"
                    \/ \E p \in Peers : ~Sure(p)

TrustInv == TypeOK /\ Shape /\ Follows /\ FirstTime /\ CutOff

\* When nothing overlaps, a change starts with every list shown, and a list on its
\* way to the app is the one it should show.
Answered ==
  mixing = "nothing" =>
    /\ asked = {}
    /\ \A k \in Stores : Busy(k) => Shown /\ saving[k][2] = "user"
    /\ (store = 0 \/ at[store] = "dead") => Shown
    /\ \A k \in Stores :
         k = store /\ at[k] = "open" /\ (\A p \in Peers : Sure(p)) =>
           /\ \A list \in answers : list = Known(k)
           /\ Shown => cache = Known(k)

-----------------------------------------------------------------------------
LEMMA TrustInit == Init => TrustInv /\ Answered
<1> SUFFICES ASSUME Init PROVE TrustInv /\ Answered
  OBVIOUS
<1>. USE TrustStoreAssumption
     DEF Init, Stores, Maps, Nobody, Never, Busy, Sure, Overlaps
<1>1. TypeOK
  BY DEF TypeOK
<1>2. Shape
  BY FS_EmptySet DEF Shape
<1>3. Follows /\ FirstTime /\ CutOff
  BY DEF Follows, FirstTime, CutOff, Word
<1>4. Answered
  BY DEF Answered, Shown
<1>. QED
  BY <1>1, <1>2, <1>3, <1>4 DEF TrustInv

\* A call of trust_list that is admitted keeps the count in its bound.
LEMMA RefreshCounts ==
  ASSUME TypeOK, IsFiniteSet(answers), Refresh
  PROVE  calls' \in 0 .. MaxCalls /\ calls' > 0
<1>1. Cardinality(answers) \in Nat
  BY FS_CardinalityType
<1>. QED
  BY <1>1, TrustStoreAssumption DEF Refresh, TypeOK

\* A change in memory: of a device that is not in it, or one that removes.
LEMMA ChangeKeeps ==
  ASSUME TrustInv, NEW k \in Stores, NEW p \in Peers, NEW who \in {"user", "dialog"},
         NEW time \in 0 .. MaxTime, Usable(k), NeedsAdding(k, p) \/ time = Never,
         Change(k, p, who, time), clock' \in 0 .. MaxTime, asked' \subseteq asked,
         UNCHANGED <<file, store, settled, lost, calls, answers, cache, mixing>>
  PROVE  TrustInv'
<1>. USE TrustStoreAssumption
     DEF TrustInv, TypeOK, Shape, Follows, FirstTime, CutOff, Stores, Maps, Never,
         Busy, Sure, Word, Overlaps, Goto, Change, Usable, NeedsAdding
<1>1. memory' \in [Stores -> Maps] /\ saving'[k] = <<p, who>>
  BY DEF Nobody
<1>2. TypeOK'
  BY <1>1
<1>3. Shape'
  BY <1>1
<1>4. Follows'
  <2>1. at[k] = "open" /\ at' = [at EXCEPT ![k] = "changed"]
    OBVIOUS
  <2>2. \A j \in Stores : j # k => memory'[j] = memory[j] /\ saving'[j] = saving[j]
    OBVIOUS
  <2>3. \A q \in Peers : q # p => memory'[k][q] = memory[k][q]
    OBVIOUS
  <2> SUFFICES ASSUME mixing # "stores" PROVE Follows'
    OBVIOUS
  <2>4. k = store
    OBVIOUS
  <2>5. \A j \in Stores : Busy(j)' => j = store
    BY <2>1, <2>4
  <2>6. \A j \in Stores, q \in Peers :
          j = store /\ at'[j] # "dead" /\ Sure(q) =>
            memory'[j][q] = Word(q) \/ (Busy(j)' /\ q = saving'[j][1])
    <3>1. Busy(k)' /\ saving'[k][1] = p
      BY <1>1, <2>1
    <3>2. \A q \in Peers : q # p /\ Sure(q) => memory[k][q] = Word(q)
      BY <2>1, <2>4
    <3>. QED
      BY <2>3, <2>4, <3>1, <3>2
  <2>. QED
    BY <2>5, <2>6
<1>5. FirstTime'
  <2> SUFFICES ASSUME mixing # "stores", NEW j \in Stores, Busy(j)',
                      memory'[j][saving'[j][1]] # Never
               PROVE  Word(saving'[j][1]) \in {Never, Unsure}
    OBVIOUS
  <2>1. j = k /\ at[k] = "open" /\ k = store
    BY <1>4
  <2>2. memory[k][p] = Never
    BY <1>1, <2>1
  <2>3. Sure(p) => Word(p) = memory[k][p]
    BY <2>1
  <2>4. saving'[j][1] = p
    BY <1>1, <2>1
  <2>. QED
    BY <2>2, <2>3, <2>4
<1>6. CutOff'
  <2>1. at[k] = "open" /\ \A j \in Stores : j # k => at'[j] = at[j]
    OBVIOUS
  <2>. QED
    BY <2>1
<1>. QED
  BY <1>2, <1>3, <1>4, <1>5, <1>6

LEMMA TrustStep == TrustInv /\ [Next]_vars => TrustInv'
<1> SUFFICES ASSUME TrustInv, [Next]_vars PROVE TrustInv'
  OBVIOUS
<1>. USE TrustStoreAssumption
     DEF TrustInv, TypeOK, Shape, Follows, FirstTime, CutOff, Stores, Maps, Nobody,
         Never, Busy, Sure, Word, Overlaps, Goto, fileVars, cacheVars
<1>1. CASE Open
  <2>1. /\ store' = store + 1 /\ store' \in Stores /\ at' = [at EXCEPT ![store'] = "open"]
        /\ memory' = [memory EXCEPT ![store'] = Read(file)]
        /\ lost' = IF file = Damaged
                   THEN lost \cup {p \in Peers : settled[p] \notin {Never, Unsure}} ELSE lost
        /\ UNCHANGED <<file, saving, clock, settled, asked, answers, cache, mixing>>
    BY <1>1 DEF Open
  <2>2. calls' \in 0 .. MaxCalls
    BY <1>1, RefreshCounts DEF Open
  <2>3. mixing # "stores" => \A k \in Stores : ~Busy(k)'
    BY <1>1, <2>1 DEF Open, Finished
  <2>4. Read(file) \in Maps
    BY DEF Read
  <2>5. TypeOK'
    <3>1. /\ memory' \in [Stores -> Maps]
          /\ at' \in [Stores -> {"unopened", "open", "changed", "truncated", "dead"}]
      BY <2>1, <2>4
    <3>2. settled' \in [Peers -> 0 .. MaxTime \cup {Unsure}] /\ lost' \subseteq Peers
      BY <2>1
    <3>3. /\ store' \in 0 .. MaxStores /\ file' = file /\ saving' = saving
          /\ clock' = clock /\ asked' = asked /\ answers' = answers /\ cache' = cache
          /\ mixing' = mixing
      BY <2>1
    <3>. QED
      BY <2>2, <3>1, <3>2, <3>3
  <2>6. Shape'
    BY <2>1
  <2>7. Follows'
    <3> SUFFICES ASSUME mixing # "stores" PROVE Follows'
      BY <2>1
    <3>1. ASSUME NEW p \in Peers, settled[p] # Unsure
          PROVE  /\ memory'[store'][p] = Word(p)'
                 /\ file # Damaged => file[p] = Word(p)'
      <4>1. CASE file = Damaged
        BY <2>1, <3>1, <4>1 DEF Read
      <4>2. CASE file # Damaged
        BY <2>1, <3>1, <4>2 DEF Read
      <4>. QED
        BY <4>1, <4>2
    <3>. QED
      BY <2>1, <2>3, <3>1
  <2>8. FirstTime'
    BY <2>1, <2>3
  <2>9. CutOff'
    <3>1. \A k \in Stores : at[k] = "truncated" => at'[k] = "truncated"
      BY <2>1
    <3>. QED
      BY <2>1, <3>1
  <2>. QED
    BY <2>5, <2>6, <2>7, <2>8, <2>9
<1>2. ASSUME NEW k \in Stores, NEW p \in Peers, AddApproved(k, p) PROVE TrustInv'
  <2>1. CASE NeedsAdding(k, p)
    <3>1. clock' \in 0 .. MaxTime /\ Usable(k) /\ Change(k, p, "dialog", clock')
      BY <1>2, <2>1 DEF AddApproved
    <3>2. asked' \subseteq asked /\ UNCHANGED <<file, store, settled, lost, calls, answers, cache, mixing>>
      BY <1>2 DEF AddApproved
    <3>. QED
      BY ONLY TrustInv, <2>1, <3>1, <3>2, ChangeKeeps
  <2>2. CASE ~NeedsAdding(k, p)
    <3>1. asked' \subseteq asked
      BY <1>2 DEF AddApproved
    <3>2. UNCHANGED <<file, store, memory, at, saving, clock, settled, lost, calls,
                      answers, cache, mixing>>
      BY <1>2, <2>2 DEF AddApproved
    <3>. QED
      BY <3>1, <3>2
  <2>. QED
    BY <2>1, <2>2
<1>3. ASSUME NEW k \in Stores, NEW p \in Peers, AnswerTooLate(k, p) PROVE TrustInv'
  BY <1>3 DEF AnswerTooLate
<1>4. ASSUME NEW k \in Stores, NEW p \in Peers, Add(k, p) PROVE TrustInv'
  <2>1. clock' \in 0 .. MaxTime /\ Usable(k) /\ Change(k, p, "user", clock') /\ NeedsAdding(k, p)
    BY <1>4 DEF Add
  <2>2. UNCHANGED <<asked, file, store, settled, lost, calls, answers, cache, mixing>>
    BY <1>4 DEF Add
  <2>. QED
    BY ONLY TrustInv, <2>1, <2>2, ChangeKeeps
<1>5. ASSUME NEW k \in Stores, NEW p \in Peers, Remove(k, p) PROVE TrustInv'
  <2>1. Usable(k) /\ Change(k, p, "user", Never)
    BY <1>5 DEF Remove
  <2>2. UNCHANGED <<clock, asked, file, store, settled, lost, calls, answers, cache, mixing>>
    BY <1>5 DEF Remove
  <2>3. Never \in 0 .. MaxTime /\ clock' \in 0 .. MaxTime /\ asked' \subseteq asked
    BY <2>2
  <2>. QED
    BY ONLY TrustInv, <2>1, <2>2, <2>3, ChangeKeeps
<1>6. ASSUME NEW k \in Stores, Truncate(k) PROVE TrustInv'
  <2>1. /\ at[k] = "changed" /\ at' = [at EXCEPT ![k] = "truncated"] /\ file' = Damaged
        /\ UNCHANGED <<store, memory, saving, clock, settled, lost, cacheVars, mixing>>
    BY <1>6 DEF Truncate
  <2>2. \A j \in Stores : Busy(j)' <=> Busy(j)
    BY <2>1
  <2>3. TypeOK'
    BY <2>1
  <2>4. Shape'
    BY <2>1, <2>2
  <2>5. Follows'
    <3>1. /\ file' = Damaged
          /\ \A j \in Stores : at'[j] # "dead" => at[j] # "dead"
          /\ UNCHANGED <<store, memory, saving, settled, lost, mixing>>
      BY <2>1
    <3>. QED
      BY <2>2, <3>1 DEF Follows
  <2>6. FirstTime'
    BY <2>1, <2>2
  <2>7. CutOff'
    BY <2>1
  <2>. QED
    BY <2>3, <2>4, <2>5, <2>6, <2>7
<1>7. ASSUME NEW k \in Stores, Write(k) PROVE TrustInv'
  <2>. DEFINE p == saving[k][1]
  <2>1. p \in Peers /\ at[k] = "truncated"
    BY <1>7 DEF Write
  <2>2. /\ file' = memory[k] /\ at' = [at EXCEPT ![k] = "open"]
        /\ UNCHANGED <<store, memory, saving, clock, asked, answers, cache, mixing>>
    BY <1>7 DEF Write
  <2>3. /\ settled' = Settled(k)
        /\ lost' = {q \in lost : q # p /\ settled[q] # Unsure}
    BY <1>7 DEF Write
  <2>4. calls' \in 0 .. MaxCalls
    BY <1>7, RefreshCounts DEF Write, RefreshAfter
  <2>5. settled' \in [Peers -> 0 .. MaxTime] /\ \A q \in Peers : settled'[q] # Unsure
    <3>1. settled' \in [Peers -> 0 .. MaxTime]
      <4>1. memory[k] \in [Peers -> 0 .. MaxTime]
        OBVIOUS
      <4>2. \A q \in Peers : settled[q] # Unsure => settled[q] \in 0 .. MaxTime
        OBVIOUS
      <4>. QED
        BY <2>1, <2>3, <4>1, <4>2 DEF Settled
    <3>. QED
      BY <3>1
  <2>6. TypeOK'
    BY <2>1, <2>2, <2>3, <2>4, <2>5
  <2>7. Shape'
    BY <2>1, <2>2
  <2>8. ASSUME mixing # "stores", NEW q \in Peers
        PROVE  Word(q)' = memory[k][q]
    <3>0. settled'[q] = IF \/ q = p /\ (q \notin Known(k) \/ Word(q) = Never)
                           \/ settled[q] = Unsure
                        THEN memory[k][q] ELSE settled[q]
      BY <2>3 DEF Settled
    <3>1. k = store /\ Busy(k) /\ at[k] # "dead"
      BY <2>1, <2>8
    <3>2. CASE settled[q] = Unsure
      BY <2>3, <3>0, <3>2
    <3>3. CASE settled[q] # Unsure /\ q # p
      <4>1. memory[k][q] = Word(q)
        BY <2>8, <3>1, <3>3
      <4>. QED
        BY <2>3, <3>0, <3>3, <4>1
    <3>4. CASE settled[q] # Unsure /\ q = p
      <4>1. Word(q)' = settled'[q]
        BY <2>3, <3>4
      <4>2. q \in Known(k) => Word(q) = Never
        BY <2>8, <3>1, <3>4 DEF Known
      <4>. QED
        BY <3>0, <3>4, <4>1, <4>2
    <3>. QED
      BY <3>2, <3>3, <3>4
  <2>9. Follows'
    <3>1. mixing # "stores" => \A j \in Stores : ~Busy(j)'
      BY <2>1, <2>2
    <3>2. mixing # "stores" => k = store
      BY <2>1
    <3>3. UNCHANGED <<store, memory, mixing>> /\ file' = memory[k]
      BY <2>2
    <3>. QED
      BY <2>8, <3>1, <3>2, <3>3
  <2>10. FirstTime'
    <3>1. mixing # "stores" => \A j \in Stores : ~Busy(j)'
      BY <2>1, <2>2
    <3>. QED
      BY <2>2, <3>1
  <2>11. CutOff'
    <3>1. memory[k] \in [Peers -> 0 .. MaxTime]
      OBVIOUS
    <3>2. file' # Damaged
      BY <2>2, <3>1
    <3>. QED
      BY <3>2
  <2>. QED
    BY <2>6, <2>7, <2>9, <2>10, <2>11
<1>8. ASSUME NEW k \in Stores, SaveFails(k) PROVE TrustInv'
  <2>. DEFINE p == saving[k][1]
  <2>1. /\ Busy(k) /\ p \in Peers /\ at' = [at EXCEPT ![k] = "open"]
        /\ settled' = [settled EXCEPT ![p] = Unsure]
        /\ UNCHANGED <<file, store, memory, saving, clock, lost, cacheVars, mixing>>
    BY <1>8 DEF SaveFails
  <2>2. settled'[p] = Unsure /\ \A q \in Peers : q # p => settled'[q] = settled[q]
    BY <2>1
  <2>3. TypeOK' /\ Shape'
    BY <2>1
  <2>4. Follows' /\ FirstTime'
    <3>1. mixing # "stores" => k = store /\ \A j \in Stores : ~Busy(j)'
      BY <2>1
    <3>2. \A q \in Peers : settled'[q] # Unsure => q # p /\ Sure(q) /\ Word(q)' = Word(q)
      BY <2>1, <2>2
    <3>3. FirstTime'
      BY <2>1, <3>1
    <3>4. Follows'
      <4> SUFFICES ASSUME mixing # "stores" PROVE Follows'
        BY <2>1
      <4>1. \A q \in Peers : settled'[q] # Unsure => memory[k][q] = Word(q)'
        BY <2>1, <3>1, <3>2
      <4>2. file # Damaged => \A q \in Peers : settled'[q] # Unsure => file[q] = Word(q)'
        BY <3>2
      <4>. QED
        BY <2>1, <3>1, <4>1, <4>2
    <3>. QED
      BY <3>3, <3>4
  <2>5. CutOff'
    BY <2>1, <2>2
  <2>. QED
    BY <2>3, <2>4, <2>5
<1>9. CASE Crash
  BY <1>9, FS_EmptySet DEF Crash
<1>10. ASSUME NEW p \in Peers, Approve(p) PROVE TrustInv'
  <2>1. /\ calls' \in 0 .. MaxCalls /\ asked' \subseteq Stores \X Peers
        /\ UNCHANGED <<fileVars, answers, cache, mixing>>
    BY <1>10, RefreshCounts DEF Approve, Usable
  <2>2. TypeOK' /\ Shape'
    BY <2>1
  <2>3. Follows' /\ FirstTime' /\ CutOff'
    BY <2>1
  <2>. QED
    BY <2>2, <2>3
<1>11. CASE ReadList
  <2>1. Known(store) \subseteq Peers /\ answers' = answers \cup {Known(store)}
    BY <1>11 DEF ReadList, Known
  <2>2. IsFiniteSet(answers')
    BY <2>1, FS_AddElement
  <2>3. calls' \in 0 .. MaxCalls
    BY <1>11 DEF ReadList
  <2>. QED
    BY <1>11, <2>1, <2>2, <2>3 DEF ReadList
<1>12. ASSUME NEW list \in SUBSET Peers, ShowList(list) PROVE TrustInv'
  BY <1>12, FS_RemoveElement DEF ShowList
<1>13. CASE UNCHANGED vars
  BY <1>13 DEF vars
<1>. QED
  BY <1>1, <1>2, <1>3, <1>4, <1>5, <1>6, <1>7, <1>8, <1>9, <1>10, <1>11, <1>12,
     <1>13 DEF Next

LEMMA TrustInvAlways == Spec => []TrustInv
<1>1. Init => TrustInv
  BY TrustInit
<1>. QED
  BY <1>1, TrustStep, PTL DEF Spec

-----------------------------------------------------------------------------
\* Every variable of the module keeps its type.
THEOREM TrustTypeCorrect == Spec => []TypeOK
<1>1. TrustInv => TypeOK
  BY DEF TrustInv
<1>. QED
  BY <1>1, TrustInvAlways, PTL

\* Through failing saves and crashes, of any number of stores that follow one another,
\* the file and the store in use keep what was saved of each device, but for those that
\* were lost by opening a damaged file; and it is damaged only while a save of some
\* device is under way, or failed or was cut off and no later one succeeded.
THEOREM KeepsWordAlways == Spec => []KeepsWord
<1>1. TrustInv => KeepsWord
  BY DEF TrustInv, TypeOK, Follows, CutOff, KeepsWord, Usable, Busy, Sure
<1>. QED
  BY <1>1, TrustInvAlways, PTL

-----------------------------------------------------------------------------
(* The list in the app *)

LEMMA AnsweredStep == TrustInv /\ TrustInv' /\ Answered /\ [Next]_vars => Answered'
<1> SUFFICES ASSUME TrustInv, TrustInv', Answered, [Next]_vars, mixing = "nothing"
             PROVE  Answered'
  BY DEF Answered, Next, vars, Open, AddApproved, AnswerTooLate, Add, Remove, Truncate,
         Write, SaveFails, Crash, Approve, ReadList, ShowList
<1>. USE TrustStoreAssumption
     DEF TrustInv, TypeOK, Answered, Stores, Maps, Never, Busy, Sure, Shown, Usable,
         MayChange, Goto, fileVars, cacheVars
<1>1. CASE Open
  <2>1. /\ store' = store + 1 /\ store' \in Stores /\ at' = [at EXCEPT ![store'] = "open"]
        /\ memory' = [memory EXCEPT ![store'] = Read(file)]
        /\ lost' = IF file = Damaged
                   THEN lost \cup {p \in Peers : settled[p] \notin {Never, Unsure}} ELSE lost
        /\ UNCHANGED <<asked, answers, cache, saving, settled>>
    BY <1>1 DEF Open
  <2>2. calls' > 0
    BY <1>1, RefreshCounts DEF Open, Shape
  <2>3. \A k \in Stores : ~Busy(k) /\ ~Busy(k)'
    BY <1>1, <2>1 DEF Open, Finished, Shape
  <2>4. ASSUME \A p \in Peers : settled'[p] # Unsure, NEW list \in answers
        PROVE  list = Known(store)'
    <3>1. file # Damaged
      <4>1. \A k \in Stores : at[k] # "truncated"
        BY <2>3
      <4>. QED
        BY <2>1, <2>4, <4>1 DEF CutOff
    <3>2. store \in Stores /\ at[store] = "open"
      <4>1. store # 0 /\ at[store] # "dead"
        BY <2>4
      <4>2. store \in Stores /\ at[store] # "unopened" /\ ~Busy(store)
        BY <2>3, <4>1 DEF Shape
      <4>. QED
        BY <4>1, <4>2
    <3>3. \A p \in Peers : memory[store][p] = Word(p) /\ memory'[store'][p] = Word(p)
      BY <2>1, <2>3, <2>4, <3>1, <3>2 DEF Follows, Read
    <3>4. list = Known(store)
      BY <2>1, <2>4, <3>2
    <3>. QED
      BY <3>3, <3>4 DEF Known
  <2>. QED
    BY <2>1, <2>2, <2>3, <2>4
<1>2. ASSUME NEW k \in Stores, NEW p \in Peers, AddApproved(k, p) \/ AnswerTooLate(k, p)
      PROVE  Answered'
  BY <1>2 DEF AddApproved, AnswerTooLate
<1>3. ASSUME NEW k \in Stores, NEW p \in Peers, Add(k, p) \/ Remove(k, p) PROVE Answered'
  <2>1. /\ at[k] = "open" /\ k = store /\ Shown /\ at' = [at EXCEPT ![k] = "changed"]
        /\ saving'[k][2] = "user" /\ \A j \in Stores : j # k => saving'[j] = saving[j]
        /\ UNCHANGED <<store, settled, cacheVars>>
    BY <1>3 DEF Add, Remove, Change
  <2>. QED
    BY <2>1
<1>4. ASSUME NEW k \in Stores, Truncate(k) PROVE Answered'
  BY <1>4 DEF Truncate, Follows, Known
<1>5. ASSUME NEW k \in Stores, Write(k) PROVE Answered'
  <2>1. answers = {} /\ k = store /\ \A j \in Stores : j # k => ~Busy(j)
    BY <1>5 DEF Write, Follows
  <2>2. calls' > 0
    BY <1>5, RefreshCounts DEF Write, RefreshAfter, Shape
  <2>. QED
    BY <1>5, <2>1, <2>2 DEF Write
<1>6. ASSUME NEW k \in Stores, SaveFails(k) PROVE Answered'
  BY <1>6 DEF SaveFails, Shape, Follows
<1>7. CASE Crash
  BY <1>7 DEF Crash
<1>8. ASSUME NEW p \in Peers, Approve(p) PROVE Answered'
  BY <1>8 DEF Approve
<1>9. CASE ReadList
  <2>1. answers' = answers \cup {Known(store)} /\ at[store] = "open" /\ store \in Stores
    BY <1>9 DEF ReadList
  <2>2. ~Shown' /\ Known(store)' = Known(store)
    BY <1>9, <2>1 DEF ReadList, Known
  <2>3. \A k \in Stores : ~Busy(k)
    BY <2>1 DEF Follows
  <2>4. UNCHANGED <<asked, store, at, settled>>
    BY <1>9 DEF ReadList
  <2>. QED
    BY <2>1, <2>2, <2>3, <2>4
<1>10. ASSUME NEW list \in SUBSET Peers, ShowList(list) PROVE Answered'
  BY <1>10 DEF ShowList, Known
<1>11. CASE UNCHANGED vars
  BY <1>11 DEF vars, Known
<1>. QED
  BY <1>1, <1>2, <1>3, <1>4, <1>5, <1>6, <1>7, <1>8, <1>9, <1>10, <1>11 DEF Next

\* The app shows the list of the store once its last call was answered, when the
\* user alone changes it and one change at a time.
THEOREM CacheFollowsAlways == Spec => []CacheFollows
<1>1. Init => TrustInv /\ Answered
  BY TrustInit
<1>2. TrustInv /\ Answered => CacheFollows
  BY DEF TrustInv, TypeOK, Answered, CacheFollows, Usable, Sure
<1>. QED
  BY <1>1, <1>2, TrustInvAlways, AnsweredStep, PTL DEF Spec
=============================================================================
