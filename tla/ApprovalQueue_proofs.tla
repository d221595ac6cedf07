------------------------ MODULE ApprovalQueue_proofs ------------------------
(***************************************************************************)
(* Proofs about the approval queue, for every set of steps, every number   *)
(* of overlapping callers and every bound.  None of the three safety       *)
(* invariants is inductive alone: what a restart loads must satisfy them   *)
(* too, and an item nobody created yet must be absent everywhere.          *)
(***************************************************************************)
EXTENDS ApprovalQueue, FiniteSetTheorems, TLAPS

\* At most one pending item per step, of any queue content.
Unstacked(q) ==
  \A i, j \in Ids :
    q[i].status = "pending" /\ q[j].status = "pending" /\ q[i].step = q[j].step
      => i = j

\* Items past the last created one are absent, of any queue content.
Fresh(q) == \A i \in Ids : i > made => q[i].status = "absent"

\* What the file says is settled is settled in memory too.
SettledOnDisk ==
  disk # NoFile =>
    \A i \in Ids : disk[i].status \in Resolved => items[i].status # "pending"

\* The strengthening of the three invariants.
IInv ==
  /\ TypeOK
  /\ Unstacked(items)
  /\ Fresh(items)
  /\ disk # NoFile => Unstacked(disk) /\ Fresh(disk)
  /\ answered \subseteq 1..made
  /\ \A c \in Callers : calls[c] # NoCall => calls[c] \in 1..made
  /\ AnsweredIsSettled
  /\ ~up => answered = {} /\ \A c \in Callers : calls[c] = NoCall
  /\ DecisionsAreDurable
  /\ saved /\ made > 0 => disk # NoFile
  /\ SettledOnDisk

\* Blanks are items: the queue with nothing in it is well typed.
LEMMA EmptyIsItems == Empty \in Items
  <1>1. (CHOOSE s \in Steps : TRUE) \in Steps
    BY StepsNonEmpty
  <1> QED BY <1>1 DEF Empty, Blank, Items, Status

\* A queue in its initial state satisfies the strengthened invariant.
LEMMA InitIInv == Init => IInv
  <1> SUFFICES ASSUME Init PROVE IInv
    OBVIOUS
  <1>1. TypeOK
    BY EmptyIsItems, QueueAssumption DEF Init, TypeOK, Ids
  <1>2. \A i \in Ids : items[i].status = "absent"
    BY DEF Init, Empty, Blank
  <1> QED
    BY <1>1, <1>2, QueueAssumption
    DEF Init, IInv, SettledOnDisk, Unstacked, Fresh, AnsweredIsSettled, DecisionsAreDurable, Ids

\* Every action that saves keeps the disk's share of the invariant.
LEMMA SaveKeepsDisk ==
  ASSUME IInv, made' \in Nat, made' >= made, items' \in Items,
         Unstacked(items'), Fresh(items)', Save(items'),
         \A i \in Ids : items'[i].status = "pending" =>
                         items[i].status = "pending" \/ i > made
  PROVE  /\ SettledOnDisk'
         /\ disk' \in Items \cup {NoFile}
         /\ saved' \in BOOLEAN
         /\ disk' # NoFile => Unstacked(disk') /\ Fresh(disk)'
         /\ saved' => disk' = items' /\ disk' # NoFile
  <1>0. made \in Nat
    BY QueueAssumption DEF IInv, TypeOK
  <1>1. CASE disk' = items' /\ saved' = TRUE
    BY <1>1, SentinelAssumption DEF Fresh, SettledOnDisk, Resolved
  <1>2. CASE disk' \in {disk, NoFile} /\ saved' = FALSE
    <2>1. disk' # NoFile => disk' = disk /\ Unstacked(disk) /\ Fresh(disk)
      BY <1>2 DEF IInv
    <2>2. disk' # NoFile => Fresh(disk)'
      BY <2>1, <1>0 DEF Fresh, Ids
    <2>3. SettledOnDisk'
      BY <2>1 DEF IInv, SettledOnDisk, Resolved, Fresh
    <2> QED BY <1>2, <2>1, <2>2, <2>3 DEF IInv, TypeOK
  <1> QED BY <1>1, <1>2 DEF Save

\* An action that only moves items away from pending keeps what is pending.
LEMMA FewerPending ==
  ASSUME NEW q, NEW r, Unstacked(q), Fresh(q), made' = made,
         \A i \in Ids : r[i].status = "pending" => r[i] = q[i],
         \A i \in Ids : q[i].status = "absent" => r[i].status = "absent"
  PROVE  Unstacked(r) /\ \A i \in Ids : i > made' => r[i].status = "absent"
  BY DEF Unstacked, Fresh

\* Every step keeps the strengthened invariant.
LEMMA StepIInv == IInv /\ [Next]_vars => IInv'
  <1> SUFFICES ASSUME IInv, [Next]_vars PROVE IInv'
    OBVIOUS
  <1> USE QueueAssumption, SentinelAssumption
  <1>0. TypeOK /\ made \in Nat /\ Unstacked(items) /\ Fresh(items)
    BY DEF IInv, TypeOK
  <1>1. ASSUME NEW s \in Steps, Enqueue(s) PROVE IInv'
    <2>1. made + 1 \in Ids /\ made' = made + 1
      BY <1>1, <1>0 DEF Enqueue, Ids
    <2>2. items' = [items EXCEPT ![made + 1] = [step |-> s, status |-> "pending"]]
      BY <1>1 DEF Enqueue
    <2>3. items' \in Items
      BY <2>1, <2>2, <1>0 DEF TypeOK, Items, Status
    <2>4. Unstacked(items')
      BY <2>1, <2>2, <1>1, <1>0 DEF Enqueue, Unstacked, Pending, TypeOK, Items
    <2>5. Fresh(items)'
      BY <2>1, <2>2, <1>0 DEF Fresh, Ids, TypeOK, Items
    <2>6. Save(items')
      BY <1>1 DEF Enqueue
    <2>7. /\ disk' \in Items \cup {NoFile} /\ saved' \in BOOLEAN /\ SettledOnDisk'
          /\ disk' # NoFile => Unstacked(disk') /\ Fresh(disk)'
          /\ saved' => disk' = items' /\ disk' # NoFile
      <3>1. \A i \in Ids : items'[i].status = "pending" =>
                            items[i].status = "pending" \/ i > made
        BY <2>1, <2>2, <1>0 DEF TypeOK, Items
      <3> QED BY <3>1, <2>1, <2>3, <2>4, <2>5, <2>6, <1>0, SaveKeepsDisk
    <2>8. TypeOK'
      BY <2>1, <2>3, <2>7, <1>1, <1>0 DEF Enqueue, TypeOK, Ids
    <2>9. AnsweredIsSettled'
      BY <2>1, <2>2, <1>1, <1>0 DEF Enqueue, AnsweredIsSettled, IInv, TypeOK, Items, Ids
    <2>10. DecisionsAreDurable'
      BY <2>7 DEF DecisionsAreDurable
    <2>11. answered' \subseteq 1..made'
           /\ \A c \in Callers : calls'[c] # NoCall => calls'[c] \in 1..made'
      BY <2>1, <1>1, <1>0 DEF Enqueue, IInv
    <2> QED BY <2>4, <2>5, <2>7, <2>8, <2>9, <2>10, <2>11, <1>1 DEF IInv, Enqueue
  <1>2. ASSUME NEW i \in Ids, Reject(i) \/ ApproveOrphan(i) PROVE IInv'
    <2>1. PICK st \in Resolved : items' = [items EXCEPT ![i].status = st]
      BY <1>2 DEF Reject, ApproveOrphan, Resolved
    <2>2. items' \in Items
      BY <2>1, <1>0 DEF TypeOK, Items, Status
    <2>3. made' = made /\ Save(items') /\ answered' = answered \cup {i}
          /\ UNCHANGED <<up, calls, runs, crashes>> /\ up
          /\ items[i].status = "pending"
      BY <1>2 DEF Reject, ApproveOrphan
    <2>4. \A k \in Ids : /\ items'[k].status = "pending" => items'[k] = items[k]
                         /\ items[k].status = "absent" => items'[k].status = "absent"
      BY <2>1, <2>3, <1>0 DEF TypeOK, Items, Resolved
    <2>5. Unstacked(items') /\ Fresh(items)'
      BY <2>3, <2>4, <1>0, FewerPending DEF Fresh
    <2>6. /\ disk' \in Items \cup {NoFile} /\ saved' \in BOOLEAN /\ SettledOnDisk'
          /\ disk' # NoFile => Unstacked(disk') /\ Fresh(disk)'
          /\ saved' => disk' = items' /\ disk' # NoFile
      BY <2>2, <2>3, <2>4, <2>5, <1>0, SaveKeepsDisk
    <2>7. i \in 1..made
      BY <2>3, <1>0 DEF Fresh, Ids
    <2>8. TypeOK'
      BY <2>2, <2>3, <2>6, <1>0 DEF TypeOK
    <2>9. AnsweredIsSettled'
      BY <2>1, <2>3, <2>4, <1>0 DEF AnsweredIsSettled, IInv, TypeOK, Items, Resolved
    <2>10. DecisionsAreDurable'
      BY <2>6 DEF DecisionsAreDurable
    <2> QED BY <2>3, <2>5, <2>6, <2>7, <2>8, <2>9, <2>10, <1>0 DEF IInv
  <1>3. ASSUME NEW c \in Callers, NEW i \in Ids, ApproveStart(c, i) PROVE IInv'
    <2>1. i \in 1..made
      BY <1>3, <1>0 DEF ApproveStart, Fresh, Ids
    <2>2. TypeOK'
      BY <1>3, <1>0 DEF ApproveStart, TypeOK
    <2>3. \A d \in Callers : calls'[d] # NoCall => calls'[d] \in 1..made'
      BY <2>1, <1>3, <1>0 DEF ApproveStart, IInv, TypeOK
    <2> QED
      BY <2>2, <2>3, <1>3
      DEF ApproveStart, IInv, SettledOnDisk, Unstacked, Fresh, AnsweredIsSettled, DecisionsAreDurable
  <1>4. ASSUME NEW c \in Callers, ApproveEnd(c) PROVE IInv'
    <2> DEFINE i == calls[c]
    <2>1. i \in Ids /\ i \in 1..made
      BY <1>4, <1>0 DEF ApproveEnd, IInv, TypeOK
    <2>2. PICK st \in {"approved", "failed"} : items' = Settle(i, st)
      BY <1>4 DEF ApproveEnd
    <2>3. items' = items \/ items' = [items EXCEPT ![i].status = st]
      BY <2>2 DEF Settle
    <2>4. items' \in Items /\ items'[i].status # "pending"
      BY <2>1, <2>2, <1>0 DEF TypeOK, Items, Status, Resolved, Settle
    <2>5. \A k \in Ids : /\ items'[k].status = "pending" => items'[k] = items[k]
                         /\ items[k].status = "absent" => items'[k].status = "absent"
      BY <2>1, <2>2, <1>0 DEF TypeOK, Items, Settle
    <2>6. made' = made /\ Save(items') /\ answered' = answered \cup {i}
          /\ UNCHANGED <<up, runs, crashes>> /\ up
          /\ calls' = [calls EXCEPT ![c] = NoCall]
      BY <1>4 DEF ApproveEnd
    <2>7. Unstacked(items') /\ Fresh(items)'
      BY <2>5, <2>6, <1>0, FewerPending DEF Fresh
    <2>8. /\ disk' \in Items \cup {NoFile} /\ saved' \in BOOLEAN /\ SettledOnDisk'
          /\ disk' # NoFile => Unstacked(disk') /\ Fresh(disk)'
          /\ saved' => disk' = items' /\ disk' # NoFile
      BY <2>4, <2>5, <2>6, <2>7, <1>0, SaveKeepsDisk
    <2>9. TypeOK'
      BY <2>1, <2>4, <2>6, <2>8, <1>0 DEF TypeOK
    <2>10. AnsweredIsSettled'
      BY <2>4, <2>5, <2>6, <1>0 DEF AnsweredIsSettled, IInv, TypeOK
    <2>11. DecisionsAreDurable'
      BY <2>8 DEF DecisionsAreDurable
    <2>12. \A d \in Callers : calls'[d] # NoCall => calls'[d] \in 1..made'
      BY <2>6, <1>0 DEF IInv, TypeOK
    <2> QED BY <2>1, <2>6, <2>7, <2>8, <2>9, <2>10, <2>11, <2>12 DEF IInv
  <1>5. ASSUME Prune PROVE IInv'
    <2>1. PICK gone \in SUBSET {i \in Ids : items[i].status \in Resolved} :
            items' = [i \in Ids |-> IF i \in gone THEN Blank ELSE items[i]]
      BY <1>5 DEF Prune
    <2>2. Blank \in [step : Steps, status : Status] /\ Blank.status = "absent"
      BY StepsNonEmpty DEF Blank, Status
    <2>3. items' \in Items
      BY <2>1, <2>2, <1>0 DEF TypeOK, Items
    <2>4. \A k \in Ids : /\ items'[k].status = "pending" => items'[k] = items[k]
                         /\ items[k].status = "absent" => items'[k].status = "absent"
      BY <2>1, <2>2
    <2>5. made' = made /\ Save(items') /\ UNCHANGED <<up, calls, runs, answered, crashes>> /\ up
      BY <1>5 DEF Prune
    <2>6. Unstacked(items') /\ Fresh(items)'
      BY <2>4, <2>5, <1>0, FewerPending DEF Fresh
    <2>7. /\ disk' \in Items \cup {NoFile} /\ saved' \in BOOLEAN /\ SettledOnDisk'
          /\ disk' # NoFile => Unstacked(disk') /\ Fresh(disk)'
          /\ saved' => disk' = items' /\ disk' # NoFile
      BY <2>3, <2>4, <2>5, <2>6, <1>0, SaveKeepsDisk
    <2>8. TypeOK'
      BY <2>3, <2>5, <2>7, <1>0 DEF TypeOK
    <2>9. AnsweredIsSettled'
      BY <2>4, <2>5, <1>0 DEF AnsweredIsSettled, IInv, TypeOK
    <2>10. DecisionsAreDurable'
      BY <2>7 DEF DecisionsAreDurable
    <2> QED BY <2>5, <2>6, <2>7, <2>8, <2>9, <2>10 DEF IInv
  <1>6. CASE Crash
    <2>1. \A i \in Ids : items'[i].status = "absent"
      BY <1>6 DEF Crash, Empty, Blank
    <2> items' \in Items
      BY <1>6, EmptyIsItems DEF Crash
    <2> crashes' \in 0..MaxCrashes
      BY <1>6, <1>0 DEF Crash, TypeOK
    <2> calls' \in [Callers -> Ids \cup {NoCall}]
      BY <1>6 DEF Crash
    <2>2. TypeOK'
      BY <1>6, <1>0 DEF Crash, TypeOK
    <2>3. Unstacked(items') /\ Fresh(items)'
      BY <2>1 DEF Unstacked, Fresh
    <2>4. UNCHANGED <<disk, made, saved>> /\ up' = FALSE /\ answered' = {}
          /\ \A c \in Callers : calls'[c] = NoCall
      BY <1>6 DEF Crash
    <2> QED
      BY <2>1, <2>2, <2>3, <2>4, <1>0
      DEF IInv, SettledOnDisk, Fresh, AnsweredIsSettled, DecisionsAreDurable
  <1>7. CASE Load
    <2>1. UNCHANGED <<disk, made, calls, saved, runs, answered, crashes>> /\ up' = TRUE
          /\ answered = {}
      BY <1>7 DEF Load, IInv
    <2>2. disk # NoFile => items' = disk
      BY <1>7 DEF Load
    <2>3. disk = NoFile => \A i \in Ids : items'[i].status = "absent"
      BY <1>7 DEF Load, Empty, Blank
    <2>4. items' \in Items
      BY <1>7, <1>0, EmptyIsItems DEF Load, TypeOK
    <2>5. Unstacked(items') /\ Fresh(items)'
      BY <2>1, <2>2, <2>3 DEF IInv, Unstacked, Fresh
    <2>6. TypeOK'
      BY <2>1, <2>4, <1>0 DEF TypeOK
    <2>7. DecisionsAreDurable'
      BY <2>1, <2>2 DEF DecisionsAreDurable, IInv
    <2>8. SettledOnDisk'
      BY <2>1, <2>2 DEF SettledOnDisk, Resolved
    <2> QED
      BY <2>1, <2>5, <2>6, <2>7, <2>8 DEF IInv, Fresh, AnsweredIsSettled
  <1>8. CASE UNCHANGED vars
    BY <1>8
    DEF vars, IInv, SettledOnDisk, TypeOK, Unstacked, Fresh, AnsweredIsSettled, DecisionsAreDurable
  <1> QED BY <1>1, <1>2, <1>3, <1>4, <1>5, <1>6, <1>7, <1>8 DEF Next

\* The strengthened invariant holds throughout every behaviour.
THEOREM QueueInvariant == Spec => []IInv
  BY InitIInv, StepIInv, PTL DEF Spec

\* Type correctness of the queue, its file and the calls in progress.
THEOREM QueueTypeCorrect == Spec => []TypeOK
  <1>1. IInv => TypeOK
    BY DEF IInv
  <1> QED BY <1>1, QueueInvariant, PTL

\* A retrying worker never stacks duplicates, restarts included: enqueue's
\* dedup holds across settling, pruning, failed saves and reloads.
THEOREM QueueUnstacked == Spec => []OnePendingPerStep
  <1>1. IInv => OnePendingPerStep
    BY DEF IInv, Unstacked, OnePendingPerStep, Pending
  <1> QED BY <1>1, QueueInvariant, PTL

\* However many approvals and rejections of an item overlap, once one of them
\* has answered the owner the item is out of reach of a later approval.
THEOREM QueueSettled == Spec => []AnsweredIsSettled
  <1>1. IInv => AnsweredIsSettled
    BY DEF IInv
  <1> QED BY <1>1, QueueInvariant, PTL

\* After a save that landed, what a restart would load is the queue in memory.
THEOREM QueueDurable == Spec => []DecisionsAreDurable
  <1>1. IInv => DecisionsAreDurable
    BY DEF IInv
  <1> QED BY <1>1, QueueInvariant, PTL

\* A tool is never started for an item the owner has been answered about, nor
\* for one whose settlement is on disk, whatever crashed or failed to save.
THEOREM QueueDecidedNeverStarts == Spec => DecidedNeverStarts
  <1> DEFINE A == \A i \in Ids : runs'[i] > runs[i] =>
                    /\ i \notin answered
                    /\ disk # NoFile => disk[i].status \notin Resolved
  <1>1. IInv /\ [Next]_vars => [A]_vars
    <2> SUFFICES ASSUME IInv, Next, NEW i \in Ids, runs'[i] > runs[i]
                 PROVE  /\ i \notin answered
                        /\ disk # NoFile => disk[i].status \notin Resolved
      OBVIOUS
    <2>1. runs \in [Ids -> Nat]
      BY DEF IInv, TypeOK
    <2>2. runs' # runs
      BY <2>1
    <2>3. PICK c \in Callers, k \in Ids : ApproveStart(c, k)
      BY <2>2 DEF Next, Enqueue, Reject, ApproveOrphan, ApproveEnd, Prune, Crash, Load
    <2>4. k = i
      BY <2>1, <2>3 DEF ApproveStart
    <2>5. items[i].status = "pending"
      BY <2>3, <2>4 DEF ApproveStart
    <2> QED BY <2>5 DEF IInv, AnsweredIsSettled, SettledOnDisk
  <1> QED BY <1>1, QueueInvariant, PTL DEF Spec, DecidedNeverStarts

(***************************************************************************)
(* How often a tool can be started.  The queue marks an item only when its *)
(* tool has returned, so every caller can be inside the same item at once; *)
(* but whoever returns settles it, and a settled item is pending again     *)
(* only in a process that read a file the settlement never reached.        *)
(***************************************************************************)
Inside(i) == {c \in Callers : calls[c] = i}

\* Once per overlapping approval of one process, and once more for each restart.
StartsBounded == \A i \in Ids : runs[i] <= Cardinality(Callers) * (crashes + 1)

\* While an item can still be approved, its starts in this process are the
\* approvals that are inside it now.
StartsCounted ==
  /\ \A i \in Ids : i > made => runs[i] = 0
  /\ \A i \in Ids : items[i].status = "pending" \/ ~up =>
        runs[i] <= Cardinality(Callers) * crashes + Cardinality(Inside(i))

\* Numbers of callers are numbers, and no item has more inside than there are.
LEMMA InsideBounds ==
  ASSUME NEW i \in Ids
  PROVE  /\ Cardinality(Callers) \in Nat /\ Cardinality(Inside(i)) \in Nat
         /\ Cardinality(Inside(i)) <= Cardinality(Callers)
         /\ IsFiniteSet(Inside(i))
  <1>1. Inside(i) \subseteq Callers
    BY DEF Inside
  <1> QED BY <1>1, CallersFinite, FS_Subset, FS_CardinalityType

\* A bound that grows by one process worth of callers at each restart.
LEMMA OneMoreLife ==
  ASSUME NEW n \in Nat, NEW k \in Nat
  PROVE  n * k \in Nat /\ n * (k + 1) = n * k + n
  OBVIOUS

\* One more approval is inside the item it starts, and in no other.
LEMMA OneMoreInside ==
  ASSUME TypeOK, NEW c \in Callers, NEW i \in Ids, calls[c] = NoCall,
         calls' = [calls EXCEPT ![c] = i]
  PROVE  /\ Cardinality(Inside(i))' = Cardinality(Inside(i)) + 1
         /\ Cardinality(Inside(i)) + 1 <= Cardinality(Callers)
         /\ \A k \in Ids \ {i} : Inside(k)' = Inside(k)
  <1>1. Inside(i)' = Inside(i) \cup {c} /\ c \notin Inside(i)
    BY SentinelAssumption DEF TypeOK, Inside
  <1>2. \A k \in Ids \ {i} : Inside(k)' = Inside(k)
    BY SentinelAssumption DEF TypeOK, Inside
  <1>3. Cardinality(Inside(i) \cup {c}) = Cardinality(Inside(i)) + 1
    BY <1>1, InsideBounds, FS_AddElement
  <1>4. Inside(i) \cup {c} \subseteq Callers
    BY DEF Inside
  <1>5. Cardinality(Inside(i) \cup {c}) <= Cardinality(Callers)
    BY <1>4, CallersFinite, FS_Subset
  <1> QED BY <1>1, <1>2, <1>3, <1>5

\* Every step keeps the count.
LEMMA StepStarts ==
  ASSUME IInv, StartsCounted, StartsBounded, [Next]_vars
  PROVE  StartsCounted' /\ StartsBounded'
  <1> DEFINE N == Cardinality(Callers)
  <1>0. TypeOK /\ made \in Nat /\ crashes \in Nat /\ runs \in [Ids -> Nat]
        /\ \A i \in Ids : Cardinality(Inside(i)) \in Nat /\ N * crashes \in Nat
    BY QueueAssumption, InsideBounds, OneMoreLife DEF IInv, TypeOK
  \* A step that starts no tool and lets no caller in keeps the bound.
  <1>1. ASSUME UNCHANGED <<runs, crashes>> PROVE StartsBounded'
    BY <1>1 DEF StartsBounded
  \* Nor does it disturb the count, if what it leaves pending was pending.
  <1>2. ASSUME UNCHANGED <<runs, calls, crashes, up>>, made' = made,
               \A i \in Ids : items'[i].status = "pending" => items[i].status = "pending"
        PROVE  StartsCounted'
    BY <1>2 DEF StartsCounted, Inside
  <1>3. ASSUME NEW s \in Steps, Enqueue(s) PROVE StartsCounted' /\ StartsBounded'
    <2>1. UNCHANGED <<up, calls, runs, crashes>> /\ made' = made + 1 /\ made + 1 \in Ids /\ up
      BY <1>3, <1>0, QueueAssumption DEF Enqueue, Ids
    <2>2. items' = [items EXCEPT ![made + 1] = [step |-> s, status |-> "pending"]]
      BY <1>3 DEF Enqueue
    <2>3. runs[made + 1] = 0 /\ \A i \in Ids : i > made' => runs'[i] = 0
      BY <2>1, <1>0 DEF StartsCounted, Ids
    <2>4. ASSUME NEW i \in Ids, items'[i].status = "pending"
          PROVE  runs'[i] <= (N * crashes + Cardinality(Inside(i)))'
      <3>1. Inside(i)' = Inside(i)
        BY <2>1 DEF Inside
      <3>2. CASE i = made + 1
        BY <3>1, <3>2, <2>1, <2>3, <1>0
      <3>3. CASE i # made + 1
        BY <3>1, <3>3, <2>1, <2>2, <2>4, <1>0 DEF StartsCounted, TypeOK, Items
      <3> QED BY <3>2, <3>3
    <2> QED BY <2>1, <2>3, <2>4, <1>1 DEF StartsCounted
  <1>4. ASSUME NEW i \in Ids, Reject(i) \/ ApproveOrphan(i)
        PROVE  StartsCounted' /\ StartsBounded'
    <2>1. UNCHANGED <<up, made, calls, runs, crashes>>
      BY <1>4 DEF Reject, ApproveOrphan
    <2>2. \A k \in Ids : items'[k].status = "pending" => items[k].status = "pending"
      BY <1>4, <1>0 DEF Reject, ApproveOrphan, TypeOK, Items
    <2> QED BY <2>1, <2>2, <1>1, <1>2
  <1>5. ASSUME NEW c \in Callers, NEW i \in Ids, ApproveStart(c, i)
        PROVE  StartsCounted' /\ StartsBounded'
    <2>1. /\ UNCHANGED <<up, items, made, crashes>> /\ items[i].status = "pending"
          /\ runs' = [runs EXCEPT ![i] = @ + 1]
          /\ calls[c] = NoCall /\ calls' = [calls EXCEPT ![c] = i]
      BY <1>5 DEF ApproveStart
    <2>2. /\ Cardinality(Inside(i))' = Cardinality(Inside(i)) + 1
          /\ Cardinality(Inside(i)) + 1 <= N
          /\ \A k \in Ids \ {i} : Inside(k)' = Inside(k)
      BY <2>1, <1>0, OneMoreInside
    <2>3. i \in 1..made
      BY <2>1, <1>0 DEF IInv, Fresh, Ids
    <2>4. ASSUME NEW k \in Ids, k > made' PROVE runs'[k] = 0
      <3>1. k # i /\ runs[k] = 0
        BY <2>1, <2>3, <2>4, <1>0 DEF StartsCounted
      <3> QED BY <3>1, <2>1, <1>0
    <2>5. ASSUME NEW k \in Ids, items'[k].status = "pending" \/ ~up'
          PROVE  runs'[k] <= (N * crashes + Cardinality(Inside(k)))'
      <3>1. CASE k = i
        <4>1. runs[i] <= N * crashes + Cardinality(Inside(i))
          BY <2>1 DEF StartsCounted
        <4>2. runs'[i] = runs[i] + 1
          BY <2>1, <1>0
        <4> HIDE DEF N
        <4> QED BY <4>1, <4>2, <3>1, <2>1, <2>2, <1>0
      <3>2. CASE k # i
        BY <3>2, <2>1, <2>2, <2>5, <1>0 DEF StartsCounted
      <3> QED BY <3>1, <3>2
    <2>6. StartsCounted'
      BY <2>4, <2>5 DEF StartsCounted
    <2>7. StartsBounded'
      <3>1. runs[i] <= N * crashes + Cardinality(Inside(i)) /\ runs'[i] = runs[i] + 1
        BY <2>1, <1>0 DEF StartsCounted
      <3>2. runs'[i] <= N * (crashes + 1)
        <4>1. N \in Nat /\ N * (crashes + 1) = N * crashes + N
          BY <1>0, CallersFinite, FS_CardinalityType, OneMoreLife
        <4> HIDE DEF N
        <4> QED BY <4>1, <3>1, <2>2, <1>0
      <3>3. \A k \in Ids \ {i} : runs'[k] = runs[k]
        BY <2>1, <1>0
      <3> QED BY <3>2, <3>3, <2>1 DEF StartsBounded
    <2> QED BY <2>6, <2>7
  <1>6. ASSUME NEW c \in Callers, ApproveEnd(c) PROVE StartsCounted' /\ StartsBounded'
    <2>1. UNCHANGED <<up, made, runs, crashes>> /\ calls[c] \in Ids /\ up
          /\ calls' = [calls EXCEPT ![c] = NoCall]
      BY <1>6, <1>0 DEF ApproveEnd, TypeOK
    <2>2. \A k \in Ids : items'[k].status = "pending" =>
                          k # calls[c] /\ items[k].status = "pending"
      BY <1>6, <2>1, <1>0 DEF ApproveEnd, Settle, TypeOK, Items
    <2>3. \A k \in Ids : k # calls[c] => Inside(k)' = Inside(k)
      BY <2>1, <1>0, SentinelAssumption DEF Inside, TypeOK
    <2> QED BY <2>1, <2>2, <2>3, <1>1 DEF StartsCounted
  <1>7. CASE Prune
    <2>1. UNCHANGED <<up, made, calls, runs, crashes>>
      BY <1>7 DEF Prune
    <2>2. \A k \in Ids : items'[k].status = "pending" => items[k].status = "pending"
      BY <1>7 DEF Prune, Blank
    <2> QED BY <2>1, <2>2, <1>1, <1>2
  \* The process dies with everybody inside: all of them have been counted.
  <1>8. CASE Crash
    <2>1. UNCHANGED <<made, runs>> /\ crashes' = crashes + 1
      BY <1>8 DEF Crash
    <2>2. N * (crashes + 1) = N * crashes + N /\ N \in Nat
          /\ N * (crashes' + 1) = N * crashes' + N /\ N * crashes' \in Nat
      BY <2>1, <1>0, CallersFinite, FS_CardinalityType, OneMoreLife
    <2>3. ASSUME NEW i \in Ids PROVE runs'[i] <= N * crashes'
      BY <2>1 DEF StartsBounded
    <2>4. StartsBounded'
      <3> HIDE DEF N
      <3>1. \A i \in Ids : runs'[i] <= N * (crashes' + 1)
        BY <2>1, <2>2, <2>3, <1>0
      <3> QED BY <3>1 DEF StartsBounded, N
    <2>5. \A i \in Ids : Cardinality(Inside(i))' \in Nat
      <3>1. \A i \in Ids : Inside(i)' = {}
        BY <1>8, SentinelAssumption DEF Crash, Inside
      <3> QED BY <3>1, FS_EmptySet
    <2>6. \A i \in Ids : runs'[i] <= N * crashes' + Cardinality(Inside(i))'
      <3> HIDE DEF N
      <3> QED BY <2>1, <2>2, <2>3, <2>5, <1>0
    <2> QED BY <2>1, <2>4, <2>6 DEF StartsCounted
  <1>9. CASE Load
    BY <1>9 DEF Load, IInv, StartsCounted, StartsBounded, Inside
  <1>10. CASE UNCHANGED vars
    BY <1>10 DEF vars, StartsCounted, StartsBounded, Inside
  <1> QED
    BY <1>3, <1>4, <1>5, <1>6, <1>7, <1>8, <1>9, <1>10 DEF Next

\* A tool is started for one item at most once per caller and process life.
THEOREM QueueStartsBounded == Spec => []StartsBounded
  <1>1. Init => StartsCounted /\ StartsBounded
    <2> SUFFICES ASSUME Init PROVE StartsCounted /\ StartsBounded
      OBVIOUS
    <2>1. TypeOK /\ \A i \in Ids : runs[i] = 0
      BY InitIInv DEF IInv, Init
    <2>2. \A i \in Ids : items[i].status = "absent" /\ up
      BY DEF Init, Empty, Blank
    <2>3. crashes = 0 /\ Cardinality(Callers) \in Nat
      BY CallersFinite, FS_CardinalityType DEF Init
    <2> QED BY <2>1, <2>2, <2>3 DEF StartsCounted, StartsBounded
  <1>2. IInv /\ StartsCounted /\ StartsBounded /\ [Next]_vars => StartsCounted' /\ StartsBounded'
    BY StepStarts
  <1> QED BY <1>1, <1>2, QueueInvariant, PTL DEF Spec

\* What the test asserts is true of approvals that do not overlap: with one
\* caller and no restart, a tool is started at most once for an item.
THEOREM QueueAlone ==
  ASSUME Cardinality(Callers) = 1
  PROVE  Spec => []ApprovedAtMostOnce
  <1>1. StartsBounded => ApprovedAtMostOnce
    BY DEF StartsBounded, ApprovedAtMostOnce
  <1> QED BY <1>1, QueueStartsBounded, PTL
=============================================================================
