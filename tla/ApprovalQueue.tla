--------------------------- MODULE ApprovalQueue ---------------------------
(***************************************************************************)
(* The queue of outward actions the unattended worker deferred to the      *)
(* owner (brain/approvals.py) with the two tools that drain it             *)
(* (brain/tools/approvals.py).                                             *)
(*                                                                         *)
(* The queue is one dict on the brain's event loop, so every method runs   *)
(* without interleaving except `approve`, which awaits the approved tool   *)
(* between reading the item's status and writing the outcome: it is two    *)
(* actions here, and whatever else the owner says lands between them.      *)
(* A barge-in cancels the turn but not the tool it was awaiting, so the    *)
(* call outlives the turn that made it.                                    *)
(***************************************************************************)
EXTENDS Naturals, FiniteSets

CONSTANTS
  Steps,       \* deferred actions: a (tool, args, origin) triple each
  Orphans,     \* the steps whose tool no longer has a handler
  Callers,     \* tool calls that can be inside `approve` at the same time
  MaxItems,    \* bound: approvals ever created
  MaxCrashes,  \* bound: brain restarts
  Keep,        \* resolved items `prune` keeps
  NoCall,      \* a caller that is not inside `approve`
  NoFile       \* approvals.json missing or unreadable

ASSUME QueueAssumption ==
  /\ Orphans \subseteq Steps
  /\ MaxItems \in Nat /\ MaxCrashes \in Nat /\ Keep \in Nat

Ids      == 1..MaxItems
Resolved == {"approved", "rejected", "failed"}
Status   == {"absent", "pending"} \cup Resolved
Items    == [Ids -> [step : Steps, status : Status]]

ASSUME StepsNonEmpty == Steps # {}
ASSUME CallersFinite == IsFiniteSet(Callers)
ASSUME SentinelAssumption == NoFile \notin Items /\ NoCall \notin Ids

VARIABLES
  up,        \* the brain process is alive
  items,     \* ApprovalQueue._items (id order is creation order)
  disk,      \* what approvals.json parses to
  made,      \* approvals created so far: ids are never reused
  calls,     \* caller -> the item whose tool it is awaiting
  saved,     \* did the last `_save` reach the disk?
  runs,      \* history: times each item's tool was started
  answered,  \* history: items this process told the owner are settled
  crashes

vars == <<up, items, disk, made, calls, saved, runs, answered, crashes>>

Blank == [step |-> CHOOSE s \in Steps : TRUE, status |-> "absent"]
Empty == [i \in Ids |-> Blank]

\* Which item holds a status; the queue's pending view.
Pending == {i \in Ids : items[i].status = "pending"}

TypeOK ==
  /\ up \in BOOLEAN
  /\ items \in Items
  /\ disk \in Items \cup {NoFile}
  /\ made \in 0..MaxItems
  /\ calls \in [Callers -> Ids \cup {NoCall}]
  /\ saved \in BOOLEAN
  /\ runs \in [Ids -> Nat]
  /\ answered \subseteq Ids
  /\ crashes \in 0..MaxCrashes

Init ==
  /\ up = TRUE
  /\ items = Empty
  /\ disk = NoFile
  /\ made = 0
  /\ calls = [c \in Callers |-> NoCall]
  /\ saved = TRUE
  /\ runs = [i \in Ids |-> 0]
  /\ answered = {}
  /\ crashes = 0

-----------------------------------------------------------------------------
\* `_save` rewrites the file in place and swallows every error: it lands, it
\* leaves the old file (mkdir or open refused), or it leaves a truncated one.
Save(new) ==
  \/ disk' = new /\ saved' = TRUE
  \/ disk' \in {disk, NoFile} /\ saved' = FALSE

\* Write a status through to the live item; an item pruned meanwhile is a
\* detached object nobody reads again.
Settle(i, st) ==
  IF items[i].status = "absent" THEN items
                                ELSE [items EXCEPT ![i].status = st]

\* Variant: the (tool, args, origin) comparison dropped.
EnqueueUndeduped(s) ==
  /\ up
  /\ made < MaxItems
  /\ made' = made + 1
  /\ items' = [items EXCEPT ![made + 1] = [step |-> s, status |-> "pending"]]
  /\ Save(items')
  /\ UNCHANGED <<up, calls, runs, answered, crashes>>

\* The worker defers a step; a step already pending is handed back unchanged.
Enqueue(s) ==
  /\ up
  /\ \A i \in Pending : items[i].step # s
  /\ made < MaxItems
  /\ made' = made + 1
  /\ items' = [items EXCEPT ![made + 1] = [step |-> s, status |-> "pending"]]
  /\ Save(items')
  /\ UNCHANGED <<up, calls, runs, answered, crashes>>

\* Variant: the rejection recorded under a status nothing else knows.
RejectMisspelt(i) ==
  /\ up
  /\ items[i].status = "pending"
  /\ items' = [items EXCEPT ![i].status = "declined"]
  /\ Save(items')
  /\ answered' = answered \cup {i}
  /\ UNCHANGED <<up, made, calls, runs, crashes>>

\* Variant: the rejection not written through.
RejectUnsaved(i) ==
  /\ up
  /\ items[i].status = "pending"
  /\ items' = [items EXCEPT ![i].status = "rejected"]
  /\ answered' = answered \cup {i}
  /\ UNCHANGED <<up, disk, made, calls, saved, runs, crashes>>

\* reject_action: the owner is told "I won't run it".
Reject(i) ==
  /\ up
  /\ items[i].status = "pending"
  /\ items' = [items EXCEPT ![i].status = "rejected"]
  /\ Save(items')
  /\ answered' = answered \cup {i}
  /\ UNCHANGED <<up, made, calls, runs, crashes>>

\* approve, up to `await fn(a.args)`: the status stays pending meanwhile.
ApproveStart(c, i) ==
  /\ up
  /\ calls[c] = NoCall
  /\ items[i].status = "pending"
  /\ items[i].step \notin Orphans
  /\ calls' = [calls EXCEPT ![c] = i]
  /\ runs' = [runs EXCEPT ![i] = @ + 1]
  /\ UNCHANGED <<up, items, disk, made, saved, answered, crashes>>

\* approve when the registry has no such tool any more.
ApproveOrphan(i) ==
  /\ up
  /\ items[i].status = "pending"
  /\ items[i].step \in Orphans
  /\ items' = [items EXCEPT ![i].status = "failed"]
  /\ Save(items')
  /\ answered' = answered \cup {i}
  /\ UNCHANGED <<up, made, calls, runs, crashes>>

\* Variant: a failed tool puts its item back for another try.
ApproveEndRequeues(c) ==
  /\ up
  /\ calls[c] # NoCall
  /\ \E st \in {"approved", "pending"} : items' = Settle(calls[c], st)
  /\ Save(items')
  /\ calls' = [calls EXCEPT ![c] = NoCall]
  /\ answered' = answered \cup {calls[c]}
  /\ UNCHANGED <<up, made, runs, crashes>>

\* The tool returned or raised: record the outcome, whatever the status is now.
ApproveEnd(c) ==
  /\ up
  /\ calls[c] # NoCall
  /\ \E st \in {"approved", "failed"} : items' = Settle(calls[c], st)
  /\ Save(items')
  /\ calls' = [calls EXCEPT ![c] = NoCall]
  /\ answered' = answered \cup {calls[c]}
  /\ UNCHANGED <<up, made, runs, crashes>>

\* prune: all but `Keep` resolved items go. Which ones are oldest is left open.
Prune ==
  LET resolved == {i \in Ids : items[i].status \in Resolved}
  IN  /\ up
      /\ Cardinality(resolved) > Keep
      /\ \E gone \in SUBSET resolved :
           /\ Cardinality(resolved \ gone) = Keep
           /\ items' = [i \in Ids |-> IF i \in gone THEN Blank ELSE items[i]]
      /\ Save(items')
      /\ UNCHANGED <<up, made, calls, runs, answered, crashes>>

\* The brain dies; an approved tool dies with it, its outward effect may not.
Crash ==
  /\ up
  /\ crashes < MaxCrashes
  /\ crashes' = crashes + 1
  /\ up' = FALSE
  /\ calls' = [c \in Callers |-> NoCall]
  /\ items' = Empty
  /\ answered' = {}
  /\ UNCHANGED <<disk, made, saved, runs>>

\* Variant: only what was asked for is loaded, not how it was settled.
LoadForgetsStatus ==
  /\ ~up
  /\ up' = TRUE
  /\ items' = IF disk = NoFile THEN Empty
              ELSE [i \in Ids |-> IF disk[i].status = "absent" THEN Blank
                                 ELSE [disk[i] EXCEPT !.status = "pending"]]
  /\ UNCHANGED <<disk, made, calls, saved, runs, answered, crashes>>

\* A fresh process loads the file; an unreadable one starts empty.
Load ==
  /\ ~up
  /\ up' = TRUE
  /\ items' = IF disk = NoFile THEN Empty ELSE disk
  /\ UNCHANGED <<disk, made, calls, saved, runs, answered, crashes>>

Next ==
  \/ \E s \in Steps : Enqueue(s)
  \/ \E i \in Ids : Reject(i) \/ ApproveOrphan(i)
  \/ \E c \in Callers, i \in Ids : ApproveStart(c, i)
  \/ \E c \in Callers : ApproveEnd(c)
  \/ Prune
  \/ Crash
  \/ Load

Spec == Init /\ [][Next]_vars

-----------------------------------------------------------------------------
\* A worker retrying a step never stacks duplicates: at most one pending item
\* per (tool, args, origin), across any mix of settling, crashes and reloads.
OnePendingPerStep ==
  \A i, j \in Pending : items[i].step = items[j].step => i = j

\* Once the owner has heard an answer about an item, this process never lets
\* it become runnable again: "that action isn't pending any more, sir". The
\* overlap of an approval with a rejection or a second approval included.
AnsweredIsSettled ==
  \A i \in answered : items[i].status # "pending"

\* Write-through: after a save that landed, a restart would load exactly the
\* queue in memory, so no decision the owner gave is forgotten by a crash.
DecisionsAreDurable ==
  up /\ saved /\ made > 0 => disk = items

\* A tool is started only for an item still undecided everywhere: not one the
\* owner has heard an answer about, and not one whose settlement is on disk,
\* whichever process wrote it and whatever failed to save afterwards.
DecidedNeverStarts ==
  [][\A i \in Ids : runs'[i] > runs[i] =>
        /\ i \notin answered
        /\ disk # NoFile => disk[i].status \notin Resolved]_vars

\* What bench/test_approvals.py asserts ("cannot approve twice"): with no
\* restart, an item's tool is started at most once.
ApprovedAtMostOnce ==
  crashes = 0 => \A i \in Ids : runs[i] <= 1
=============================================================================
