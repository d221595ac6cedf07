----------------------------- MODULE Background -----------------------------
(***************************************************************************)
(* Work that outlives the turn that asked for it: the task queue and its   *)
(* runners (brain/tasks.py), the delegation to the fleet they run          *)
(* (brain/delegation.py, brain/fleet.py), and the unit each delegation     *)
(* keeps on the work record (brain/coordination.py, module WorkRecord).    *)
(*                                                                         *)
(* A runner suspends in the call and in the announcement; everything       *)
(* between two suspensions is one action. Rows and units are in SQLite,    *)
(* every write may fail and is swallowed, the process may die, and another *)
(* process that imports the queue treats the running rows as its own dead. *)
(* Time matters to the ceilings of the fleet's transports and the deadline *)
(* of a unit only, and is counted from each delegation's start. The unit   *)
(* of a delegation is alone in its job, so nobody else claims it.          *)
(***************************************************************************)
EXTENDS Integers, FiniteSets

CONSTANTS
  Jobs,      \* what is asked for
  Fleet,     \* of these, the ones delegated to the fleet; a worker does the others
  Blocking,  \* of the delegated ones, those a turn waits for: they have no row
  Timeout,   \* settings.openclaw_request_timeout_seconds, in clock units
  WsMargin, CliMargin, \* what each transport adds to it
  Slack,     \* DEADLINE_SLACK_S
  MaxFaults  \* bound: restarts and failed writes and reads

ASSUME JobsAssumption == Fleet \subseteq Jobs /\ Blocking \subseteq Fleet

\* A transport alone stays within the deadline (45 s and 60 s against 90 s).
ASSUME TimesAssumption ==
  /\ Timeout \in Nat /\ WsMargin \in Nat /\ CliMargin \in Nat /\ Slack \in Nat
  /\ WsMargin <= Slack /\ CliMargin <= Slack

ASSUME FaultsAssumption == MaxFaults \in Nat

VARIABLES
  phase,   \* job -> where its runner is
  mem,     \* job -> the status in TaskQueue._tasks
  db,      \* job -> the status of its row in the tasks table
  unit,    \* job -> the state of its unit
  owns,    \* the jobs whose `tracked` has the id of its unit
  fell,    \* the delegations that fell back to the CLI
  age,     \* job -> time since its delegation started, while it runs
  spent,   \* job -> time in its transport
  missed,  \* history: the jobs a write, or the read a claim needs, was lost for
  faults

queue   == <<mem, db>>
record  == <<unit, owns>>
timing  == <<fell, age, spent>>
vars    == <<phase, queue, record, timing, missed, faults>>

Calling == {"ws", "cli", "work"}
Alive   == {"queued", "announcing"} \cup Calling
Phases  == {"unasked", "over", "killed"} \cup Alive
Status  == {"none", "running", "done", "failed"}

\* The ceilings: wait_for around the websocket, the timeout of the CLI process.
Ceiling(p) == IF p = "ws" THEN Timeout + WsMargin ELSE Timeout + CliMargin

\* The domains of the state; a transport ends within its ceiling.
TypeOK ==
  /\ phase \in [Jobs -> Phases]
  /\ mem \in [Jobs -> Status] /\ db \in [Jobs -> Status]
  /\ unit \in [Jobs -> {"none", "open", "held", "done", "failed"}] /\ owns \subseteq Jobs
  /\ fell \subseteq Fleet /\ age \in [Jobs -> Nat] /\ spent \in [Jobs -> Nat]
  /\ \A j \in Jobs : phase[j] \in {"ws", "cli"} => spent[j] <= Ceiling(phase[j])
  /\ missed \subseteq Jobs /\ faults \in 0..MaxFaults

Init ==
  /\ phase = [j \in Jobs |-> "unasked"]
  /\ mem = [j \in Jobs |-> "none"] /\ db = mem /\ unit = mem /\ owns = {}
  /\ fell = {} /\ age = [j \in Jobs |-> 0] /\ spent = age
  /\ missed = {} /\ faults = 0

\* A write that lands, or the disk refuses it and the caller goes on.
Fault == faults < MaxFaults /\ faults' = faults + 1
Lost(j) == Fault /\ missed' = missed \cup {j}
NoFault == UNCHANGED <<missed, faults>>

-----------------------------------------------------------------------------
(* The queue. *)

\* TaskQueue.run: the row is added and the runner created, to run later. A
\* delegation a turn waits for has no row, and a task of its own that outlives
\* the turn when it is cancelled (agent.py:1858).
Run(j) ==
  /\ phase[j] = "unasked"
  /\ phase' = [phase EXCEPT ![j] = "queued"]
  /\ IF j \in Blocking
     THEN UNCHANGED queue /\ NoFault
     ELSE /\ mem' = [mem EXCEPT ![j] = "running"]
          /\ \/ db' = [db EXCEPT ![j] = "running"] /\ NoFault
             \/ UNCHANGED db /\ Lost(j)
  /\ UNCHANGED <<record, timing>>

\* update: a progress note writes the whole row again.
Progress(j) ==
  /\ phase[j] \in {"ws", "work"} /\ j \notin Blocking
  /\ db' = [db EXCEPT ![j] = mem[j]]
  /\ UNCHANGED <<phase, mem, record, timing, missed, faults>>

\* Variant: rows are loaded as they are.
ExpiredNever == db

\* _load: running rows are of a dead process, whoever loads them.
Expired == [j \in Jobs |-> IF db[j] = "running" THEN "failed" ELSE db[j]]

\* Variant: rows come back as they were.
ReloadedRows == db

\* A job is not loaded back: its runner died with the process.
Reloaded == [j \in Jobs |-> "none"]

\* Another process imports the module.
PeerLoads ==
  /\ db' = Expired
  /\ UNCHANGED <<phase, mem, record, timing, missed, faults>>

\* The brain dies and starts again. The expiry may fail like any other write.
Restart ==
  /\ Fault
  /\ phase' = [j \in Jobs |-> IF phase[j] \in Alive THEN "killed" ELSE phase[j]]
  /\ mem' = Reloaded /\ owns' = {} /\ fell' = {}
  /\ age' = [j \in Jobs |-> 0] /\ spent' = age'
  /\ \/ db' = Expired /\ UNCHANGED missed
     \/ UNCHANGED db /\ missed' = missed \cup {j \in Jobs : db[j] = "running"}
  /\ UNCHANGED unit

-----------------------------------------------------------------------------
(* The delegation. *)

\* start: the unit is posted, and claimed in a second transaction. Without an
\* id the delegation runs untracked, and a unit that was posted stays open.
Opened(j) ==
  \/ unit' = [unit EXCEPT ![j] = "held"] /\ owns' = owns \cup {j} /\ NoFault
  \/ \E s \in {"none", "open"} : unit' = [unit EXCEPT ![j] = s] /\ UNCHANGED owns /\ Lost(j)

\* The runner's first step. The websocket is skipped when there is no token or
\* it failed lately.
Start(j) ==
  /\ phase[j] = "queued"
  /\ IF j \in Fleet
     THEN Opened(j) /\ \E p \in {"ws", "cli"} : phase' = [phase EXCEPT ![j] = p]
     ELSE UNCHANGED record /\ NoFault /\ phase' = [phase EXCEPT ![j] = "work"]
  /\ UNCHANGED <<queue, timing>>

\* start: the unit is posted, but the read of it that names its job for the claim
\* comes back empty. That raises before tracked's try: nobody is called, the unit
\* stays open, and the job has failed.
NeverCalled(j) ==
  /\ phase[j] = "queued" /\ j \in Fleet
  /\ unit' = [unit EXCEPT ![j] = "open"] /\ Lost(j)
  /\ phase' = [phase EXCEPT ![j] = IF j \in Blocking THEN "over" ELSE "announcing"]
  /\ mem' = IF j \in Blocking THEN mem ELSE [mem EXCEPT ![j] = "failed"]
  /\ db' \in {db, [db EXCEPT ![j] = mem'[j]]}
  /\ UNCHANGED <<owns, timing>>

\* delegate_to_fleet: whatever goes wrong on the websocket, its timeout too,
\* goes to the CLI, which has its own full time.
FallBack(j) ==
  /\ phase[j] = "ws"
  /\ phase' = [phase EXCEPT ![j] = "cli"]
  /\ fell' = fell \cup {j} /\ spent' = [spent EXCEPT ![j] = 0]
  /\ UNCHANGED <<queue, record, age, missed, faults>>

\* Variant: only an answer closes the unit.
ClosedByAnswer(j, outcome) == IF outcome = "done" THEN [unit EXCEPT ![j] = outcome] ELSE unit

\* tracked: finish on an answer, rejected ones too, failed on an exception.
Closed(j, outcome) == [unit EXCEPT ![j] = outcome]

\* The call returns or raises: the unit is closed, the row completed, and the
\* announcement begins, or the turn has its answer. Each write may be lost.
End(j, outcome) ==
  /\ phase[j] \in Calling /\ (phase[j] = "ws" => outcome = "done")
  /\ phase' = [phase EXCEPT ![j] = IF j \in Blocking THEN "over" ELSE "announcing"]
  /\ mem' = IF j \in Blocking THEN mem ELSE [mem EXCEPT ![j] = outcome]
  /\ owns' = owns \ {j}
  /\ LET closed == IF j \in owns THEN Closed(j, outcome) ELSE unit
         done == [db EXCEPT ![j] = mem'[j]]
     IN  \/ unit' = closed /\ db' = done /\ NoFault
         \/ unit' \in {unit, closed} /\ db' \in {db, done} /\ Lost(j)
  /\ fell' = fell \ {j} /\ age' = [age EXCEPT ![j] = 0] /\ spent' = [spent EXCEPT ![j] = 0]

\* Variant: the row is what is announced, once it says the job is over.
ReportRecorded(j) ==
  /\ phase[j] = "announcing" /\ db[j] = mem[j]
  /\ phase' = [phase EXCEPT ![j] = "over"]
  /\ mem' = [mem EXCEPT ![j] = "none"] /\ db' = [db EXCEPT ![j] = "none"]
  /\ UNCHANGED <<record, timing, missed, faults>>

\* The announcement is over, heard or not, and the job is dropped.
Report(j) ==
  /\ phase[j] = "announcing"
  /\ phase' = [phase EXCEPT ![j] = "over"]
  /\ mem' = [mem EXCEPT ![j] = "none"]
  /\ \/ db' = [db EXCEPT ![j] = "none"] /\ NoFault
     \/ UNCHANGED db /\ Lost(j)
  /\ UNCHANGED <<record, timing>>

\* Variant: a unit gets no longer than the call is given.
DeadlineTight == Timeout

\* _deadline_s
Deadline == Timeout + Slack

\* Unit.late
Late(j) == unit[j] \in {"open", "held"} /\ age[j] > Deadline

\* Variant: no transport has a ceiling.
TickFreely ==
  /\ age' = [j \in Jobs |-> IF phase[j] \in {"ws", "cli"} THEN age[j] + 1 ELSE age[j]]
  /\ spent' = [j \in Jobs |-> IF phase[j] \in {"ws", "cli"} THEN spent[j] + 1 ELSE spent[j]]
  /\ UNCHANGED <<phase, queue, record, fell, missed, faults>>

\* Time passes, but for no transport beyond its ceiling.
Tick ==
  LET under == {j \in Fleet : phase[j] \in {"ws", "cli"}}
  IN  /\ under # {} /\ \A j \in under : spent[j] < Ceiling(phase[j])
      /\ age' = [j \in Jobs |-> IF j \in under THEN age[j] + 1 ELSE age[j]]
      /\ spent' = [j \in Jobs |-> IF j \in under THEN spent[j] + 1 ELSE spent[j]]
      /\ UNCHANGED <<phase, queue, record, fell, missed, faults>>

Step(j) ==
  \/ Start(j) \/ NeverCalled(j) \/ FallBack(j) \/ Report(j)
  \/ \E outcome \in {"done", "failed"} : End(j, outcome)

Next ==
  \/ \E j \in Jobs : Run(j) \/ Step(j) \/ Progress(j)
  \/ Tick \/ PeerLoads \/ Restart

Spec == Init /\ [][Next]_vars

\* The event loop runs what it is given; a call ends, its transports and the
\* worker's steps being bounded, and so does an announcement.
FairSpec == Spec /\ \A j \in Jobs : WF_vars(Step(j))

-----------------------------------------------------------------------------
(* Properties. *)

\* A row says a job is running only while a runner of this process has it,
\* unless a write for it was lost (tasks.py:193-207, the pile-up of orphans).
NoGhosts ==
  \A j \in Jobs \ missed : db[j] = "running" => phase[j] \in {"queued"} \cup Calling

\* The owner asking for a job is told it is running exactly while it is, and
\* never of one a restart ended (tasks.py:219-235).
StatusTrue ==
  \A j \in Jobs \ Blocking : mem[j] = "running" <=> phase[j] \in {"queued"} \cup Calling

\* A unit is not closed only while its delegation runs, or because a restart
\* took the runner or a write was lost (delegation.py:193-195).
UnitsClosed ==
  \A j \in Jobs \ missed : unit[j] \in {"open", "held"} => phase[j] \in {"ws", "cli", "killed"}

\* A late unit whose delegation still runs has fallen back to the second
\* transport: with one transport, late means gone (delegation.py:57-59).
LateMeansGone == \A j \in Fleet : Late(j) /\ phase[j] \in {"ws", "cli"} => j \in fell

\* Every job taken on is announced and dropped, or a restart took it.
EveryJobEnds == \A j \in Jobs : phase[j] = "queued" ~> phase[j] \in {"over", "killed"}
=============================================================================
