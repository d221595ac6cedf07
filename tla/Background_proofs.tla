-------------------------- MODULE Background_proofs --------------------------
(***************************************************************************)
(* Proofs about Background, for any jobs, times and number of faults.      *)
(*                                                                         *)
(* A unit is closed because whoever runs a delegation whose writes landed  *)
(* still has the id of its unit, and a unit is late with one transport     *)
(* behind it only because nothing but that transport has been timed: this  *)
(* is what the invariant adds.                                             *)
(***************************************************************************)
EXTENDS Background, TLAPS

\* Only the fleet's jobs are on a transport, and only a worker's are worked on.
InItsPlace ==
  \A j \in Jobs : /\ phase[j] \in {"ws", "cli"} => j \in Fleet
                  /\ phase[j] = "work" => j \notin Fleet

\* A turn's own delegation has no row.
Blocked == \A j \in Blocking : mem[j] = "none" /\ db[j] = "none" /\ phase[j] # "announcing"

\* The id of a unit is lost with a write, or with the runner.
OwnsItsUnit ==
  /\ \A j \in owns : unit[j] = "held" /\ phase[j] \in {"ws", "cli"}
  /\ \A j \in Jobs \ missed :
        unit[j] \in {"open", "held"} /\ phase[j] \in {"ws", "cli"} => j \in owns

\* Before the fall-back, the transport's time is the delegation's.
Timed ==
  \A j \in Jobs :
    /\ phase[j] \notin {"ws", "cli"} => age[j] = 0 /\ spent[j] = 0 /\ j \notin fell
    /\ phase[j] = "ws" => j \notin fell
    /\ j \notin fell => age[j] = spent[j]

IInv ==
  /\ TypeOK /\ InItsPlace /\ Blocked /\ OwnsItsUnit /\ Timed
  /\ NoGhosts /\ StatusTrue /\ UnitsClosed

(* Nothing has been asked for at first. *)
LEMMA InitIInv == Init => IInv
  BY JobsAssumption, FaultsAssumption
  DEF Init, IInv, TypeOK, InItsPlace, Blocked, OwnsItsUnit, Timed, NoGhosts, StatusTrue, UnitsClosed,
      Phases, Alive, Calling, Status

(* A job taken on is recorded as running, and nothing is delegated yet. *)
LEMMA RunStep ==
  ASSUME IInv, NEW j \in Jobs, Run(j) PROVE IInv'
  <1> USE DEF IInv, Run, Lost, Fault, NoFault
  <1>1. TypeOK'
    <2>1. phase' \in [Jobs -> Phases] /\ mem' \in [Jobs -> Status] /\ db' \in [Jobs -> Status]
      BY DEF TypeOK, Phases, Alive, Calling, Status, queue
    <2>2. unit' \in [Jobs -> {"none", "open", "held", "done", "failed"}] /\ owns' \subseteq Jobs
      BY DEF TypeOK, record
    <2>3. fell' \subseteq Fleet /\ age' \in [Jobs -> Nat] /\ spent' \in [Jobs -> Nat]
      BY DEF TypeOK, timing
    <2>4. \A k \in Jobs : phase'[k] \in {"ws", "cli"} => spent'[k] <= Ceiling(phase'[k])
      BY DEF TypeOK, timing
    <2>5. missed' \subseteq Jobs /\ faults' \in 0..MaxFaults
      BY FaultsAssumption DEF TypeOK
    <2> QED BY <2>1, <2>2, <2>3, <2>4, <2>5 DEF TypeOK
  <1>2. InItsPlace' /\ Blocked' /\ OwnsItsUnit' /\ Timed'
    BY JobsAssumption DEF TypeOK, InItsPlace, Blocked, OwnsItsUnit, Timed, queue, record, timing
  <1>3. NoGhosts' /\ StatusTrue' /\ UnitsClosed'
    BY DEF TypeOK, NoGhosts, StatusTrue, UnitsClosed, Calling, queue, record, timing
  <1> QED BY <1>1, <1>2, <1>3

(* The runner's first step opens a unit and keeps its id, or a write is lost. *)
LEMMA StartStep ==
  ASSUME IInv, NEW j \in Jobs, Start(j) PROVE IInv'
  <1> USE DEF IInv, Start, Opened, Lost, Fault, NoFault
  <1>1. TypeOK'
    <2>1. phase' \in [Jobs -> Phases] /\ mem' \in [Jobs -> Status] /\ db' \in [Jobs -> Status]
      BY DEF TypeOK, Phases, Alive, Calling, Status, queue
    <2>2. unit' \in [Jobs -> {"none", "open", "held", "done", "failed"}] /\ owns' \subseteq Jobs
      BY DEF TypeOK, record
    <2>3. fell' \subseteq Fleet /\ age' \in [Jobs -> Nat] /\ spent' \in [Jobs -> Nat]
      BY DEF TypeOK, timing
    <2>4. \A k \in Jobs : phase'[k] \in {"ws", "cli"} => spent'[k] <= Ceiling(phase'[k])
      BY JobsAssumption, TimesAssumption DEF TypeOK, Timed, Ceiling, timing
    <2>5. missed' \subseteq Jobs /\ faults' \in 0..MaxFaults
      BY FaultsAssumption DEF TypeOK
    <2> QED BY <2>1, <2>2, <2>3, <2>4, <2>5 DEF TypeOK
  <1>2. InItsPlace' /\ Blocked' /\ OwnsItsUnit' /\ Timed'
    BY JobsAssumption DEF TypeOK, InItsPlace, Blocked, OwnsItsUnit, Timed, queue, record, timing
  <1>3. NoGhosts' /\ StatusTrue' /\ UnitsClosed'
    BY DEF TypeOK, NoGhosts, StatusTrue, UnitsClosed, Calling, queue, record, timing
  <1> QED BY <1>1, <1>2, <1>3

(* A job that fails before its call has no transport to time and no id. *)
LEMMA NeverCalledStep ==
  ASSUME IInv, NEW j \in Jobs, NeverCalled(j) PROVE IInv'
  <1> USE DEF IInv, NeverCalled, Lost, Fault
  <1>1. TypeOK'
    <2>1. phase' \in [Jobs -> Phases] /\ mem' \in [Jobs -> Status] /\ db' \in [Jobs -> Status]
      BY DEF TypeOK, Phases, Alive, Calling, Status
    <2>2. unit' \in [Jobs -> {"none", "open", "held", "done", "failed"}] /\ owns' \subseteq Jobs
      BY DEF TypeOK
    <2>3. fell' \subseteq Fleet /\ age' \in [Jobs -> Nat] /\ spent' \in [Jobs -> Nat]
      BY DEF TypeOK, timing
    <2>4. \A k \in Jobs : phase'[k] \in {"ws", "cli"} => spent'[k] <= Ceiling(phase'[k])
      BY DEF TypeOK, timing
    <2>5. missed' \subseteq Jobs /\ faults' \in 0..MaxFaults
      BY FaultsAssumption DEF TypeOK
    <2> QED BY <2>1, <2>2, <2>3, <2>4, <2>5 DEF TypeOK
  <1>2. InItsPlace' /\ Blocked' /\ OwnsItsUnit' /\ Timed'
    BY JobsAssumption DEF TypeOK, InItsPlace, Blocked, OwnsItsUnit, Timed, timing
  <1>3. NoGhosts' /\ StatusTrue' /\ UnitsClosed'
    BY JobsAssumption DEF TypeOK, Blocked, NoGhosts, StatusTrue, UnitsClosed, Calling, timing
  <1> QED BY <1>1, <1>2, <1>3

(* The second transport starts from zero, the delegation does not. *)
LEMMA FallBackStep ==
  ASSUME IInv, NEW j \in Jobs, FallBack(j) PROVE IInv'
  <1> USE DEF IInv, FallBack
  <1>1. TypeOK'
    BY TimesAssumption
    DEF TypeOK, InItsPlace, Phases, Alive, Calling, Ceiling, queue, record
  <1>2. InItsPlace' /\ Blocked' /\ OwnsItsUnit' /\ Timed'
    BY JobsAssumption DEF TypeOK, InItsPlace, Blocked, OwnsItsUnit, Timed, queue, record
  <1>3. NoGhosts' /\ StatusTrue' /\ UnitsClosed'
    BY DEF TypeOK, NoGhosts, StatusTrue, UnitsClosed, Calling, queue, record
  <1> QED BY <1>1, <1>2, <1>3

(* The end of a call closes the unit its runner owns, or a write is lost. *)
LEMMA EndStep ==
  ASSUME IInv, NEW j \in Jobs, NEW outcome \in {"done", "failed"}, End(j, outcome) PROVE IInv'
  <1> USE DEF IInv, End, Closed, Lost, Fault, NoFault
  <1>1. TypeOK'
    <2>1. phase' \in [Jobs -> Phases] /\ mem' \in [Jobs -> Status] /\ db' \in [Jobs -> Status]
      BY DEF TypeOK, Phases, Alive, Calling, Status, queue
    <2>2. unit' \in [Jobs -> {"none", "open", "held", "done", "failed"}] /\ owns' \subseteq Jobs
      BY DEF TypeOK, record
    <2>3. fell' \subseteq Fleet /\ age' \in [Jobs -> Nat] /\ spent' \in [Jobs -> Nat]
      BY DEF TypeOK, timing
    <2>4. \A k \in Jobs : phase'[k] \in {"ws", "cli"} => spent'[k] <= Ceiling(phase'[k])
      BY DEF TypeOK
    <2>5. missed' \subseteq Jobs /\ faults' \in 0..MaxFaults
      BY FaultsAssumption DEF TypeOK
    <2> QED BY <2>1, <2>2, <2>3, <2>4, <2>5 DEF TypeOK
  <1>2. InItsPlace' /\ Blocked' /\ OwnsItsUnit' /\ Timed'
    BY JobsAssumption DEF TypeOK, InItsPlace, Blocked, OwnsItsUnit, Timed, Calling
  <1>3. NoGhosts' /\ StatusTrue'
    <2>1. CASE j \in Blocking
      <3>1. j \notin missed' => db'[j] # "running"
        BY <2>1 DEF TypeOK, NoGhosts, Blocked, Calling
      <3> QED BY <2>1, <3>1 DEF TypeOK, NoGhosts, StatusTrue, Calling
    <2>2. CASE j \notin Blocking
      BY <2>2 DEF TypeOK, NoGhosts, StatusTrue, Calling
    <2> QED BY <2>1, <2>2
  <1>4. UnitsClosed'
    BY DEF TypeOK, InItsPlace, OwnsItsUnit, UnitsClosed, Calling
  <1> QED BY <1>1, <1>2, <1>3, <1>4

(* The announced job is dropped. *)
LEMMA ReportStep ==
  ASSUME IInv, NEW j \in Jobs, Report(j) PROVE IInv'
  <1> USE DEF IInv, Report, Lost, Fault, NoFault
  <1>1. TypeOK'
    <2>1. phase' \in [Jobs -> Phases] /\ mem' \in [Jobs -> Status] /\ db' \in [Jobs -> Status]
      BY DEF TypeOK, Phases, Alive, Calling, Status, queue
    <2>2. unit' \in [Jobs -> {"none", "open", "held", "done", "failed"}] /\ owns' \subseteq Jobs
      BY DEF TypeOK, record
    <2>3. fell' \subseteq Fleet /\ age' \in [Jobs -> Nat] /\ spent' \in [Jobs -> Nat]
      BY DEF TypeOK, timing
    <2>4. \A k \in Jobs : phase'[k] \in {"ws", "cli"} => spent'[k] <= Ceiling(phase'[k])
      BY DEF TypeOK, timing
    <2>5. missed' \subseteq Jobs /\ faults' \in 0..MaxFaults
      BY FaultsAssumption DEF TypeOK
    <2> QED BY <2>1, <2>2, <2>3, <2>4, <2>5 DEF TypeOK
  <1>2. InItsPlace' /\ Blocked' /\ OwnsItsUnit' /\ Timed'
    BY JobsAssumption DEF TypeOK, InItsPlace, Blocked, OwnsItsUnit, Timed, record, timing
  <1>3. NoGhosts' /\ StatusTrue' /\ UnitsClosed'
    BY DEF TypeOK, NoGhosts, StatusTrue, UnitsClosed, Calling, record, timing
  <1> QED BY <1>1, <1>2, <1>3

(* A note writes what memory says, which is that the job runs. *)
LEMMA ProgressStep ==
  ASSUME IInv, NEW j \in Jobs, Progress(j) PROVE IInv'
  <1> USE DEF IInv, Progress
  <1>1. TypeOK'
    BY DEF TypeOK, record, timing
  <1>2. InItsPlace' /\ Blocked' /\ OwnsItsUnit' /\ Timed'
    BY JobsAssumption DEF TypeOK, InItsPlace, Blocked, OwnsItsUnit, Timed, record, timing
  <1>3. NoGhosts' /\ StatusTrue' /\ UnitsClosed'
    BY DEF TypeOK, NoGhosts, StatusTrue, UnitsClosed, Calling, record, timing
  <1> QED BY <1>1, <1>2, <1>3

(* Time passes for the transports in use, below their ceilings. *)
LEMMA TickStep ==
  ASSUME IInv, Tick PROVE IInv'
  <1> USE DEF IInv, Tick
  <1>1. TypeOK'
    <2>1. \A j \in Jobs : Ceiling(phase[j]) \in Nat
      BY TimesAssumption DEF Ceiling
    <2> QED BY <2>1 DEF TypeOK, InItsPlace, queue, record
  <1>2. InItsPlace' /\ Blocked' /\ OwnsItsUnit' /\ Timed'
    BY JobsAssumption DEF TypeOK, InItsPlace, Blocked, OwnsItsUnit, Timed, queue, record
  <1>3. NoGhosts' /\ StatusTrue' /\ UnitsClosed'
    BY DEF NoGhosts, StatusTrue, UnitsClosed, queue, record
  <1> QED BY <1>1, <1>2, <1>3

(* Loading expires rows and changes nothing else. *)
LEMMA PeerLoadsStep ==
  ASSUME IInv, PeerLoads PROVE IInv'
  <1> USE DEF IInv, PeerLoads, Expired
  <1>1. TypeOK'
    BY DEF TypeOK, Status, record, timing
  <1>2. InItsPlace' /\ Blocked' /\ OwnsItsUnit' /\ Timed'
    BY JobsAssumption DEF TypeOK, InItsPlace, Blocked, OwnsItsUnit, Timed, record, timing
  <1>3. NoGhosts' /\ StatusTrue' /\ UnitsClosed'
    BY DEF TypeOK, NoGhosts, StatusTrue, UnitsClosed, record, timing
  <1> QED BY <1>1, <1>2, <1>3

(* A restart takes the runners, and expires their rows or has lost the write. *)
LEMMA RestartStep ==
  ASSUME IInv, Restart PROVE IInv'
  <1> USE DEF IInv, Restart, Expired, Reloaded, Fault
  <1>1. TypeOK'
    <2>1. phase' \in [Jobs -> Phases] /\ mem' \in [Jobs -> Status] /\ db' \in [Jobs -> Status]
      BY DEF TypeOK, Phases, Alive, Calling, Status, queue
    <2>2. unit' \in [Jobs -> {"none", "open", "held", "done", "failed"}] /\ owns' \subseteq Jobs
      BY DEF TypeOK, record
    <2>3. fell' \subseteq Fleet /\ age' \in [Jobs -> Nat] /\ spent' \in [Jobs -> Nat]
      BY DEF TypeOK, timing
    <2>4. \A k \in Jobs : phase'[k] \in {"ws", "cli"} => spent'[k] <= Ceiling(phase'[k])
      BY DEF TypeOK, Alive, Calling
    <2>5. missed' \subseteq Jobs /\ faults' \in 0..MaxFaults
      BY FaultsAssumption DEF TypeOK
    <2> QED BY <2>1, <2>2, <2>3, <2>4, <2>5 DEF TypeOK
  <1>2. InItsPlace' /\ Blocked' /\ OwnsItsUnit' /\ Timed'
    BY JobsAssumption DEF TypeOK, InItsPlace, Blocked, OwnsItsUnit, Timed, Alive, Calling
  <1>3. NoGhosts' /\ StatusTrue' /\ UnitsClosed'
    BY DEF TypeOK, NoGhosts, StatusTrue, UnitsClosed, Alive, Calling
  <1> QED BY <1>1, <1>2, <1>3

LEMMA NextIInv ==
  ASSUME IInv, [Next]_vars PROVE IInv'
  <1>1. CASE UNCHANGED vars
    BY <1>1 DEF vars, queue, record, timing, IInv, TypeOK, InItsPlace, Blocked, OwnsItsUnit, Timed,
                NoGhosts, StatusTrue, UnitsClosed
  <1>2. ASSUME NEW j \in Jobs, Run(j) \/ Step(j) \/ Progress(j) PROVE IInv'
    BY <1>2, RunStep, StartStep, NeverCalledStep, FallBackStep, EndStep, ReportStep, ProgressStep DEF Step
  <1> QED BY <1>1, <1>2, TickStep, PeerLoadsStep, RestartStep DEF Next

(* A delegation that has not fallen back is as old as its one transport, which *)
(* ends within the deadline.                                                   *)
LEMMA LateMeansFallenBack ==
  ASSUME IInv PROVE LateMeansGone
  <1> SUFFICES ASSUME NEW j \in Fleet, Late(j), phase[j] \in {"ws", "cli"}, j \notin fell
               PROVE FALSE
    BY DEF LateMeansGone
  <1>1. j \in Jobs /\ age[j] = spent[j] /\ spent[j] <= Ceiling(phase[j])
    BY JobsAssumption DEF IInv, Timed, TypeOK
  <1>2. Ceiling(phase[j]) <= Deadline /\ Ceiling(phase[j]) \in Nat /\ Deadline \in Nat
    BY TimesAssumption DEF Ceiling, Deadline
  <1>3. age[j] \in Nat /\ age[j] > Deadline
    BY <1>1 DEF IInv, TypeOK, Late
  <1> QED BY <1>1, <1>2, <1>3

(* The invariant holds in every reachable state. *)
THEOREM BackgroundInvariant == Spec => []IInv
  <1>1. Init => IInv
    BY InitIInv
  <1>2. IInv /\ [Next]_vars => IInv'
    BY NextIInv
  <1> QED BY <1>1, <1>2, PTL DEF Spec

(* The domains of the state, and no transport beyond its ceiling. *)
THEOREM BackgroundTypes == Spec => []TypeOK
  <1>1. IInv => TypeOK
    BY DEF IInv
  <1> QED BY <1>1, BackgroundInvariant, PTL

(* A running row has a runner, whatever restarts and other processes do, but *)
(* for the jobs a write was lost for.                                        *)
THEOREM BackgroundNoGhosts == Spec => []NoGhosts
  <1>1. IInv => NoGhosts
    BY DEF IInv
  <1> QED BY <1>1, BackgroundInvariant, PTL

(* What the owner is told of a running job is true. *)
THEOREM BackgroundStatusTrue == Spec => []StatusTrue
  <1>1. IInv => StatusTrue
    BY DEF IInv
  <1> QED BY <1>1, BackgroundInvariant, PTL

(* Every delegation closes its unit, but for restarts and lost writes. *)
THEOREM BackgroundUnitsClosed == Spec => []UnitsClosed
  <1>1. IInv => UnitsClosed
    BY DEF IInv
  <1> QED BY <1>1, BackgroundInvariant, PTL

(* Late means gone, or on the second transport: for any times in which each *)
(* transport alone stays within the deadline's slack.                       *)
THEOREM BackgroundLateMeansGone == Spec => []LateMeansGone
  <1>1. IInv => LateMeansGone
    BY LateMeansFallenBack
  <1> QED BY <1>1, BackgroundInvariant, PTL

-----------------------------------------------------------------------------
(***************************************************************************)
(* What three places say of one job: its runner, its row and its unit are  *)
(* written apart, and part only where a write is lost.                     *)
(***************************************************************************)

(* A job's end is told as it was recorded: while it is announced, the row and *)
(* the unit say what the announcement says, unless a write for it was lost    *)
(* (tasks.py:239-250, delegation.py:144-154).                                 *)
RecordsAgree ==
  \A j \in Jobs \ (missed \cup Blocking) : phase[j] = "announcing" =>
    /\ mem[j] \in {"done", "failed"} /\ db[j] = mem[j]
    /\ j \in Fleet => unit[j] = mem[j]

(* No delegation lives longer than its two transports may take one after the *)
(* other, however late its unit is by then (fleet.py:195-213, 263-303).      *)
TwoCeilings ==
  \A j \in Jobs : phase[j] \in {"ws", "cli"} => age[j] <= Ceiling("ws") + Ceiling("cli")

(* What the record of delegated work (module WorkLedger) lets one unit do; a *)
(* delegation's post and claim are one action here.                          *)
UnitStep(before, after) ==
  \/ after = before
  \/ before = "none" /\ after \in {"open", "held"}
  \/ before = "held" /\ after \in {"done", "failed"}

(* A unit is posted once and settled once, and its settlement is for good, *)
(* restarts included (coordination.py, delegation.py:130-154).             *)
UnitsMoveOn == [][\A j \in Jobs : UnitStep(unit[j], unit'[j])]_vars

(* The strengthening: the first transport's time is behind the second, a     *)
(* delegation without faults has the id of its unit, and nothing is posted   *)
(* before the runner's first step.                                           *)
Told ==
  /\ \A j \in fell : age[j] <= spent[j] + Ceiling("ws")
  /\ \A j \in Jobs \ missed : phase[j] \in {"ws", "cli"} => j \in owns
  /\ \A j \in Jobs : phase[j] \in {"unasked", "queued"} => unit[j] = "none"
  /\ RecordsAgree

LEMMA CeilingsAreTimes == Ceiling("ws") \in Nat /\ Ceiling("cli") \in Nat
  BY TimesAssumption DEF Ceiling

LEMMA InitTold == Init => Told
  BY DEF Init, Told, RecordsAgree

LEMMA StepTold ==
  ASSUME IInv, Told, [Next]_vars PROVE Told'
  <1> USE DEF Told, RecordsAgree, queue, record, timing, Lost, Fault, NoFault
  <1>0. TypeOK /\ InItsPlace /\ Blocked /\ OwnsItsUnit /\ Timed
    BY DEF IInv
  <1>1. ASSUME NEW j \in Jobs, Run(j) PROVE Told'
    BY <1>0, <1>1 DEF Run, TypeOK
  <1>2. ASSUME NEW j \in Jobs, Start(j) PROVE Told'
    BY <1>0, <1>2 DEF Start, Opened, TypeOK
  <1>10. ASSUME NEW j \in Jobs, NeverCalled(j) PROVE Told'
    BY <1>0, <1>10 DEF NeverCalled, TypeOK
  <1>3. ASSUME NEW j \in Jobs, FallBack(j) PROVE Told'
    BY <1>0, <1>3, CeilingsAreTimes DEF FallBack, TypeOK, Timed
  <1>4. ASSUME NEW j \in Jobs, NEW outcome \in {"done", "failed"}, End(j, outcome) PROVE Told'
    BY <1>0, <1>4 DEF End, Closed, TypeOK, InItsPlace, OwnsItsUnit, Timed, Calling
  <1>5. ASSUME NEW j \in Jobs, Report(j) \/ Progress(j) PROVE Told'
    BY <1>0, <1>5 DEF Report, Progress, TypeOK
  <1>6. CASE Tick
    <2>1. \A j \in fell : j \in Jobs /\ age'[j] <= spent'[j] + Ceiling("ws")
      BY <1>0, <1>6, JobsAssumption, CeilingsAreTimes DEF Tick, TypeOK, Timed
    <2> QED BY <1>6, <2>1, CeilingsAreTimes DEF Tick, Ceiling
  <1>7. CASE PeerLoads
    BY <1>0, <1>7 DEF PeerLoads, Expired, TypeOK
  <1>8. CASE Restart
    BY <1>0, <1>8 DEF Restart, Reloaded, Alive, Calling, TypeOK
  <1>9. CASE UNCHANGED vars
    BY <1>9 DEF vars
  <1> QED BY <1>1, <1>2, <1>3, <1>4, <1>5, <1>6, <1>7, <1>8, <1>9, <1>10 DEF Next, Step

(* Both layers hold in every reachable state. *)
LEMMA ToldHolds == Spec => [](IInv /\ Told)
  BY BackgroundInvariant, InitTold, StepTold, PTL DEF Spec

(* The announcement, the task table and the work record tell one story of how *)
(* a job ended, whatever restarts and other processes do in between.          *)
THEOREM BackgroundRecordsAgree == Spec => []RecordsAgree
  <1>1. Told => RecordsAgree
    BY DEF Told
  <1> QED BY <1>1, ToldHolds, PTL

(* A late unit's runner is gone for good once both transports have had their *)
(* time: the deadline can be missed by at most the rest of the two ceilings. *)
THEOREM BackgroundTwoCeilings == Spec => []TwoCeilings
  <1>1. IInv /\ Told => TwoCeilings
    <2> SUFFICES ASSUME IInv, Told, NEW j \in Jobs, phase[j] \in {"ws", "cli"}
                 PROVE  age[j] <= Ceiling("ws") + Ceiling("cli")
      BY DEF TwoCeilings
    <2>1. age[j] \in Nat /\ spent[j] \in Nat /\ spent[j] <= Ceiling(phase[j])
      BY DEF IInv, TypeOK
    <2>2. CASE j \notin fell
      BY <2>1, <2>2, CeilingsAreTimes DEF IInv, Timed
    <2>3. CASE j \in fell
      <3>1. phase[j] = "cli"
        BY <2>3 DEF IInv, Timed
      <3> QED BY <2>1, <2>3, <3>1, CeilingsAreTimes DEF Told
    <2> QED BY <2>2, <2>3
  <1> QED BY <1>1, ToldHolds, PTL

(* The units of delegations live the life the record of work gives them. *)
THEOREM BackgroundUnitsMoveOn == Spec => UnitsMoveOn
  <1>1. IInv /\ Told /\ [Next]_vars => [\A j \in Jobs : UnitStep(unit[j], unit'[j])]_vars
    <2> SUFFICES ASSUME IInv, Told, Next PROVE \A j \in Jobs : UnitStep(unit[j], unit'[j])
      OBVIOUS
    <2>0. unit \in [Jobs -> {"none", "open", "held", "done", "failed"}]
      BY DEF IInv, TypeOK
    <2>1. ASSUME NEW j \in Jobs, Start(j) \/ NeverCalled(j)
          PROVE  \A k \in Jobs : UnitStep(unit[k], unit'[k])
      BY <2>0, <2>1 DEF Start, NeverCalled, Opened, Told, UnitStep, record
    <2>2. ASSUME NEW j \in Jobs, NEW outcome \in {"done", "failed"}, End(j, outcome)
          PROVE  \A k \in Jobs : UnitStep(unit[k], unit'[k])
      BY <2>0, <2>2 DEF End, Closed, IInv, OwnsItsUnit, UnitStep
    <2>3. ASSUME UNCHANGED unit PROVE \A k \in Jobs : UnitStep(unit[k], unit'[k])
      BY <2>3 DEF UnitStep
    <2> QED
      BY <2>1, <2>2, <2>3
      DEF Next, Step, Run, FallBack, Report, Progress, Tick, PeerLoads, Restart, record
  <1> QED BY <1>1, ToldHolds, PTL DEF Spec, UnitsMoveOn
=============================================================================
