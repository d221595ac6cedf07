# A verification of OpenWatari's brain

OpenWatari ("Afon", package `src/src/afon`) is a voice assistant that runs all day. A *brain*
process holds the agent: the model calls, some hundred tools, memory, reminders and unattended work.
*Edge* processes on the owner's devices listen, transcribe and speak, and talk to the brain over
websockets. Both are asyncio programs: code between two `await`s runs alone, anything may happen at an
`await`, and a task can be cancelled at each of them. Delegated work is kept in SQLite tables that
several threads and processes write.

This directory holds TLA+ modules that model the parts of the brain where order, cancellation, failure
and restart decide whether it is right, TLC configurations that check them on small instances, and
TLAPS proofs that carry the most important properties to every instance. Every definition that models
code is listed with its lines in `PROJECT.json` under `map`. Paths below are relative to `src/afon` of
the repository (`brain/agent.py` is `src/src/afon/brain/agent.py` seen from the parent of this
directory).

    tlc -config MCTurnServer.cfg MCTurnServer.tla      # check an instance
    tlapm WorkRecord_proofs.tla                        # check the proofs of a module

## 1. Inventory

| Part | State it keeps | Operations | What is hard |
|---|---|---|---|
| Approval queue `brain/approvals.py`, tools in `brain/tools/approvals.py` | one dict of deferred actions, mirrored in `approvals.json` | enqueue, approve, reject, prune, load, save | `approve` awaits the tool between reading and writing the status; saves are swallowed; a restart reads what the last good save left |
| Confirmation gate `brain/agent.py` | `_pending_confirm`, `_confirm_granted` | begin turn, classify / run / record a batch of calls, idle reset | one slot and one flag read and written across awaits and cancelled turns |
| Turn server `brain/server.py` | `_conns`, `_turns`, `_active_sid`, `_lock`, `_wake_claims` | hello, utterance, barge, broadcast, Telegram and phone turns | one lock for all devices; cancellation in a model call, in a send, in the queue |
| Agent history `brain/agent.py` | `_history`, `_stream_done`, `afon_session.json` | record question, answer, interruption, nudge; trim; snapshot; load | an async generator's `finally` that runs late; a flag shared by all turns |
| Work record `brain/coordination.py` | table `units` | post, claim, finish, fail, merge | claim is a SELECT and an UPDATE; several processes; second opinions |
| Delegation `brain/delegation.py` | none of its own (units) | start, tracked, finish, failed | two transactions in start; cancellation |
| Unattended worker `brain/worker.py` | the plan of a task | plan, execute a step, defer | feeds the approval queue |
| Background tasks `brain/tasks.py` | dict of tasks + SQLite table | submit, update, complete, announce, drop, load | jobs die with the process; cancellation between steps |
| PC link `brain/pc_link.py`, `edge/pc_agent.py` | one socket, pending futures | register, unregister, forward, resolve | the socket is replaced between ping and send; late results |
| Delivery ledger `brain/delivery.py` | last 200 deliveries | record, mark, due, mark re-raised | repeated keys, the bound, read-modify-write of a file |
| Proactive engine `brain/proactive.py` and helpers | budgets, cool-downs | tick, gate, emit, grade a reaction | several gates in sequence, time |
| Scheduler `brain/scheduler.py` | reminders table, jobs | add, fire, re-arm | restart, missed times |
| Model chain `brain/llm.py` | cool-downs per provider | complete, stream | fallback half-way through a stream |
| Emergency `brain/emergency.py` | alarm log | classify, raise | a fixed time budget |
| Memory, forget, caches | markdown and SQLite stores | remember, recall, forget | forgetting in every store |
| Edge link `edge/brain_client.py`, `edge/remote_brain.py`, `edge/brain_bridge.py` | socket, bounded error spool, local standby | connect, send, drain, fall back | a failed send that arrived; supersede without a lock |
| Process lifetime `shared/singleton.py`, `edge/_supervisor.py` | lock file, restart counter | acquire, take over, restart | two processes at once |
| Voice pipeline, tool adapters, set-up, protocols, deployment | vendor state | I/O | outside a model's reach |

How they interact: an edge sends `Utterance` or `Barge` to the **turn server**, which runs a turn of the
**agent** under its lock; the agent's tool loop passes every call through the **confirmation gate**;
the tools reach the **approval queue**, **delegation** and the **PC link**; delegation writes units to
the **work record**; the **proactive engine**, reminders and finished background tasks speak through the
turn server's broadcast, which writes into the same **history** and cancels turns in flight. The
unattended worker defers outward steps to the approval queue, and the owner settles them in a later
turn.

What makes each part correct, in a sentence:

- *approval queue*: a step is queued once, an answer given stays given in memory and on disk, and
  nothing decided is started again;
- *gate*: consequential calls run only because the owner was asked and has said nothing but yes since, and not
  again once one has succeeded (that they are the calls he was asked about is documented, and false);
- *turn server and history*: an answer is recorded against its own question, at most one turn of a
  device lives, every turn ends, a restart resumes on a consistent thread;
- *work record*: a unit is handed to one worker, its answer stands, disagreement is never hidden;
- *delegation and tasks*: a row or a unit says a job is going on only while its runner is, but for the
  writes the disk refused, and every job is announced and dropped;
- *PC link*: a caller is told one thing, an answer is the one to its own command, a command runs at most
  once, an old connection fails no command of the new one, and no call hangs;
- *delivery and proactivity*: nothing is repeated within its window, a day stays within its budget, a second
  chance is spent only on a message that was heard, silence is kept once asked for;
- *edge link* (not modelled): no utterance is lost or answered twice without a failed send.

## 2. Modules

| Module | Models | Extends / instantiates |
|---|---|---|
| `ApprovalQueue` | approvals.py and its tools | |
| `ConfirmGate` | the gate fields of agent.py | instantiates `Consent` |
| `Consent` | the consent to act the gate works by: asked, given, used once | |
| `TurnServer` | server.py turns over agent.py history | |
| `WorkRecord` | coordination.py, claim in two steps | instantiates `WorkLedger` |
| `WorkLedger` | what the record promises: an indivisible take | |
| `PcLink` | pc_link.py, the control handler of server.py, the tools' dispatch, edge/pc_agent.py | instantiates `RemoteCall` |
| `RemoteCall` | what the link promises a tool: an at-most-once call | |
| `Background` | tasks.py, delegation.py, the transports of fleet.py, the worker's job, over units of coordination.py | |
| `Unprompted` | proactive.py's tick, the emitter and the grading in server.py, delivery.py | |
| `MC...` | small instances: symmetry sets | the module it names |
| `..._proofs` | theorems and inductive invariants (seven modules) | the module it names, `TLAPS` |

Definitions whose comment starts with *Variant* are never part of a specification. Each is a plausible
bug (a dropped guard, a missing save, a lost ORDER BY), and `PROJECT.json` records which property notices
it.

### ApprovalQueue

`items` is `_items` with ids in creation order, `disk` what `approvals.json` parses to, or `NoFile`.
`ApproveStart` and `ApproveEnd` are the two halves of `approve` around `await fn(a.args)`; everything else
is one action per method, each with its own trailing `_save`. `Save` has the three outcomes the code
leaves: landed, old file kept, file truncated; `saved` records which. `Crash` loses the process, `Load` is
`_load` of the next one. A barge-in cancels a turn but not the tool it was waiting for (the agent runs
tools in a task of their own, `_await_with_progress`), so `ApproveEnd` always comes unless the brain dies.
Args, summaries and times are left out: a step is a (tool, args, origin) triple, and `find` picks any
pending item. `prune` removes any resolved items, the code the oldest: the model allows more.

History variables: `answered` (items about which this process told the owner they are settled) and `runs`
(times a tool was started). `runs` restarts never, so it counts across crashes.

A detail the properties leave open, on purpose: rejecting an item whose tool is already running says "I
won't run it", and when the tool returns the status becomes `approved`.

### ConfirmGate

`pending` and `granted` are the two fields. `BeginTurn(yes, idle)` is `_begin_turn` with the idle reset in
front of it. The three passes of `_execute_calls` are `Hold` (a batch without a grant: the slot keeps one
of its calls, the last in the model's order), `Start` (a batch with a grant: `calls` are those that pass
the camera and schema checks) and `Finish(ok)` (the results are recorded, one success consumes grant and
slot). `Read` is a pass of the tool loop in which nothing gated is held or started, `Reply` the end of the
turn, `Cancel` a barge-in or an error anywhere in it, `NoteProactive` a line spoken between turns. A gated
call is a model value: which calls are gated (`confirm_required`) is a table and stays out.

`word`, `spent`, `said`, `heard`, `done` are history for the properties; no guard of the code reads them. `word`
is kept per call: whether the owner was asked about it, and whether all he has said since is yes; a refusal, an
idle gap or its success resets it. `OnlyAfterUnbrokenYes` speaks of the word to the *held* call, which is all the
grant rests on. The calls that start may be others: `RunsWhatWasAffirmed`, the same of each call that runs, is
what comments of the code say, and a run refutes it.

`Consent` is the abstract specification: a turn is in progress or not, consent is none, asked or given, and
something is being done on it. Asking is a turn's, giving a later one's; whatever else the owner says, and the
first thing known to be done, take it back. The mapping reads the grant and the slot as one value. It is a
consent to act, not to something: `Act` does not ask what was asked about, because the code does not. Nor is it
stronger elsewhere: `Hush` in the middle of an act, a barge-in while a confirmed call runs, leaves the consent
as it was, because nobody was there to see what was done.

### TurnServer

A turn is a number in order of arrival, with the session it belongs to, or `Direct` for a blocking turn
(Telegram, the phone shortcut). `at` is where its task is:

    unsent -> waiting (for the lock) -> inside <-> sending -> wrapping -> over
                                    \-> alarm --^

`inside` is suspended in an await within the agent's generator, `sending` in `ws.send` with the generator
parked at a `yield`, `alarm` in the emergency ladder, where nothing of the turn is in the history yet. The
distinction between inside and sending carries the interesting behaviour. A cancellation or an error
`inside` runs the generator's `finally` at once. One that hits the send leaves the generator suspended; it
is closed later by the event loop in a task of its own (`closing`, `Finalise`), when the lock has been
released and the next turn may have recorded its question. `done` is `_stream_done`, one flag for all
turns, which `Finalise` reads as it is at that moment.

`Utterance(s, t, p)` is the handler with `_cancel` and the takeover of `_claim_wake` (p is the device whose
turn is taken over); `Barge`, `Broadcast` and `Interrupt` (the later devices of one broadcast, after an
awaited send), `Hello`, `Disconnect`, `DirectRequest` are the other inputs. `Record` appends to the
history and snapshots it as `_trim` does, `Snapshot` is `_persist_session`, whose errors are swallowed.
`Restart` is a process death and `_load_session`. asyncio hands the lock to its waiters first in, first out;
the model lets any waiting turn have it, so no property rests on that order.

Abstracted: text, clocks and wake scores (any device that has spoken can be taken over), the "cancelled"
event sent while a cancelled task unwinds, the cut `_trim` makes beyond 24 messages (out of reach of the
bounds), the note an answer may get about its sources.

### WorkRecord and WorkLedger

`rows` is the table. An action is a transaction, except `claim`: Python's sqlite3 runs a SELECT outside a
transaction and opens one at the first UPDATE, so `ClaimSelect` and the UPDATE are two actions and other
writers come between. An UPDATE that matches no row keeps the write lock until the connection is left, so
the second round of the loop (`ClaimNext`) is not raced. `ClaimNothing` covers an empty job, a database
error and a death before the commit. `finish` and `fail` may be called by any worker for any unit. `merge`
is the operators `Answers`, `Conflicts`, `Missing`.

Posting under a name already used (INSERT OR REPLACE) is left out, as no caller in the repository passes a
name; deadlines and `late` change no row.

`WorkLedger` is the abstract specification: `Take` is one step that always takes the lowest open unit,
`Settle` belongs to the taker. `ImplementsLedger` maps the table's columns to its variables.

### PcLink and RemoteCall

One action is the code between two awaits. `ws` and `pending` are the fields of `PcLink`, `fut` the future of
each call, `pc` where its coroutine stands (`idle`, `ping`, `send`, `wait`, `done`), `using` the socket it pings or
writes to and `told` what its caller was told.
`link` and `handler` are, per connection, the TCP link and the control handler on the brain; `session`, `op` and
`ran` are the laptop's executor. Frames are records in `net`, taken in any order, and a cut loses any of them.

`Dispatch` and `RepoForward` are the two ways in (an ordinary tool falls back to the brain's host when there is
no link, a repository tool refuses). `forward` is `Ping`, then `Unreachable` or `Send`, perhaps `Drained` or
`SendRaises`, then `Return` or `Timeout`, and may be cancelled at each await (`Cancel`). The write is an await
of its own: it returns at once, or it waits under flow control, during which the frame may already be on its
way, the link be replaced, and the call's future be failed by `unregister`; the result window opens only after
it. `Send` uses the socket registered by then, which need not be the one that was pinged. `HearHello` /
`Register`, `Resolve` and `HandlerEnds` are `_control_handler`; `Connect`, `Cut` and `Notice` the network;
`Take`, `RunOp`, `Reply`, `Leave` and `Die` the executor.

`websockets`' `ping()` is a coroutine that returns a future for the pong, and the code awaits only the former:
a ping succeeds once it is written, on a cut link too. The model has it so. What an operation does on the
laptop is left out; a call's id stands for its fresh uuid.

`links` is history: the sockets registered since a command was written, its own among them. `OldLinkFailsNobody`
says with it which ends of connections may fail a command: a replaced connection fails none of the new link, unless
its own late hello has put it back.

`RemoteCall` is the abstract specification: what the caller was told and how often the laptop acted, no sockets.
`ImplementsCall` maps `told` and `runs` to it. It is the call as `forward` reports it: which outcomes rule out that
anything ran is known to `forward` alone, since `_dispatch` turns every exception into one sentence. And it is one
call: a retry has an id of its own and may act again.

### Background

A job is something asked for: delegated to the fleet by a background task, done by the unattended worker, or
delegated by a turn that waits for it (`Blocking`, no row). `phase` is where its runner stands: queued, on the
websocket transport, on the CLI, at work, announcing, over, or killed by a restart. `mem` and `db` are the status
in `TaskQueue._tasks` and in the table, `unit` the state of the delegation's unit, `owns` whether `tracked` has
its id. `Start` is the runner's first step with delegation's `start`, whose two transactions can end with no
unit, with one that stays open, or with one held; `NeverCalled` is a start that raises, because the read between
them failed, before `tracked` has anything to close; `FallBack` is `fleet.py` going from one transport to the other;
`End` closes unit and row in one uninterrupted step, each write of which can be lost; `Report` announces and
drops. `Restart` kills every runner, `_load` expires running rows, and `PeerLoads` is the same done by another
process that imports the module.

Time is counted per delegation from its start, because the deadline (`timeout + 60`) is compared with it, and
per transport, because each has a ceiling (`timeout + 15`, `timeout + 30`).

Left out: answers, summaries, the worker's plan (its steps only take time here; the outward ones go to the
approval queue), and cancellation of a delegation by a turn: the agent runs tools in a task of their own that
outlives the turn.

### Unprompted

`tick` is the tick in progress with its locals: `idle -> sources -> select -> emit -> out -> idle`, the arrows
being its awaits. Before `sources` come the day roll, the budget and the mode (`TickStart`), before `select` the
ledger is asked what is due (`Sources`), `Select` is suppression, choice of the most urgent, quiet hours and the
busy gate, `Deliver` / `EmitFails` the emitter, and `Book` everything from there to the end in one step: the
suppression table, the count, the reaction slot, the ledger's row and the state file. `EmitFails` books nothing;
a push or a voice note that it reports failed may have arrived, which counts as sent and as forgotten, and which
neither `NoEarlyRepeat` nor the ledger knows of. `Reply` is the grading of the owner's next turn (the state file
is saved before the ledger is marked), `Pass` time and midnight, `SetMode` a mode he sets or that runs out,
`Restart` a new process that loads the file.

`rows` is the ledger (a read-modify-write of its file in each call, without an await, so the file is the
ledger), `file` the engine's own state file, which is written in place: a failed write leaves the old file, or
one that does not parse. `kept`, `sent`, `forgot`, `late`, `noted`, `chances` and `slipped` are history.

Left open: what the sources raise, which kinds clear their learned threshold, whether the owner is busy. Left
out: the wording, interventions' side effects, and the evidence text of a mark.

## 3. Runs

| Run | Bounds | Shows |
|---|---|---|
| `approvals` (492,088 states) | 2 steps, one without a handler; 2 overlapping callers; 3 items; 1 crash; `Keep` 1 | `OnePendingPerStep`, `AnsweredIsSettled`, `DecisionsAreDurable`, `DecidedNeverStarts` |
| `approvals_twice` | the same | violation: two overlapping approvals start the tool twice |
| `gate` (7,907) | 3 gated calls, batches of 2, 4 passes per turn (`max_tool_iters`), 5 turns | `OnlyAfterUnbrokenYes`, `NoSecondUse`, `ImplementsConsent` |
| `gate_follows` | the same | violation: an ask cut short, or a nudge after it, then yes, and there is a grant |
| `gate_this_action` | the same | violation: one call is held, the owner says yes, another runs |
| `turns` (3,093,858) | 2 devices and blocking callers, 3 turns, 1 sentence a turn beside the closing one, failing snapshots | `RunnerOwnsThread`, `OneLiveTurnPerSession`, `GuardAnswers`, `SnapshotEndsAnswered` |
| `turns_end` (596,048) | 2 devices, 2 turns, 1 broadcast, 1 restart | `EveryTurnEnds` under fairness |
| `turns_questions` | as `turns` | violation: two questions side by side |
| `work` (468,387) | 2 workers, 2 jobs of 2 units, 2 briefs, 2 answers | `HandedOnce`, `AnswersStand`, `DisagreementSurfaces`, `NeverMissingAgain`, `ImplementsLedger` |
| `pc_link` (612,551) | 2 calls, one for a repository, 2 connections | `AnswersMatch`, `NoWaiterForgotten`, `RegisteredIsServed`, `OldLinkFailsNobody`, `EveryCallEnds`, `ImplementsCall` |
| `background` (216,990) | a background delegation, a worker's job, a blocking delegation; 2 restarts or lost writes; timeout 1, margins 1, slack 2 | `NoGhosts`, `StatusTrue`, `UnitsClosed`, `LateMeansGone`, `EveryJobEnds` |
| `unprompted` (3,452,984) | 2 keys (one critical, one routine), budget 2, window 2, wait 1, 2 rows; 4 time units, 1 midnight, 3 deliveries, 1 restart or bad write | `NoEarlyRepeat`, `BudgetHolds`, `SpentMeansHeard`, `ReraisedOnce`, `AtMostOneLate` |

Why these bounds are enough to be interesting: an overlap needs two callers; a stale decision on disk needs
an item, a failed save and a crash; pruning needs more resolved items than `Keep`. Five turns hold
ask, cancelled yes, another yes, a new ask and its yes. In `turns` a third turn can wait while the first is
closing and the second runs, which is the longest chain the guard's flag is shared over; more sentences
repeat the same two places. In `work` two workers on one job produce a lost UPDATE, and a second job shows
that jobs do not disturb each other. In `pc_link` two connections are a link and its replacement, and two
calls are enough for a result to reach the wrong future. In `background` the three jobs are the three ways a
delegation or a job can start, two faults are a lost write and a restart, or a write lost twice; the times are
the smallest with the order of the real ones (a transport within the deadline, two in a row beyond it). In
`unprompted` three deliveries are a first one, its re-raise and another (or the same again after midnight, a
restart and the window), and two rows let one fall out of the ledger.

Deadlock is checked in `background` and `unprompted`, where something can always happen. Elsewhere the
bounds stop the system (all turns used, all jobs settled, all connections spent), and the real ones idle
waiting for the owner: what must not hang is said by `EveryTurnEnds` and `EveryCallEnds`.

**Fairness.** Three runs assume any.

- `turns_end`: weak fairness of each turn's own steps (`Step(t)`) and of `Finalise`. Model calls and tools end
  by timeouts (`llm.py`, the tools), sends end by the websocket keepalive, the lock wakes its waiters, and the
  loop runs what is ready and closes abandoned generators. Nothing is assumed of the owner, devices, broadcasts
  or crashes.
- `pc_link`: weak fairness of a call's own next step (`Unreachable` or `Send`; `Drained` or `SendRaises`;
  `Return` or `Timeout`): the loop runs what is ready and `wait_for`'s timers fire. The write between the two
  windows has no timer of its own: the server's keepalive closes a socket that takes nothing, and the write
  raises. Nothing is assumed of the laptop, the network or the handlers.
- `background`: weak fairness of each job's own steps (`Step(j)`): the loop runs its tasks, the transports have
  ceilings, the worker's steps and budget are bounded, and an announcement goes by HTTP calls with timeouts.
  Nothing is assumed of restarts, other processes or the disk.

### The four disagreements

- `bench/test_approvals.py:74` states an item cannot be approved twice. It can, while its tool runs
  (`approvals.py:165`): the status is written after the await.
- `agent.py:1751-1752` states of a gated call that ran that the owner affirmed this specific action, and
  `agent.py:1676-1677` holds one for want of that. The grant is a flag: `agent.py:1659` compares no call with the
  held one, so any gated call the model emits in a granted turn runs, one he has refused among them.
- `agent.py:936` states a yes must immediately follow the ask. Lines spoken unprompted in between, or a turn
  cancelled before the ask was heard, do not clear the held call.
- `agent.py:1906-1909` states that two questions never stand next to each other in the history of streamed
  turns. A cancellation that hits the send leaves the placeholder to the finaliser, which runs too late.
  `GuardAnswers` states what does hold.

### Where a comment says more than the code

Others, met while modelling, which no run is kept for; the properties state what does hold.

- `delivery.py:22-25` promises exactly one re-raise. Due rows are found row by row, but a re-raise marks only
  the newest row of its key: with two deliveries under one key the older stays due and is raised again.
  `ReraisedOnce` is stated for a key delivered once.
- `delivery.py:14-17` lets only a spoken line be inferred "seen". `_grade_proactive_reaction` never looks at the
  channel, so a reply also marks what went out as a push.
- `proactive.py:690` says a mode mutes unprompted speech regardless. It is read before the sources are awaited;
  the line already past it goes out (`AtMostOneLate`).
- `server.py:333` reads a reply as the reaction to what Afon just interjected. Between the emission of a line
  and its booking it is graded against the line before it.
- `delegation.py:134-135` sees no window in which a unit is posted but unowned. Posting and claiming are two
  transactions, and a failed second one leaves the unit open (`Opened`).
- `delegation.py:193` closes the unit on every path. A write the database refuses, a restart, and a failed read in
  `start`, which raises before the `try` (`NeverCalled`), do not (`UnitsClosed` names exactly these).
- `delegation.py:50-51` reads "late" as a runner that never came back. At the default
  of 30 s the websocket has 45 s and the CLI 60 s after it, against a deadline of 90 s: a delegation on its
  second transport can be late and alive. `LateMeansGone` holds for whoever used one transport.
- `tasks.py:186-187` takes a persisted running row to be of a dead process. `_load` runs in whatever process
  imports the module (`PeerLoads`), and expires rows of a live one; the live one writes them again.
- `agent.py:1763` says one yes authorises one action. A batch of gated calls in one model pass meets one flag
  (`agent.py:1659`), which is taken back after all of them have run. `GateOneBatchPerYes` is proved of what holds.
- `tools/system.py:89-90` runs an operation on the laptop if one is connected. The hello of a replaced connection,
  read late, registers it again (`server.py:459`); its end then leaves no link, and `Dispatch` takes its local
  branch while the laptop is on its new connection, until that one is replaced in turn.
- `pc_link.py:67` says `reachable` means the laptop answers a ping now. It awaits the writing of the ping, not
  the pong; the result window catches what this lets through (`EveryCallEnds`).

## 4. Proofs

All proofs are checked by TLAPS for every value of the constants that satisfies the assumptions named
in the modules. These say that a sentinel is not a real value, a bound is a natural number, the sets are
subsets of each other where the code has it so (`JobsAssumption`), only finitely many callers approve at a time
(`CallersFinite`), urgencies have the four levels
(`KeysAssumption`), and one transport of the fleet stays within the deadline (`TimesAssumption`). TLC
evaluates each of them on the run of its module.

**ApprovalQueue_proofs.** `IInv` adds to the invariants of the run: the queue in memory and the one on disk
are both without duplicates (`Unstacked`) and without items that were never created (`Fresh`), an answered item
or one being approved has been created, a dead process has no calls and has answered nothing, and
`SettledOnDisk`: an item the file calls settled is not pending in memory. That last conjunct is what carries
the decisions across a crash: after failed saves the file may be older than the queue, never further along.
`AnsweredIsSettled` needs it too, because `Load` takes over whatever the file holds. The step lemma has one
case per action and uses `SaveKeepsDisk`, which says what any of the three outcomes of a save leaves behind,
and `FewerPending`. The action property `DecidedNeverStarts` follows from the invariant and the guard of
`ApproveStart`, the only action that changes `runs`.

One run shows an item approved twice, so the module also proves what a double approval can come to at worst.
`QueueStartsBounded`: an item's tool is started, over all lives of the process, at most as often as there are
callers times lives. The argument counts: while an item can still be approved, its starts in this life are the
calls that are inside it now, because the first to come back settles it (`StartsCounted`, with `OneMoreLife` and
`OneMoreInside` for the arithmetic of a crash and of a start). `QueueAlone` is the other side: with a single
caller and no restart what the test asserts, and the run refutes for two, holds.

**ConfirmGate_proofs.** `IInv` ties the two fields to what happened: the held call was asked about, every
utterance since was a yes and it has not been used; under a grant it has met a yes in a turn after the one that
held it. The two action properties need, beside it, only that a start implies a grant (`StartNeedsGrant`).
`GateOnlyAfterUnbrokenYes` speaks of the held call, and so does the refinement; that the held call is the one that
runs is refuted by `gate_this_action`.
`GateImplementsConsent` maps every step to one of `Consent` or a stutter; it needs `GrantHasPending` (a grant
never outlives what was held, a theorem of its own) and `Running` (calls run only under a grant, in a turn).
`GateOneBatchPerYes` is what holds of "one yes authorises one action" (`agent.py:1763`): a yes may let several
calls of one batch succeed, never calls of two batches, since the first success leaves no grant (`GrantUsedUp`).

**WorkRecord_proofs.** `IInv` is type correctness with `Owned` (a unit was handed to a worker exactly when it is
held or settled under that worker's name), `AnswersStand`, `Briefed` (a posted unit carries a brief, an
absent one is blank) and `Selected` (what a half-done claim has selected is on the record and, while it is
still open, is the first open unit of its job). `Selected` is why the second half of `claim` still takes the
lowest open unit although others ran in between: posting a job twice is impossible and units never reopen.
With it every step maps to a ledger step or a stutter, and `RecordImplementsLedger` is the refinement theorem.
`TableStep` says once what any step does to the table (nothing, a job posted, one row taken, one row settled),
and from it follow two results no run checks: a job's units are handed out in the order they were posted
(`RecordHandedInOrder`), and a conflict that `merge` reports is never taken back (`RecordConflictsStand`).

**TurnServer_proofs.** `IInv` is type correctness with two groups. *Tasks*: the lock's holder is the only turn that
runs (`Holder`), a session's latest turn is its own and the only live one. *Threads*: the runner's question is the
last of the history; the snapshot ends with an answer; whoever stands last without one is the runner or a turn
nobody answers any more (`Standing`); and in the history and the snapshot a question stands before another only
if its turn ended unguarded (`Guarded`). The history is only extended, by answers or by the holder's question, or
replaced by a snapshot, so lemmas about threads (`SaidAfter` and its neighbours) carry most of each action's case.

`RunnerOwnsThread` speaks of the moment an answer is recorded. A model reads the thread by position, later and
over again, so `AnswersStandInPlace` says it of the whole history and of the snapshot: each question stands in it
once, and no other question stands between it and an answer of its turn, but for the turns that were left
unguarded. Without that exception it is false, a late finaliser being the counterexample. Its invariant adds that
a turn waiting, or still on the emergency ladder, has asked nothing (`Unsaid`), and that the generators not yet
closed are of unguarded turns. `OnlyOnwards` (no turn goes back to where it had asked nothing) and the lemmas
about one more answer and one more question reduce every action to what it appends, and to which thread.

**PcLink_proofs.** An answer is right because a command is in one place at a time: on one socket, being executed,
or executed with its result on the way (`OnePlace`), and because a call that sent nothing has left no trace
(`UnsentLeavesNoTrace`). Both are in `IInv` with `Coroutine`, which ties a call's place to its future and its
caller, and with `Linked`: while a command is out and still waits, the registered socket is one of its `links`. A
socket becomes the registered one only at the write or by registering afterwards, so the handler that fails the
command is the handler of one of these: `OnlyItsOwnLinksFailACall`. The refinement theorem `LinkImplementsCall`
follows from `IInv` too.

**Background_proofs.** `IInv` adds who has a unit's id (`OwnsItsUnit`) and that before the fall-back the transport's
time is the delegation's (`Timed`), from which `LateMeansGone` follows for any timeout, margins and slack that keep
one transport within the deadline (`TimesAssumption`).

`Told` adds to it when the fall-back happened and that a delegation without faults has its unit. Three results
follow that no run checks: what is announced of a job is what its row and its unit say (`RecordsAgree`); a
delegation never outlives its two ceilings in a row (`TwoCeilings`, and TLC reaches that bound); and a unit is
posted once and settled once, for good (`UnitsMoveOn`), which is what `WorkLedger` lets one unit do.

**Unprompted_proofs.** `IInv` has four parts. *Suppressed*: a delivery that was saved is known to the engine and to
the file until its window is over, and the line on its way is not one of them. *Counted*: what was sent on a date
is what the engine has counted, what it does not know of (lost by a restart, or reported failed though it arrived),
and what is out; the file never says more.
*Muted*: no tick begins under a mode. *Chances*: while a key has one row, its re-raises are the one in the ledger,
those that slipped and the one that is out. The last is why the emitter's awaits do no harm: the row is marked by
its key, and a unique row is the newest.

Two results about the ledger rest on what each step does to its rows (`RowsStep`): a delivery keeps its key and
time, its state only rises, a spent chance stays spent, and only a full ledger forgets one, its first
(`DeliveriesMoveForward`); and the rows stay in the order of their deliveries, so the first is the oldest
(`DeliveriesInOrder`).

Model-checked only: the three liveness properties (`EveryTurnEnds`, `EveryCallEnds`, `EveryJobEnds`), because
the prover reasons neither about fairness nor about `ENABLED`, and the four violations. Every other property the
runs check is a theorem. The properties stated in a proof module (`StartsBounded`, `HandedInOrder`,
`ConflictsStand`, `AnswersInPlace`, `RecordsAgree`, `TwoCeilings`, `UnitsMoveOn`, `LedgerForward`,
`LedgerInOrder`, `OneBatchPerYes`) were each checked by TLC on the instance of their component before they were
proved.

## 5. Not modelled, and why

- Deciding which calls are gated, intent routing, prompt assembly, personality, skills: tables and text.
- Tool adapters, speech, audio, cameras, HTTP endpoints, set-up, deployment: I/O without protocol state. They
  are most of the repository's lines.
- The error journal, audit and traces: nothing decides by them.
- The model chain (`brain/llm.py`): a sequence of tries over cool-downs; a turn sees it as one await that ends.
- The unattended worker's plan and its steps, objectives: what the model answers decides them.
- Memory, forgetting and caches: stores behind calls without an await in the middle; the forget sweep over
  several of them is worth a module of its own.
- Reminders and the scheduler; the single-instance lock and the supervisor; the emergency ladder, beyond a
  place a turn can be in; to-dos.
- The edge side of the voice link (`edge/brain_client.py`, `remote_brain.py`, `brain_bridge.py`): its three
  hazards are listed in `PROJECT.json` and have no property yet.
- Time, where only its order matters: wake scores and claim windows are nondeterministic choice.

## 6. Plan

What has been built follows the order of importance: turns and history, the gate and the approval queue, the
work record, the link, background work, unprompted speech. What would come next:

1. `EdgeLink`: supervised reconnect, the bounded spool, the local standby when a send fails, against the agent's
   history; the wake claims of two edges with a clock.
2. `Scheduler`: reminders over restarts and missed times; `Singleton`: take-over of the lock by a new process.
3. The forget sweep over its stores; the model chain's fall-back in the middle of a stream.
4. A composition of `Unprompted` with `TurnServer`: which turn a proactive line is graded by when both await.
