----------------------------- MODULE Unprompted -----------------------------
(***************************************************************************)
(* What Afon says without being asked: the tick of the proactive engine    *)
(* (brain/proactive.py), the emitter and the grading of the owner's next   *)
(* turn (brain/server.py), and the ledger of what became of each delivery  *)
(* (brain/delivery.py).                                                    *)
(*                                                                         *)
(* A tick awaits its signal sources and then its emitter, so the owner's   *)
(* turns, his modes, midnight and a restart fall between the gates and the *)
(* delivery, and between the delivery and its booking. The ledger is read  *)
(* from its file by every call, so the file is the ledger; the engine has  *)
(* its own state and a file of it, written in place: a write that fails is *)
(* swallowed and may leave a file nobody can read. Which kinds clear their *)
(* learned threshold is left open, and so is what the sources raise.       *)
(***************************************************************************)
EXTENDS Integers, Sequences, FiniteSets, SequencesExt

CONSTANTS
  Keys,       \* what a signal can be about
  Urgency,    \* key -> Routine, Urgent (may be re-raised), Pressing (beats busy) or Critical
  Budget,     \* settings.proactive_daily_budget
  Window,     \* repeat suppression, in clock units
  Wait,       \* RERAISE_AFTER_S, in clock units
  Keep,       \* delivery.KEEP
  Never,      \* no time, no date, no line
  MaxClock, MaxDays, MaxLines, MaxFaults \* bounds: time, midnights, deliveries, restarts and bad writes

Routine  == 0
Urgent   == 1
Pressing == 2
Critical == 3

ASSUME KeysAssumption ==
  /\ Urgency \in [Keys -> Routine..Critical]
  /\ Budget \in Nat /\ Window \in Nat \ {0} /\ Wait \in Nat /\ Keep \in Nat \ {0}

ASSUME BoundsAssumption ==
  MaxClock \in Nat /\ MaxDays \in Nat /\ MaxLines \in Nat /\ MaxFaults \in Nat

Times == 0..MaxClock
Days  == 0..MaxDays
Lines == [key : Keys, again : BOOLEAN]  \* `again` is the key prefix "reraise:"
Plain(k) == [key |-> k, again |-> FALSE]
Again(k) == [key |-> k, again |-> TRUE]

ASSUME SentinelAssumption == Never \notin Int /\ Never \notin Lines

VARIABLES
  rows,      \* delivery_ledger.json, oldest first
  spoken,    \* engine._spoken_at: line -> the tick that last delivered it
  used,      \* engine._used_today
  day,       \* engine._day
  file,      \* proactive_state.json: spoken, used and day as last saved
  pending,   \* engine._pending: the line awaiting a reaction, and since when
  tick,      \* the tick in progress, with its locals
  clock, today, muted, \* the world: time, date, focus or lockdown
  kept,      \* history: spoken, when it was last saved
  sent,      \* history: date -> deliveries by the ticks of that date
  forgot,    \* history: date -> of those, the ones the engine does not know of
  late,      \* history: lines that went out since the mode was switched on
  noted,     \* history: key -> deliveries recorded
  chances,   \* history: key -> re-raises that went out
  slipped,   \* history: key -> of those, the ones the ledger did not take down
  faults     \* restarts and failed writes so far

engine  == <<spoken, used, day, file, pending>>
world   == <<clock, today, muted>>
history == <<kept, sent, forgot, late, noted, chances, slipped>>
vars    == <<rows, engine, tick, world, history, faults>>

Row    == [key : Keys, at : Times, state : {"delivered", "seen", "acted"}, reraised : BOOLEAN]
Spoken == [Lines -> Times \cup {Never}]
Saved  == [spoken : Spoken, used : Nat, day : Days \cup {Never}]
Idle   == [phase |-> "idle", now |-> 0, quiet |-> FALSE, due |-> {}, line |-> Never]
Blank  == [spoken |-> [l \in Lines |-> Never], used |-> 0, day |-> Never]

\* The domains of the state; at most Keep rows are kept, and a tick at its
\* emitter has a line, of a date the engine knows.
TypeOK ==
  /\ rows \in Seq(Row) /\ Len(rows) <= Keep
  /\ spoken \in Spoken /\ used \in Nat /\ day \in Days \cup {Never} /\ file \in Saved
  /\ pending \in [line : Lines, at : Times] \cup {Never}
  /\ tick \in [phase : {"idle", "sources", "select", "emit", "out"}, now : Times,
               quiet : BOOLEAN, due : SUBSET Keys, line : Lines \cup {Never}]
  /\ tick.phase \in {"emit", "out"} => tick.line \in Lines
  /\ tick.phase # "idle" => day \in Days
  /\ clock \in Times /\ today \in Days
  /\ muted \in BOOLEAN
  /\ kept \in Spoken /\ sent \in [Days -> Nat] /\ forgot \in [Days -> Nat] /\ late \in Nat
  /\ noted \in [Keys -> Nat] /\ chances \in [Keys -> Nat] /\ slipped \in [Keys -> Nat]
  /\ faults \in 0..MaxFaults

Init ==
  /\ rows = <<>> /\ file = Blank
  /\ spoken = Blank.spoken /\ used = Blank.used /\ day = Blank.day
  /\ pending = Never /\ tick = Idle
  /\ clock = 0 /\ today = 0 /\ muted = FALSE
  /\ kept = Blank.spoken /\ sent = [d \in Days |-> 0] /\ forgot = sent /\ late = 0
  /\ noted = [k \in Keys |-> 0] /\ chances = noted /\ slipped = noted
  /\ faults = 0

-----------------------------------------------------------------------------
(* The ledger. *)

\* _find: the newest delivery under a key is the live one.
Newest(k) == {i \in DOMAIN rows : rows[i].key = k /\ \A j \in i+1..Len(rows) : rows[j].key # k}

\* Variant: every row is kept.
RecordedAll(k) ==
  Append(rows, [key |-> k, at |-> clock, state |-> "delivered", reraised |-> FALSE])

\* record, and the tail _save keeps.
Recorded(k) ==
  LET all == Append(rows, [key |-> k, at |-> clock, state |-> "delivered", reraised |-> FALSE])
  IN  IF Len(rows) = Keep THEN Tail(all) ELSE all

Rank(s) == CASE s = "delivered" -> 0 [] s = "seen" -> 1 [] s = "acted" -> 2

\* mark: the newest row moves forward only.
Marked(k, s) ==
  [i \in DOMAIN rows |->
     IF i \in Newest(k) /\ Rank(rows[i].state) < Rank(s) THEN [rows[i] EXCEPT !.state = s] ELSE rows[i]]

\* mark_reraised: the newest row's one second chance is spent.
Reraised(k) ==
  [i \in DOMAIN rows |-> IF i \in Newest(k) THEN [rows[i] EXCEPT !.reraised = TRUE] ELSE rows[i]]

\* due_for_reraise looks at every row, not only the newest of its key.
Due == {k \in Keys : /\ Urgency[k] >= Urgent
                     /\ \E i \in DOMAIN rows : /\ rows[i].key = k /\ rows[i].state = "delivered"
                                               /\ ~rows[i].reraised /\ clock - rows[i].at >= Wait}

-----------------------------------------------------------------------------
(* The engine's own state. *)

\* Variant: the window is read the wrong way round.
LiveBackwards(s) == [l \in Lines |-> IF s[l] # Never /\ clock - s[l] >= Window THEN s[l] ELSE Never]

\* Only the lines still inside the window are saved.
Live(s) == [l \in Lines |-> IF s[l] # Never /\ clock - s[l] < Window THEN s[l] ELSE Never]

\* A restart, or a write the disk refuses.
Fault == faults < MaxFaults /\ faults' = faults + 1

\* _save_state. A bad one fails before the file is opened, or leaves a torn file.
SaveGood(s, u, d) == file' = [spoken |-> Live(s), used |-> u, day |-> d] /\ kept' = s
SaveBad ==
  \/ UNCHANGED <<file, kept>>
  \/ file' = Blank /\ kept' = Blank.spoken
Save(s, u, d) ==
  \/ SaveGood(s, u, d) /\ UNCHANGED faults
  \/ SaveBad /\ Fault

\* Variant: a restart starts the day's count again.
LoadForgetsCount == spoken' = file.spoken /\ day' = file.day /\ used' = 0

\* _load_state
Load == spoken' = file.spoken /\ day' = file.day /\ used' = file.used

\* _roll_day: a new date clears the count.
UsedToday == IF day = today THEN used ELSE 0

-----------------------------------------------------------------------------
(* The tick. *)

\* Variant: modes are not asked.
HushedNever == FALSE

\* MODES.proactivity_suppressed
Hushed == muted

\* maybe_interject up to its first await: the budget, then the mode. A new
\* date is saved, and so is what the tick was held for. Quiet hours are those
\* of the tick's start.
TickStart ==
  /\ tick.phase = "idle"
  /\ used' = UsedToday /\ day' = today
  /\ IF UsedToday < Budget /\ ~Hushed
     THEN /\ \E quiet \in BOOLEAN :
               tick' = [Idle EXCEPT !.phase = "sources", !.now = clock, !.quiet = quiet]
          /\ IF day = today THEN UNCHANGED <<file, kept, faults>> ELSE Save(spoken, used', day')
     ELSE tick' = Idle /\ Save(spoken, used', day')
  /\ UNCHANGED <<rows, spoken, pending, world, sent, forgot, late, noted, chances, slipped>>

\* Variant: the second chance is spent when the signal is generated.
SourcesSpend ==
  /\ tick.phase = "sources"
  /\ tick' = [tick EXCEPT !.phase = "select", !.due = Due]
  /\ rows' = [i \in DOMAIN rows |->
                IF rows[i].key \in Due THEN [rows[i] EXCEPT !.reraised = TRUE] ELSE rows[i]]
  /\ UNCHANGED <<engine, world, history, faults>>

\* _gather asks reraise_signals; the sources after it await too.
Sources ==
  /\ tick.phase = "sources"
  /\ tick' = [tick EXCEPT !.phase = "select", !.due = Due]
  /\ UNCHANGED <<rows, engine, world, history, faults>>

\* _recently_said
RecentlySaid(l) == spoken[l] # Never /\ tick.now - spoken[l] < Window

\* The gates after the selection: quiet hours, and whether he is busy now.
Passes(l, busy) ==
  /\ tick.quiet => Urgency[l.key] >= Critical
  /\ busy => Urgency[l.key] >= Pressing

\* Nothing to say, or it is held: what held it is counted and saved.
GiveUp == tick' = Idle /\ Save(spoken, used, day)

\* select and the gates: of the signals raised that clear their threshold and
\* were not said lately, the most urgent goes on or is held.
Select ==
  /\ tick.phase = "select"
  /\ \E raised \in SUBSET ({Plain(k) : k \in Keys} \cup {Again(k) : k \in tick.due}) :
       LET eligible == {l \in raised : ~RecentlySaid(l)}
           best == {l \in eligible : \A m \in eligible : Urgency[m.key] <= Urgency[l.key]}
       IN  \/ best = {} /\ GiveUp
           \/ \E l \in best, busy \in BOOLEAN : ~Passes(l, busy) /\ GiveUp
           \/ \E l \in best, busy \in BOOLEAN :
                /\ Passes(l, busy)
                /\ tick' = [tick EXCEPT !.phase = "emit", !.line = l]
                /\ UNCHANGED <<file, kept, faults>>
  /\ UNCHANGED <<rows, spoken, used, day, pending, world, sent, forgot, late, noted, chances,
                 slipped>>

\* The line reaches him.
Heard ==
  /\ FoldFunction(+, 0, sent) < MaxLines
  /\ sent' = [sent EXCEPT ![day] = @ + 1]
  /\ late' = IF muted THEN late + 1 ELSE late
  /\ chances' = IF tick.line.again THEN [chances EXCEPT ![tick.line.key] = @ + 1] ELSE chances

\* proactive_emit: the line goes out, by voice, voice note or push.
Deliver ==
  /\ tick.phase = "emit" /\ Heard
  /\ tick' = [tick EXCEPT !.phase = "out"]
  /\ UNCHANGED <<rows, engine, world, kept, forgot, noted, slipped, faults>>

\* What a delivery leaves when the ledger does not take it down.
Unrecorded(l) == IF l.again THEN [slipped EXCEPT ![l.key] = @ + 1] ELSE slipped

\* Every channel failed, or the emitter raised: held, and nothing is booked.
\* What a channel reported failed may have arrived all the same.
EmitFails ==
  /\ tick.phase = "emit"
  /\ GiveUp
  /\ \/ UNCHANGED <<sent, forgot, late, chances, slipped>>
     \/ /\ Heard
        /\ forgot' = [forgot EXCEPT ![day] = @ + 1] /\ slipped' = Unrecorded(tick.line)
  /\ UNCHANGED <<rows, spoken, used, day, pending, world, noted>>

\* Variant: a re-raise is a delivery like any other.
RecordAlways(l) ==
  /\ rows' = Recorded(l.key)
  /\ noted' = IF l.again THEN noted ELSE [noted EXCEPT ![l.key] = @ + 1]

\* _record_delivery: a re-raise spends the chance of the key's newest row and
\* is no delivery of its own; anything else is recorded.
Record(l) ==
  IF l.again
  THEN rows' = Reraised(l.key) /\ UNCHANGED noted
  ELSE rows' = Recorded(l.key) /\ noted' = [noted EXCEPT ![l.key] = @ + 1]

\* Back from the emitter: suppression, budget, the reaction slot, the ledger
\* and the state file, with no await between them.
Book ==
  /\ tick.phase = "out"
  /\ spoken' = [spoken EXCEPT ![tick.line] = tick.now]
  /\ used' = used + 1
  /\ pending' = [line |-> tick.line, at |-> tick.now]
  /\ \/ Record(tick.line) /\ UNCHANGED slipped /\ Save(spoken', used', day)
     \/ /\ Fault /\ UNCHANGED <<rows, noted>> /\ slipped' = Unrecorded(tick.line)
        /\ SaveGood(spoken', used', day) \/ SaveBad
  /\ tick' = Idle
  /\ UNCHANGED <<day, world, sent, forgot, late, chances>>

-----------------------------------------------------------------------------
(* The owner, the world and the process. *)

Evidence(l, verdict) ==
  IF l.again THEN rows ELSE Marked(l.key, IF verdict = "positive" THEN "acted" ELSE "seen")

\* _grade_proactive_reaction: his next turn soon after (within the clock unit)
\* marks the key of the pending line, whose row is the newest of that key; a
\* re-raise's key has no row. Yes or no settles the slot and saves, anything
\* else leaves it. The state file is saved before the mark, and a bad write of the
\* ledger loses the mark, or the second of the two.
Reply(verdict) ==
  /\ pending # Never /\ pending.at = clock
  /\ pending' = IF verdict = "neutral" THEN pending ELSE Never
  /\ \/ /\ rows' = Evidence(pending.line, verdict)
        /\ IF verdict = "neutral" THEN UNCHANGED <<file, kept, faults>> ELSE Save(spoken, used, day)
     \/ /\ Fault /\ rows' \in {rows, Evidence(pending.line, "neutral")}
        /\ IF verdict = "neutral" THEN UNCHANGED <<file, kept>>
           ELSE SaveGood(spoken, used, day) \/ SaveBad
  /\ UNCHANGED <<spoken, used, day, tick, world, sent, forgot, late, noted, chances, slipped>>

Pass ==
  /\ clock < MaxClock /\ clock' = clock + 1
  /\ \/ today < MaxDays /\ today' = today + 1
     \/ UNCHANGED today
  /\ UNCHANGED <<rows, engine, tick, muted, history, faults>>

\* The owner sets or clears a mode, or its time is up.
SetMode ==
  /\ muted' = ~muted /\ late' = 0
  /\ UNCHANGED <<rows, engine, tick, clock, today, kept, sent, forgot, noted, chances, slipped,
                 faults>>

\* The brain restarts, its modes with it. What it no longer knows is history's
\* to count: today's deliveries the file does not have, and the re-raise that
\* went out but was not booked.
Restart ==
  /\ Fault
  /\ Load
  /\ pending' = Never /\ tick' = Idle /\ muted' = FALSE /\ late' = 0
  /\ forgot' = [forgot EXCEPT ![today] =
                  sent[today] - (IF file.day = today THEN file.used ELSE 0)]
  /\ slipped' = IF tick.phase = "out" THEN Unrecorded(tick.line) ELSE slipped
  /\ UNCHANGED <<rows, file, clock, today, kept, sent, noted, chances>>

Next ==
  \/ TickStart \/ Sources \/ Select \/ Deliver \/ EmitFails
  \/ Book
  \/ \E verdict \in {"positive", "negative", "neutral"} : Reply(verdict)
  \/ Pass \/ SetMode \/ Restart

Spec == Init /\ [][Next]_vars

-----------------------------------------------------------------------------
(* Properties. *)

\* No line is on its way again within the window of a delivery that was saved,
\* whatever restarts and midnights lie between (proactive.py:435-437, 634-636).
\* A delivery reported failed was not booked, and may be said again at once.
NoEarlyRepeat ==
  tick.phase \in {"emit", "out"} =>
    kept[tick.line] = Never \/ tick.now - kept[tick.line] >= Window

\* The ticks of one date deliver at most the budget, and those the engine does
\* not know of: lost by the file of a restart, or reported failed though they
\* arrived (proactive.py:517-528, 459-470; server.py:150-159).
BudgetHolds == \A d \in Days : sent[d] <= Budget + forgot[d]

\* A delivery's second chance is spent only if a re-raise of it went out: none
\* is spent on a message held back (delivery.py:170-176).
SpentMeansHeard == \A i \in DOMAIN rows : rows[i].reraised => chances[rows[i].key] > 0

\* A key delivered once is re-raised at most once, but for the re-raises the
\* ledger did not take down (delivery.py:22-25).
ReraisedOnce == \A k \in Keys : noted[k] = 1 => chances[k] <= 1 + slipped[k]

\* Once a mode mutes unprompted speech, at most the line already past the mode
\* check still goes out (proactive.py:691-700).
AtMostOneLate == late <= 1
=============================================================================
