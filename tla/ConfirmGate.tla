----------------------------- MODULE ConfirmGate -----------------------------
(***************************************************************************)
(* The confirmation tier of the agent (brain/agent.py): a consequential    *)
(* tool call is held until the owner affirms it.  The gate is two fields,  *)
(* one held call and one turn-wide grant, written by four places: the      *)
(* start of a turn, the classification of a batch of calls, the recording  *)
(* of their results, and the idle reset.                                   *)
(*                                                                         *)
(* Calls outside the tier never touch the gate and are left out: a model   *)
(* pass with only such calls is `Pass({})`.  Turns are serialised by the   *)
(* server's lock; a barge-in cancels the current one between any two       *)
(* awaits, and the tools it had started finish unobserved.                 *)
(***************************************************************************)
EXTENDS Naturals, FiniteSets

CONSTANTS
  Actions,    \* gated calls: a (tool, args) pair each
  MaxIters,   \* model passes in one turn
  MaxBatch,   \* gated calls in one model pass
  MaxTurns,   \* bound: turns
  None        \* no held call

ASSUME GateAssumption ==
  /\ None \notin Actions
  /\ MaxIters \in Nat /\ MaxBatch \in Nat /\ MaxTurns \in Nat

VARIABLES
  phase,      \* "idle" | "model" (between passes) | "tools" (calls running)
  pending,    \* _pending_confirm: the held call
  granted,    \* _confirm_granted
  batch,      \* gated calls running for this turn
  passes,     \* model passes this turn has used
  turns,      \* turns so far
  word,       \* history: call -> what the owner said to it since it was last held:
              \* "none" (never held, refused or done) | "asked" (not a word yet) | "yes"
  spent,      \* history: a confirmed success was recorded, nothing held since
  done,       \* history: gated calls that succeeded in this turn
  said,       \* history: what the owner heard last: "nothing" | "reply" | "ask" | "nudge"
  heard       \* history: what he had heard last when this turn began

gate    == <<pending, granted>>
history == <<word, spent, done, said, heard>>
vars    == <<phase, gate, batch, passes, turns, history>>

Sayings == {"nothing", "reply", "ask", "nudge"}

TypeOK ==
  /\ phase \in {"idle", "model", "tools"}
  /\ pending \in Actions \cup {None}
  /\ granted \in BOOLEAN
  /\ batch \subseteq Actions
  /\ passes \in 0..MaxIters
  /\ turns \in 0..MaxTurns
  /\ done \subseteq Actions
  /\ word \in [Actions -> {"none", "asked", "yes"}] /\ spent \in BOOLEAN
  /\ said \in Sayings /\ heard \in Sayings

Init ==
  /\ phase = "idle"
  /\ pending = None /\ granted = FALSE
  /\ batch = {} /\ passes = 0 /\ turns = 0
  /\ done = {}
  /\ word = [a \in Actions |-> "none"] /\ spent = FALSE
  /\ said = "nothing" /\ heard = "nothing"

-----------------------------------------------------------------------------
\* What a turn's opening does beside deciding the grant: a yes is one to every
\* call he was asked about, anything else and an idle gap refuse them all.
Open(yes) ==
  /\ phase = "idle"
  /\ turns < MaxTurns
  /\ turns' = turns + 1
  /\ phase' = "model"
  /\ passes' = 0 /\ batch' = {} /\ done' = {}
  /\ heard' = said
  /\ word' = [a \in Actions |-> IF yes /\ word[a] # "none" THEN "yes" ELSE "none"]
  /\ UNCHANGED <<spent, said>>

\* Variant: another request leaves the held call in place.
BeginTurnKeepsPending(yes, idle) ==
  LET held == IF idle THEN None ELSE pending
  IN  /\ Open(yes /\ ~idle)
      /\ granted' = (held # None /\ yes)
      /\ pending' = held

\* _begin_turn: after an idle gap the session is reset first; then a held call
\* is granted if the utterance affirms, dropped if it does not.
BeginTurn(yes, idle) ==
  LET held == IF idle THEN None ELSE pending
  IN  /\ Open(yes /\ ~idle)
      /\ granted' = (held # None /\ yes)
      /\ pending' = IF yes THEN held ELSE None

\* Pass 1 of _execute_calls without a grant: every gated call is held. The one
\* slot keeps the last, whichever the model put last.
Hold(calls) ==
  /\ phase = "model" /\ passes < MaxIters
  /\ ~granted
  /\ calls # {}
  /\ pending' \in calls
  /\ passes' = passes + 1
  /\ word' = [a \in Actions |-> IF a \in calls THEN "asked" ELSE word[a]]
  /\ spent' = FALSE
  /\ UNCHANGED <<phase, granted, batch, turns, done, said, heard>>

\* Passes 1 and 2 with a grant: the calls the camera or the schema check refuse
\* are blocked for good, `calls` are the others and start together. (When every
\* call is refused, or none is gated, the pass changes nothing: Read.)
Start(calls) ==
  /\ phase = "model" /\ passes < MaxIters
  /\ granted
  /\ calls # {}
  /\ phase' = "tools"
  /\ batch' = calls
  /\ passes' = passes + 1
  /\ UNCHANGED <<gate, turns, history>>

\* Variant: one pass too many.
ReadOnceMore ==
  /\ phase = "model" /\ passes <= MaxIters
  /\ passes' = passes + 1
  /\ UNCHANGED <<phase, gate, batch, turns, history>>

\* A pass in which no gated call is held or started.
Read ==
  /\ phase = "model" /\ passes < MaxIters
  /\ passes' = passes + 1
  /\ UNCHANGED <<phase, gate, batch, turns, history>>

\* What he said to a call that is done by now was said to that one run of it.
WordAfter(ok) == [a \in Actions |-> IF a \in ok THEN "none" ELSE word[a]]

\* Variant: the grant is taken back, the held call is not.
FinishKeepsPending(ok) ==
  /\ phase = "tools"
  /\ ok \subseteq batch
  /\ granted' = (granted /\ ok = {})
  /\ spent' = (spent \/ ok # {})
  /\ done' = done \cup ok /\ word' = WordAfter(ok)
  /\ phase' = "model" /\ batch' = {}
  /\ UNCHANGED <<pending, passes, turns, said, heard>>

\* Variant: the held call is dropped, the grant stays for the turn.
FinishKeepsGrant(ok) ==
  /\ phase = "tools"
  /\ ok \subseteq batch
  /\ pending' = IF ok = {} THEN pending ELSE None
  /\ spent' = (spent \/ ok # {})
  /\ done' = done \cup ok /\ word' = WordAfter(ok)
  /\ phase' = "model" /\ batch' = {}
  /\ UNCHANGED <<granted, passes, turns, said, heard>>

\* Pass 3: results are recorded; one success consumes grant and held call, a
\* batch of failures leaves both.
Finish(ok) ==
  /\ phase = "tools"
  /\ ok \subseteq batch
  /\ granted' = (granted /\ ok = {})
  /\ pending' = IF ok = {} THEN pending ELSE None
  /\ spent' = (spent \/ ok # {})
  /\ done' = done \cup ok /\ word' = WordAfter(ok)
  /\ phase' = "model" /\ batch' = {}
  /\ UNCHANGED <<passes, turns, said, heard>>

\* This turn held a call.
Asking == \E a \in Actions : word[a] = "asked"

\* The turn ends with something spoken: the ask, when it held a call.
Reply ==
  /\ phase = "model"
  /\ phase' = "idle"
  /\ said' = IF Asking THEN "ask" ELSE "reply"
  /\ UNCHANGED <<gate, batch, passes, turns, word, spent, done, heard>>

\* Barge-in, a superseding utterance, or a turn that raised: the rest of the
\* turn, pass 3 included, never runs. What had been spoken stays spoken.
Cancel ==
  /\ phase # "idle"
  /\ phase' = "idle" /\ batch' = {}
  /\ said' \in {said, IF Asking THEN "ask" ELSE "reply"}
  /\ UNCHANGED <<gate, passes, turns, word, spent, done, heard>>

\* note_proactive: Afon says something unprompted between two turns.
NoteProactive ==
  /\ phase = "idle"
  /\ said' = "nudge"
  /\ UNCHANGED <<phase, gate, batch, passes, turns, word, spent, done, heard>>

Calls == {c \in SUBSET Actions : Cardinality(c) <= MaxBatch}

Next ==
  \/ \E yes, idle \in BOOLEAN : BeginTurn(yes, idle)
  \/ \E calls \in Calls : Hold(calls) \/ Start(calls)
  \/ \E ok \in SUBSET Actions : Finish(ok)
  \/ Read
  \/ Reply
  \/ Cancel
  \/ NoteProactive

Spec == Init /\ [][Next]_vars

-----------------------------------------------------------------------------
\* The calls a step starts.
Started == IF phase = "model" /\ phase' = "tools" THEN batch' ELSE {}

\* A turn with a grant still has the held call the grant came from: what is
\* granted never outlives what was held.
GrantHasPending == granted => pending # None

\* Gated calls start only over some call that Afon asked about in an earlier
\* turn and that the owner has answered with nothing but yes since: refused
\* once, or left over an idle gap, no call can carry a start before it has been
\* held again. The calls that start need not be that one (RunsWhatWasAffirmed).
OnlyAfterUnbrokenYes ==
  [][Started # {} => pending \in Actions /\ word[pending] = "yes"]_vars

\* Once a confirmed success is recorded, no gated call starts until another
\* one has been held and affirmed, however often the owner says yes.
NoSecondUse ==
  [][Started # {} => ~spent]_vars

\* The gate gives and withdraws a consent to act: some call was asked about in
\* an earlier turn, all he has said since is yes, and the first recorded success
\* takes it back (agent.py:937-939, 1659-1660, 1765-1766). To which call it was
\* given is not part of it: the grant is a flag.
Promise == INSTANCE Consent WITH
             talking <- phase # "idle",
             consent <- IF granted THEN "given" ELSE IF pending # None THEN "asked" ELSE "none",
             acting  <- batch

ImplementsConsent == Promise!Spec

\* "It is inside [the confirm tier] and the owner affirmed this specific action"
\* (_execute_calls, on what it lets run): he was asked about each gated call that
\* runs in an earlier turn, and has said nothing but yes since.
RunsWhatWasAffirmed == \A a \in batch : word[a] = "yes"

\* "A 'yes' must immediately follow the ask" (_begin_turn): a grant comes from
\* an utterance that answers the ask, not something said since.
YesAnswersTheAsk == granted => heard = "ask"
=============================================================================
